-------------------------- MODULE ThreadPoolProofs --------------------------
(* Proofs about ThreadPool, for any number of workers, callers and tasks.    *)
EXTENDS ThreadPool, FiniteSetTheorems, TLAPS

\* The labels between a lock and the unlock, and those of a run() call before its push.
Critical == {"checkFull", "recheckFull", "wait", "push", "runUnlock", "checkEmpty", "pop",
             "takeUnlock", "stopRunning", "stopUnlock"}
InRun == {"run", "checkFull", "recheckFull", "wait", "asleep", "woken", "push"}

\* What makes the queue's bound inductive: one thread at a time is between a lock and an
\* unlock, and what a caller found when it tested isFull() still holds when it pushes.
Exclusive == \A t \in Thread : pc[t] \in Critical => mutex = t
RoomToPush == \A p \in Caller : pc[p] = "push" => Len(tasks_) < threadNum_
Submitting == \A p \in Caller : pc[p] \in InRun => sent[p] >= 1
PoolInv == PoolTypeOK /\ Exclusive /\ RoomToPush /\ Submitting /\ QueueBounded /\ TasksInOrder

LEMMA ThreadNum == threadNum_ \in Nat \ {0}
BY FS_CardinalityType, FS_EmptySet, ThreadPoolAssumption DEF threadNum_

LEMMA InitPoolInv == PoolInit => PoolInv
<1> SUFFICES ASSUME PoolInit PROVE PoolInv
  OBVIOUS
<1>1. PoolTypeOK
  <2>1. pc \in [Thread -> Labels]
    BY DEF PoolInit, Labels
  <2>2. sent \in [Caller -> 0 .. MaxTasks]
    BY ThreadPoolAssumption DEF PoolInit
  <2>3. task \in [Worker -> Task \cup {<<>>}]
    BY DEF PoolInit
  <2>4. tasks_ \in Seq(Task) /\ accepted \in Seq(Task) /\ taken \in Seq(Task)
    BY DEF PoolInit
  <2>5. mutex \in Thread \cup {NoThread} /\ holder_ \in Thread \cup {NoThread}
    BY DEF PoolInit
  <2>6. running_ \in BOOLEAN
    BY Zenon DEF PoolInit
  <2> QED  BY <2>1, <2>2, <2>3, <2>4, <2>5, <2>6 DEF PoolTypeOK
<1>2. Exclusive /\ RoomToPush /\ Submitting
  BY ThreadPoolAssumption DEF PoolInit, Exclusive, RoomToPush, Submitting, Critical, InRun, Thread, Caller
<1>3. QueueBounded /\ TasksInOrder
  BY ThreadNum DEF PoolInit, QueueBounded, TasksInOrder
<1> QED  BY <1>1, <1>2, <1>3 DEF PoolInv

\* The steps that only move one thread between labels and may take or give up the mutex.
LEMMA MoveInv ==
    ASSUME PoolInv, NEW t \in Thread, NEW l \in Labels, goto(t, l),
           mutex' \in Thread \cup {NoThread}, holder_' \in Thread \cup {NoThread},
           \A u \in Thread \ {t} : pc[u] \in Critical => mutex' = u,
           l \in Critical => mutex' = t,
           l = "push" => Len(tasks_) < threadNum_,
           t \in Caller /\ l \in InRun => sent'[t] >= 1,
           sent' \in [Caller -> 0 .. MaxTasks],
           \A p \in Caller \ {t} : sent'[p] = sent[p],
           running_' \in BOOLEAN,
           task' \in [Worker -> Task \cup {<<>>}],
           UNCHANGED queueVars
    PROVE  PoolInv'
<1>1. PoolTypeOK'
  BY DEF PoolInv, PoolTypeOK, goto, queueVars
<1>2. Exclusive'
  BY DEF PoolInv, PoolTypeOK, Exclusive, goto
<1>3. RoomToPush'
  BY DEF PoolInv, PoolTypeOK, RoomToPush, goto, queueVars, Thread
<1>4. Submitting'
  BY DEF PoolInv, PoolTypeOK, Submitting, goto, Thread
<1>5. QueueBounded' /\ TasksInOrder'
  BY DEF PoolInv, QueueBounded, TasksInOrder, queueVars
<1> QED  BY <1>1, <1>2, <1>3, <1>4, <1>5 DEF PoolInv

LEMMA LockInv ==
    ASSUME PoolInv, NEW t \in Thread, NEW from, NEW to \in Labels, lock(t, from, to),
           to # "push", t \in Caller /\ to \in InRun => from \in InRun
    PROVE  PoolInv'
<1>1. \A u \in Thread : pc[u] \notin Critical
  BY ThreadPoolAssumption DEF PoolInv, Exclusive, lock
<1> QED  BY <1>1, MoveInv DEF lock, PoolInv, PoolTypeOK, Submitting

LEMMA UnlockInv ==
    ASSUME PoolInv, NEW t \in Thread, NEW from \in Critical, NEW to \in Labels \ (Critical \cup InRun),
           unlock(t, from, to)
    PROVE  PoolInv'
<1>1. \A u \in Thread \ {t} : pc[u] \notin Critical
  BY DEF PoolInv, Exclusive, unlock
<1>2. to # "push"
  BY DEF InRun
<1> QED  BY <1>1, <1>2, MoveInv DEF unlock, PoolInv, PoolTypeOK

LEMMA UnassignInv ==
    ASSUME PoolInv, NEW t \in Thread, NEW from, NEW to \in Labels \ (Critical \cup InRun),
           unassignHolder(t, from, to)
    PROVE  PoolInv'
<1>1. \A u \in Thread \ {t} : pc[u] \in Critical => mutex' = u
  BY DEF PoolInv, Exclusive, unassignHolder
<1>2. to # "push"
  BY DEF InRun
<1> QED  BY <1>1, <1>2, MoveInv DEF unassignHolder, PoolInv, PoolTypeOK

LEMMA WaitInv == ASSUME PoolInv, NEW t \in Thread, wait(t) PROVE PoolInv'
<1>1. \A u \in Thread \ {t} : pc[u] \notin Critical
  BY DEF PoolInv, Exclusive, wait, Critical
<1>2. "asleep" \in Labels /\ "asleep" \notin Critical
  BY DEF Labels, Critical
<1>3. t \in Caller => sent[t] >= 1
  BY DEF PoolInv, Submitting, wait, InRun
<1> QED  BY <1>1, <1>2, <1>3, MoveInv DEF wait, PoolInv, PoolTypeOK

LEMMA WakeInv == ASSUME PoolInv, NEW t \in Thread, spuriousWakeup(t) PROVE PoolInv'
<1>1. \A u \in Thread \ {t} : pc[u] \in Critical => mutex' = u
  BY DEF PoolInv, Exclusive, spuriousWakeup, lockVars
<1>2. "woken" \in Labels /\ "woken" \notin Critical
  BY DEF Labels, Critical
<1>3. t \in Caller => sent[t] >= 1
  BY DEF PoolInv, Submitting, spuriousWakeup, InRun
<1> QED  BY <1>1, <1>2, <1>3, MoveInv DEF spuriousWakeup, PoolInv, PoolTypeOK, lockVars
LEMMA RunInv == ASSUME PoolInv, NEW p \in Caller, run(p) PROVE PoolInv'
<1>1. \A u \in Thread \ {p} : pc[u] \in Critical => mutex' = u
  BY DEF PoolInv, Exclusive, run, lockVars
<1>2. "run" \in Labels /\ "run" \notin Critical /\ p \in Thread
  BY DEF Labels, Critical, Thread
<1>3. sent' \in [Caller -> 0 .. MaxTasks] /\ sent'[p] >= 1
      /\ \A u \in Caller \ {p} : sent'[u] = sent[u]
  BY ThreadPoolAssumption DEF PoolInv, PoolTypeOK, run
<1> QED  BY <1>1, <1>2, <1>3, MoveInv DEF run, PoolInv, PoolTypeOK, lockVars

LEMMA CheckFullInv == ASSUME PoolInv, NEW p \in Caller, checkFull(p) PROVE PoolInv'
<1> DEFINE l == IF isFull THEN "wait" ELSE "push"
<1>1. mutex = p /\ p \in Thread /\ sent[p] >= 1
  BY DEF PoolInv, Exclusive, Submitting, checkFull, Critical, InRun, Thread
<1>2. \A u \in Thread \ {p} : pc[u] \in Critical => mutex' = u
  BY DEF PoolInv, Exclusive, checkFull, lockVars
<1>3. l \in Labels /\ (l = "push" => Len(tasks_) < threadNum_)
  BY ThreadNum DEF Labels, isFull, PoolInv, PoolTypeOK
<1>4. goto(p, l)
  BY DEF checkFull
<1> HIDE DEF l
<1> QED  BY <1>1, <1>2, <1>3, <1>4, MoveInv DEF checkFull, PoolInv, PoolTypeOK, lockVars

LEMMA WhileRunningInv == ASSUME PoolInv, NEW w \in Worker, whileRunning(w) PROVE PoolInv'
<1> DEFINE l == IF running_ THEN "take" ELSE "done"
<1>1. \A u \in Thread \ {w} : pc[u] \in Critical => mutex' = u
  BY DEF PoolInv, Exclusive, whileRunning, lockVars
<1>2. l \in Labels /\ l \notin Critical /\ l # "push" /\ w \in Thread /\ w \notin Caller
  BY ThreadPoolAssumption DEF Labels, Critical, Thread
<1>3. goto(w, l)
  BY DEF whileRunning
<1> HIDE DEF l
<1> QED  BY <1>1, <1>2, <1>3, MoveInv DEF whileRunning, PoolInv, PoolTypeOK, lockVars

LEMMA CheckEmptyInv == ASSUME PoolInv, NEW w \in Worker, checkEmpty(w) PROVE PoolInv'
<1> DEFINE l == IF tasks_ = <<>> /\ running_ THEN "wait" ELSE "pop"
<1>1. \A u \in Thread \ {w} : pc[u] \in Critical => mutex' = u
  BY DEF PoolInv, Exclusive, checkEmpty, lockVars
<1>2. l \in Labels /\ l # "push" /\ w \in Thread /\ w \notin Caller
  BY ThreadPoolAssumption DEF Labels, Thread
<1>3. mutex = w
  BY <1>2 DEF PoolInv, Exclusive, checkEmpty, Critical
<1>4. goto(w, l)
  BY DEF checkEmpty
<1> HIDE DEF l
<1> QED  BY <1>1, <1>2, <1>3, <1>4, MoveInv DEF checkEmpty, PoolInv, PoolTypeOK, lockVars

LEMMA CallTaskInv == ASSUME PoolInv, NEW w \in Worker, callTask(w) PROVE PoolInv'
<1>1. \A u \in Thread \ {w} : pc[u] \in Critical => mutex' = u
  BY DEF PoolInv, Exclusive, callTask, lockVars
<1>2. "loop" \in Labels /\ "loop" \notin Critical /\ w \in Thread /\ w \notin Caller
  BY ThreadPoolAssumption DEF Labels, Critical, Thread
<1>3. task' \in [Worker -> Task \cup {<<>>}]
  BY DEF callTask, PoolInv, PoolTypeOK
<1> QED  BY <1>1, <1>2, <1>3, MoveInv DEF callTask, PoolInv, PoolTypeOK, lockVars

LEMMA StopInv == ASSUME PoolInv, stop PROVE PoolInv'
<1>1. \A u \in Thread \ {Main} : pc[u] \in Critical => mutex' = u
  BY DEF PoolInv, Exclusive, stop, lockVars
<1>2. "stop" \in Labels /\ "stop" \notin Critical \cup InRun /\ Main \in Thread
  BY DEF Labels, Critical, InRun, Thread, Caller
<1> QED  BY <1>1, <1>2, MoveInv DEF stop, PoolInv, PoolTypeOK, lockVars

LEMMA JoinInv == ASSUME PoolInv, join PROVE PoolInv'
<1>1. \A u \in Thread \ {Main} : pc[u] \in Critical => mutex' = u
  BY DEF PoolInv, Exclusive, join, lockVars
<1>2. "done" \in Labels /\ "done" \notin Critical \cup InRun /\ Main \in Thread
  BY DEF Labels, Critical, InRun, Thread, Caller
<1> QED  BY <1>1, <1>2, MoveInv DEF join, PoolInv, PoolTypeOK, lockVars

LEMMA StartInv == ASSUME PoolInv, start PROVE PoolInv'
<1>1. CASE \E w \in Worker : pc[w] = "new" /\ goto(w, "loop")
  <2>1. PICK w \in Worker : pc[w] = "new" /\ goto(w, "loop")
    BY <1>1
  <2>2. \A u \in Thread \ {w} : pc[u] \in Critical => mutex' = u
    BY DEF PoolInv, Exclusive, start, lockVars
  <2>3. "loop" \in Labels /\ "loop" \notin Critical /\ w \in Thread /\ w \notin Caller
    BY ThreadPoolAssumption DEF Labels, Critical, Thread
  <2> QED  BY <2>1, <2>2, <2>3, MoveInv DEF start, PoolInv, PoolTypeOK, lockVars
<1>2. CASE pc' = [t \in Thread |-> IF t \in Caller THEN "idle" ELSE pc[t]]
  <2>1. PoolTypeOK'
    BY <1>2 DEF PoolInv, PoolTypeOK, start, lockVars, queueVars, Labels
  <2>2. Exclusive' /\ RoomToPush' /\ Submitting'
    BY <1>2 DEF PoolInv, start, lockVars, queueVars, Exclusive, RoomToPush, Submitting,
                Critical, InRun, Thread
  <2>3. QueueBounded' /\ TasksInOrder'
    BY DEF PoolInv, QueueBounded, TasksInOrder, start, queueVars
  <2> QED  BY <2>1, <2>2, <2>3 DEF PoolInv
<1> QED  BY <1>1, <1>2 DEF start

\* The steps that notify: t moves on inside its critical section, sleepers wake up.
LEMMA WakeManyInv ==
    ASSUME PoolInv, NEW t \in Thread, NEW l \in Critical \ InRun, NEW W \in SUBSET Thread,
           gotoAndWake(t, l, W), \A u \in W : pc[u] = "asleep",
           mutex = t, UNCHANGED lockVars, UNCHANGED sent,
           Len(tasks_') <= threadNum_, TasksInOrder',
           tasks_' \in Seq(Task), accepted' \in Seq(Task), taken' \in Seq(Task),
           running_' \in BOOLEAN, task' \in [Worker -> Task \cup {<<>>}]
    PROVE  PoolInv'
<1>1. l \in Labels /\ "woken" \in Labels /\ l # "push" /\ l \notin InRun
  BY DEF Critical, Labels, InRun
<1>2. PoolTypeOK'
  BY <1>1 DEF PoolInv, PoolTypeOK, gotoAndWake, lockVars
<1>3. \A u \in Thread \ {t} : pc[u] \notin Critical /\ pc'[u] \notin Critical
  BY DEF PoolInv, Exclusive, gotoAndWake, Critical
<1>4. Exclusive'
  BY <1>3 DEF Exclusive, lockVars
<1>5. RoomToPush'
  BY <1>1, <1>3 DEF RoomToPush, gotoAndWake, Critical, Thread
<1>6. Submitting'
  <2> SUFFICES ASSUME NEW p \in Caller, pc'[p] \in InRun PROVE sent'[p] >= 1
    BY DEF Submitting
  <2>1. pc[p] \in InRun
    BY <1>1 DEF gotoAndWake, Thread, InRun
  <2> QED  BY <2>1 DEF PoolInv, Submitting
<1>7. QueueBounded'
  BY DEF QueueBounded
<1> QED  BY <1>2, <1>4, <1>5, <1>6, <1>7 DEF PoolInv

LEMMA NotifiedAreSleepers ==
    ASSUME NEW C, NEW W \in notified(C) PROVE W \subseteq C
BY DEF notified

LEMMA PushInv == ASSUME PoolInv, NEW p \in Caller, push(p) PROVE PoolInv'
<1>1. PICK W \in notified(notEmpty_) : gotoAndWake(p, "runUnlock", W)
  BY DEF push
<1>2. W \in SUBSET Thread /\ \A u \in W : pc[u] = "asleep"
  BY <1>1, NotifiedAreSleepers DEF notEmpty_, Thread
<1>3. mutex = p /\ p \in Thread /\ sent[p] >= 1 /\ Len(tasks_) < threadNum_
  BY DEF PoolInv, Exclusive, Submitting, RoomToPush, push, Critical, InRun, Thread
<1>4. <<p, sent[p]>> \in Task
  BY <1>3, ThreadPoolAssumption DEF Task, PoolInv, PoolTypeOK
<1>5. /\ tasks_' \in Seq(Task) /\ accepted' \in Seq(Task) /\ taken' \in Seq(Task)
      /\ Len(tasks_') = Len(tasks_) + 1
  BY <1>4 DEF push, PoolInv, PoolTypeOK
<1>6. Len(tasks_') <= threadNum_
  BY <1>3, <1>5, ThreadNum DEF PoolInv, PoolTypeOK
<1>7. TasksInOrder'
  <2>1. accepted' = Append(taken \o tasks_, <<p, sent[p]>>)
    BY DEF push, PoolInv, TasksInOrder
  <2>2. taken' \o tasks_' = taken \o Append(tasks_, <<p, sent[p]>>)
    BY DEF push
  <2> QED  BY <1>4, <2>1, <2>2 DEF TasksInOrder, PoolInv, PoolTypeOK
<1>8. "runUnlock" \in Critical \ InRun
  BY DEF Critical, InRun
<1> QED  BY <1>1, <1>2, <1>3, <1>5, <1>6, <1>7, <1>8, WakeManyInv DEF push, PoolInv, PoolTypeOK

LEMMA PopInv == ASSUME PoolInv, NEW w \in Worker, pop(w) PROVE PoolInv'
<1>1. mutex = w /\ w \in Thread /\ w \notin Caller
  BY ThreadPoolAssumption DEF PoolInv, Exclusive, pop, Critical, Thread
<1>2. "takeUnlock" \in Critical \ InRun /\ "takeUnlock" \in Labels
  BY DEF Critical, InRun, Labels
<1>3. CASE tasks_ = <<>>
  <2>1. \A u \in Thread \ {w} : pc[u] \in Critical => mutex' = u
    BY DEF PoolInv, Exclusive, pop, lockVars
  <2>2. goto(w, "takeUnlock") /\ UNCHANGED <<tasks_, taken, accepted, task, sent, running_>>
    BY <1>3 DEF pop
  <2> QED  BY <1>1, <1>2, <2>1, <2>2, MoveInv DEF pop, PoolInv, PoolTypeOK, lockVars, queueVars
<1>4. CASE tasks_ # <<>>
  <2>1. PICK W \in notified(notFull_) : gotoAndWake(w, "takeUnlock", W)
    BY <1>4 DEF pop
  <2>2. W \in SUBSET Thread /\ \A u \in W : pc[u] = "asleep"
    BY <2>1, NotifiedAreSleepers DEF notFull_, Thread
  <2>3. /\ task' = [task EXCEPT ![w] = Head(tasks_)] /\ tasks_' = Tail(tasks_)
        /\ taken' = Append(taken, Head(tasks_)) /\ accepted' = accepted
    BY <1>4 DEF pop
  <2>4. Head(tasks_) \in Task /\ tasks_ \in Seq(Task) /\ taken \in Seq(Task)
    BY <1>4 DEF PoolInv, PoolTypeOK
  <2>5. /\ tasks_' \in Seq(Task) /\ taken' \in Seq(Task)
        /\ Len(tasks_') = Len(tasks_) - 1
    BY <1>4, <2>3, <2>4
  <2>6. Len(tasks_') <= threadNum_
    BY <2>4, <2>5, ThreadNum DEF PoolInv, QueueBounded
  <2>7. taken' \o tasks_' = taken \o tasks_
    BY <1>4, <2>3, <2>4
  <2>8. TasksInOrder'
    BY <2>3, <2>7 DEF PoolInv, TasksInOrder
  <2>9. task' \in [Worker -> Task \cup {<<>>}]
    BY <2>3, <2>4 DEF PoolInv, PoolTypeOK
  <2> QED  BY <1>1, <1>2, <2>1, <2>2, <2>3, <2>5, <2>6, <2>8, <2>9, WakeManyInv
              DEF pop, PoolInv, PoolTypeOK
<1> QED  BY <1>3, <1>4

LEMMA StopRunningInv == ASSUME PoolInv, stopRunning PROVE PoolInv'
<1>1. mutex = Main /\ Main \in Thread
  BY DEF PoolInv, Exclusive, stopRunning, Critical, Thread, Caller
<1>2. "stopUnlock" \in Critical \ InRun
  BY DEF Critical, InRun
<1>3. notEmpty_ \in SUBSET Thread /\ \A u \in notEmpty_ : pc[u] = "asleep"
  BY DEF notEmpty_, Thread
<1>4. UNCHANGED queueVars /\ TasksInOrder' /\ Len(tasks_') <= threadNum_
  BY DEF stopRunning, queueVars, PoolInv, TasksInOrder, QueueBounded
<1> QED  BY <1>1, <1>2, <1>3, <1>4, WakeManyInv DEF stopRunning, PoolInv, PoolTypeOK, queueVars
\* Every step of every thread keeps the inductive invariant.
LEMMA NextPoolInv == PoolInv /\ [PoolNext]_poolVars => PoolInv'
<1> SUFFICES ASSUME PoolInv, [PoolNext]_poolVars PROVE PoolInv'
  OBVIOUS
<1> USE DEF Labels, Critical, InRun
<1>1. CASE start
  BY <1>1, StartInv
<1>2. CASE Stop
  <2>0. Main \in Thread
    BY DEF Thread, Caller
  <2>1. CASE stop
    BY <2>1, StopInv
  <2>2. CASE lock(Main, "stop", "stopRunning")
    BY <2>0, <2>2, LockInv
  <2>3. CASE stopRunning
    BY <2>3, StopRunningInv
  <2>4. CASE unlock(Main, "stopUnlock", "stopUnassign")
    BY <2>0, <2>4, UnlockInv
  <2>5. CASE unassignHolder(Main, "stopUnassign", "join")
    BY <2>0, <2>5, UnassignInv
  <2>6. CASE join
    BY <2>6, JoinInv
  <2> QED  BY <1>2, <2>1, <2>2, <2>3, <2>4, <2>5, <2>6 DEF Stop
<1>3. ASSUME NEW p \in Caller, Run(p) PROVE PoolInv'
  <2>0. p \in Thread
    BY DEF Thread
  <2>1. CASE run(p)
    BY <2>1, RunInv
  <2>2. CASE lock(p, "run", "checkFull")
    BY <2>0, <2>2, LockInv
  <2>3. CASE checkFull(p)
    BY <2>3, CheckFullInv
  <2>4. CASE wait(p)
    BY <2>0, <2>4, WaitInv
  <2>5. CASE spuriousWakeup(p)
    BY <2>0, <2>5, WakeInv
  <2>6. CASE lock(p, "woken", "recheckFull")
    BY <2>0, <2>6, LockInv
  <2>7. CASE push(p)
    BY <2>7, PushInv
  <2>8. CASE unlock(p, "runUnlock", "runUnassign")
    BY <2>0, <2>8, UnlockInv
  <2>9. CASE unassignHolder(p, "runUnassign", "idle")
    BY <2>0, <2>9, UnassignInv
  <2> QED  BY <1>3, <2>1, <2>2, <2>3, <2>4, <2>5, <2>6, <2>7, <2>8, <2>9 DEF Run
<1>4. ASSUME NEW w \in Worker, runInThread(w) PROVE PoolInv'
  <2>0. w \in Thread /\ w \notin Caller
    BY ThreadPoolAssumption DEF Thread
  <2>1. CASE whileRunning(w)
    BY <2>1, WhileRunningInv
  <2>2. CASE lock(w, "take", "checkEmpty")
    BY <2>0, <2>2, LockInv
  <2>3. CASE checkEmpty(w)
    BY <2>3, CheckEmptyInv
  <2>4. CASE wait(w)
    BY <2>0, <2>4, WaitInv
  <2>5. CASE spuriousWakeup(w)
    BY <2>0, <2>5, WakeInv
  <2>6. CASE lock(w, "woken", "checkEmpty")
    BY <2>0, <2>6, LockInv
  <2>7. CASE pop(w)
    BY <2>7, PopInv
  <2>8. CASE unlock(w, "takeUnlock", "takeUnassign")
    BY <2>0, <2>8, UnlockInv
  <2>9. CASE unassignHolder(w, "takeUnassign", "task")
    BY <2>0, <2>9, UnassignInv
  <2>10. CASE callTask(w)
    BY <2>10, CallTaskInv
  <2> QED  BY <1>4, <2>1, <2>2, <2>3, <2>4, <2>5, <2>6, <2>7, <2>8, <2>9, <2>10 DEF runInThread
<1>5. CASE UNCHANGED poolVars
  <2>1. PoolTypeOK' /\ QueueBounded' /\ TasksInOrder'
    BY <1>5 DEF poolVars, PoolInv, PoolTypeOK, QueueBounded, TasksInOrder
  <2>2. Exclusive' /\ RoomToPush' /\ Submitting'
    BY <1>5 DEF poolVars, PoolInv, Exclusive, RoomToPush, Submitting
  <2> QED  BY <2>1, <2>2 DEF PoolInv
<1> QED  BY <1>1, <1>2, <1>3, <1>4, <1>5 DEF PoolNext

\* The state of the pool keeps its type, for any number of threads and tasks.
THEOREM PoolTypeCorrect == Pool => []PoolTypeOK
<1>1. PoolInv => PoolTypeOK
  BY DEF PoolInv
<1> QED  BY <1>1, InitPoolInv, NextPoolInv, PTL DEF Pool

\* However many threads call run(), sleep and wake up, the queue never outgrows threadNum_.
THEOREM PoolQueueBounded == Pool => []QueueBounded
<1>1. PoolInv => QueueBounded
  BY DEF PoolInv
<1> QED  BY <1>1, InitPoolInv, NextPoolInv, PTL DEF Pool

\* For any number of workers and callers, no task is lost, duplicated or overtaken.
THEOREM PoolTasksInOrder == Pool => []TasksInOrder
<1>1. PoolInv => TasksInOrder
  BY DEF PoolInv
<1> QED  BY <1>1, InitPoolInv, NextPoolInv, PTL DEF Pool

-----------------------------------------------------------------------------
(* No wake-up is lost.                                                       *)

ToTake == {"woken", "checkEmpty", "pop"}
ToPush == {"woken", "checkFull", "recheckFull", "push"}

\* What a thread found when it decided to sleep still holds when it falls asleep, since it has
\* held the mutex: together with PoolInv this makes NoLostWakeup inductive.
MaySleep ==
    /\ \A w \in Worker : pc[w] = "wait" => tasks_ = <<>>
    /\ \A p \in Caller : pc[p] = "wait" => Len(tasks_) >= threadNum_
QuietInv == MaySleep /\ NoLostWakeup

LEMMA Wayfarers ==
    /\ OnTheWayToTake \subseteq Worker /\ IsFiniteSet(OnTheWayToTake)
    /\ OnTheWayToPush \subseteq Caller /\ IsFiniteSet(OnTheWayToPush)
    /\ Cardinality(OnTheWayToTake) \in Nat /\ Cardinality(OnTheWayToPush) \in Nat
<1>1. IsFiniteSet(Caller)
  BY FS_AddElement, ThreadPoolAssumption DEF Caller
<1>2. OnTheWayToTake \subseteq Worker /\ OnTheWayToPush \subseteq Caller
  BY DEF OnTheWayToTake, OnTheWayToPush
<1> QED  BY <1>1, <1>2, FS_Subset, FS_CardinalityType, ThreadPoolAssumption

LEMMA WayfarersAfter ==
    /\ IsFiniteSet(OnTheWayToTake') /\ IsFiniteSet(OnTheWayToPush')
    /\ Cardinality(OnTheWayToTake') \in Nat /\ Cardinality(OnTheWayToPush') \in Nat
<1>1. IsFiniteSet(Caller)
  BY FS_AddElement, ThreadPoolAssumption DEF Caller
<1>2. OnTheWayToTake' \subseteq Worker /\ OnTheWayToPush' \subseteq Caller
  BY DEF OnTheWayToTake, OnTheWayToPush
<1> QED  BY <1>1, <1>2, FS_Subset, FS_CardinalityType, ThreadPoolAssumption

\* A thread that leaves the set makes it smaller by at most one; one that joins, larger by one.
LEMMA OneLess ==
    ASSUME NEW S, NEW T, NEW x, IsFiniteSet(S), IsFiniteSet(T), S \subseteq T \cup {x}
    PROVE  Cardinality(S) \in Nat /\ Cardinality(T) \in Nat /\ Cardinality(S) <= Cardinality(T) + 1
<1>0. Cardinality(T) \in Nat /\ Cardinality(S) \in Nat
  BY FS_CardinalityType
<1>1. IsFiniteSet(T \cup {x}) /\ Cardinality(T \cup {x}) <= Cardinality(T) + 1
  <2>1. /\ IsFiniteSet(T \cup {x})
        /\ Cardinality(T \cup {x}) = IF x \in T THEN Cardinality(T) ELSE Cardinality(T) + 1
    BY FS_AddElement, Zenon
  <2> QED  BY <1>0, <2>1
<1>2. Cardinality(S) <= Cardinality(T \cup {x})
  BY <1>1, FS_Subset
<1>3. Cardinality(T \cup {x}) \in Nat
  BY <1>1, FS_CardinalityType
<1> QED  BY <1>0, <1>1, <1>2, <1>3

LEMMA OneMore ==
    ASSUME NEW S, NEW T, NEW x, IsFiniteSet(S), IsFiniteSet(T), x \notin S, S \cup {x} \subseteq T
    PROVE  Cardinality(S) \in Nat /\ Cardinality(T) \in Nat /\ Cardinality(S) + 1 <= Cardinality(T)
<1>1. IsFiniteSet(S \cup {x}) /\ Cardinality(S \cup {x}) = Cardinality(S) + 1
  BY FS_AddElement
<1>2. Cardinality(S \cup {x}) <= Cardinality(T)
  BY <1>1, FS_Subset
<1> QED  BY <1>1, <1>2, FS_CardinalityType

\* A step of one thread t that leaves the queue alone: t may turn away from the queue, or fall
\* asleep, only when there is nothing in it (a worker) or no room (a caller).
LEMMA MoveQuiet ==
    ASSUME PoolInv, QuietInv, NEW t \in Thread, NEW l, goto(t, l), UNCHANGED queueVars,
           t \in Worker /\ l \in {"wait", "asleep"} => tasks_ = <<>>,
           t \in Caller /\ l \in {"wait", "asleep"} => Len(tasks_) >= threadNum_,
           t \in Worker /\ pc[t] \in ToTake /\ l \notin ToTake => tasks_ = <<>>,
           t \in Caller /\ pc[t] \in ToPush /\ l \notin ToPush => Len(tasks_) >= threadNum_
    PROVE  QuietInv'
<1>1. pc \in [Thread -> Labels] /\ tasks_ \in Seq(Task) /\ tasks_' = tasks_ /\ Len(tasks_) \in Nat
  BY DEF PoolInv, PoolTypeOK, queueVars
<1>2. pc' = [pc EXCEPT ![t] = l] /\ Worker \subseteq Thread /\ Caller \subseteq Thread
  BY DEF goto, Thread
<1>3. MaySleep'
  BY <1>1, <1>2 DEF QuietInv, MaySleep
<1>4. ASSUME notEmpty_' # {} PROVE Len(tasks_') <= Cardinality(OnTheWayToTake')
  <2>1. CASE tasks_ = <<>>
    BY <1>1, <2>1, WayfarersAfter
  <2>2. CASE tasks_ # <<>>
    <3>1. notEmpty_ # {}
      BY <1>1, <1>2, <1>4, <2>2 DEF notEmpty_
    <3>2. OnTheWayToTake \subseteq OnTheWayToTake'
      BY <1>1, <1>2, <2>2 DEF OnTheWayToTake, ToTake
    <3>3. Cardinality(OnTheWayToTake) <= Cardinality(OnTheWayToTake')
      BY <3>2, WayfarersAfter, FS_Subset
    <3>4. Len(tasks_) <= Cardinality(OnTheWayToTake)
      BY <3>1 DEF QuietInv, NoLostWakeup
    <3> QED  BY <1>1, <3>3, <3>4, Wayfarers, WayfarersAfter
  <2> QED  BY <2>1, <2>2
<1>5. ASSUME notFull_' # {} PROVE threadNum_ <= Len(tasks_') + Cardinality(OnTheWayToPush')
  <2>1. CASE Len(tasks_) >= threadNum_
    BY <1>1, <2>1, WayfarersAfter, ThreadNum
  <2>2. CASE ~(Len(tasks_) >= threadNum_)
    <3>1. notFull_ # {}
      BY <1>1, <1>2, <1>5, <2>2 DEF notFull_
    <3>2. OnTheWayToPush \subseteq OnTheWayToPush'
      BY <1>1, <1>2, <2>2 DEF OnTheWayToPush, ToPush
    <3>3. Cardinality(OnTheWayToPush) <= Cardinality(OnTheWayToPush')
      BY <3>2, WayfarersAfter, FS_Subset
    <3>4. threadNum_ <= Len(tasks_) + Cardinality(OnTheWayToPush)
      BY <3>1 DEF QuietInv, NoLostWakeup
    <3> QED  BY <1>1, <3>3, <3>4, Wayfarers, WayfarersAfter, ThreadNum
  <2> QED  BY <2>1, <2>2
<1>6. threadNum_' = threadNum_
  BY DEF threadNum_
<1> QED  BY <1>3, <1>4, <1>5, <1>6 DEF QuietInv, NoLostWakeup


LEMMA PushQuiet == ASSUME PoolInv, QuietInv, NEW p \in Caller, push(p) PROVE QuietInv'
<1>1. PICK W \in notified(notEmpty_) : gotoAndWake(p, "runUnlock", W)
  BY DEF push
<1>2. p \in Thread /\ p \notin Worker /\ pc[p] = "push" /\ mutex = p
  BY ThreadPoolAssumption DEF PoolInv, Exclusive, push, Critical, Thread
<1>3. Worker \subseteq Thread /\ Caller \subseteq Thread
  BY DEF Thread
<1>4. pc' = [u \in Thread |-> IF u = p THEN "runUnlock" ELSE IF u \in W THEN "woken" ELSE pc[u]]
  BY <1>1 DEF gotoAndWake
<1>5. W \subseteq notEmpty_
  BY <1>1, NotifiedAreSleepers
<1>6. Len(tasks_) \in Nat /\ Len(tasks_') = Len(tasks_) + 1
  BY DEF push, PoolInv, PoolTypeOK
<1>7. MaySleep'
  <2>1. \A u \in Thread : pc'[u] # "wait"
    BY <1>2, <1>4 DEF PoolInv, Exclusive, Critical
  <2> QED  BY <1>3, <2>1 DEF MaySleep
<1>8. ASSUME notEmpty_' # {} PROVE Len(tasks_') <= Cardinality(OnTheWayToTake')
  <2>1. notEmpty_ # {}
    BY <1>2, <1>3, <1>4, <1>8 DEF notEmpty_
  <2>2. PICK u \in notEmpty_ : W = {u}
    BY <1>1, <2>1 DEF notified
  <2>3. u \notin OnTheWayToTake /\ OnTheWayToTake \cup {u} \subseteq OnTheWayToTake'
    BY <1>2, <1>3, <1>4, <2>2 DEF notEmpty_, OnTheWayToTake
  <2>4. Cardinality(OnTheWayToTake) + 1 <= Cardinality(OnTheWayToTake')
    BY <2>3, Wayfarers, WayfarersAfter, OneMore
  <2>5. Len(tasks_) <= Cardinality(OnTheWayToTake)
    BY <2>1 DEF QuietInv, NoLostWakeup
  <2> QED  BY <1>6, <2>4, <2>5, Wayfarers, WayfarersAfter
<1>9. ASSUME notFull_' # {} PROVE threadNum_ <= Len(tasks_') + Cardinality(OnTheWayToPush')
  <2>1. notFull_ # {}
    BY <1>3, <1>4, <1>9 DEF notFull_
  <2>2. OnTheWayToPush \subseteq OnTheWayToPush' \cup {p}
    BY <1>3, <1>4 DEF OnTheWayToPush
  <2>3. Cardinality(OnTheWayToPush) <= Cardinality(OnTheWayToPush') + 1
    BY <2>2, Wayfarers, WayfarersAfter, OneLess
  <2>4. threadNum_ <= Len(tasks_) + Cardinality(OnTheWayToPush)
    BY <2>1 DEF QuietInv, NoLostWakeup
  <2> QED  BY <1>6, <2>3, <2>4, Wayfarers, WayfarersAfter, ThreadNum
<1>10. threadNum_' = threadNum_
  BY DEF threadNum_
<1> QED  BY <1>7, <1>8, <1>9, <1>10 DEF QuietInv, NoLostWakeup

LEMMA PopQuiet == ASSUME PoolInv, QuietInv, NEW w \in Worker, pop(w) PROVE QuietInv'
<1>1. w \in Thread /\ w \notin Caller /\ pc[w] = "pop" /\ mutex = w
  BY ThreadPoolAssumption DEF PoolInv, Exclusive, pop, Critical, Thread
<1>2. CASE tasks_ = <<>>
  <2>1. goto(w, "takeUnlock") /\ UNCHANGED queueVars
    BY <1>2 DEF pop, queueVars
  <2> QED  BY <1>1, <1>2, <2>1, MoveQuiet
<1>3. CASE tasks_ # <<>>
  <2>1. PICK W \in notified(notFull_) : gotoAndWake(w, "takeUnlock", W)
    BY <1>3 DEF pop
  <2>2. Worker \subseteq Thread /\ Caller \subseteq Thread
    BY DEF Thread
  <2>3. pc' = [u \in Thread |-> IF u = w THEN "takeUnlock" ELSE IF u \in W THEN "woken" ELSE pc[u]]
    BY <2>1 DEF gotoAndWake
  <2>4. W \subseteq notFull_
    BY <2>1, NotifiedAreSleepers
  <2>5. Len(tasks_) \in Nat /\ Len(tasks_') \in Nat /\ Len(tasks_') = Len(tasks_) - 1
    BY <1>3 DEF pop, PoolInv, PoolTypeOK
  <2>6. MaySleep'
    <3>1. \A u \in Thread : pc'[u] # "wait"
      BY <1>1, <2>3 DEF PoolInv, Exclusive, Critical
    <3> QED  BY <2>2, <3>1 DEF MaySleep
  <2>7. ASSUME notEmpty_' # {} PROVE Len(tasks_') <= Cardinality(OnTheWayToTake')
    <3>1. notEmpty_ # {}
      BY <2>2, <2>3, <2>7 DEF notEmpty_
    <3>2. OnTheWayToTake \subseteq OnTheWayToTake' \cup {w}
      BY <2>2, <2>3 DEF OnTheWayToTake
    <3>3. Cardinality(OnTheWayToTake) <= Cardinality(OnTheWayToTake') + 1
      BY <3>2, Wayfarers, WayfarersAfter, OneLess
    <3>4. Len(tasks_) <= Cardinality(OnTheWayToTake)
      BY <3>1 DEF QuietInv, NoLostWakeup
    <3> QED  BY <2>5, <3>3, <3>4, Wayfarers, WayfarersAfter
  <2>8. ASSUME notFull_' # {} PROVE threadNum_ <= Len(tasks_') + Cardinality(OnTheWayToPush')
    <3>1. notFull_ # {}
      BY <1>1, <2>2, <2>3, <2>8 DEF notFull_
    <3>2. PICK u \in notFull_ : W = {u}
      BY <2>1, <3>1 DEF notified
    <3>3. u \notin OnTheWayToPush /\ OnTheWayToPush \cup {u} \subseteq OnTheWayToPush'
      BY <1>1, <2>2, <2>3, <3>2 DEF notFull_, OnTheWayToPush
    <3>4. Cardinality(OnTheWayToPush) + 1 <= Cardinality(OnTheWayToPush')
      BY <3>3, Wayfarers, WayfarersAfter, OneMore
    <3>5. threadNum_ <= Len(tasks_) + Cardinality(OnTheWayToPush)
      BY <3>1 DEF QuietInv, NoLostWakeup
    <3> QED  BY <2>5, <3>4, <3>5, Wayfarers, WayfarersAfter, ThreadNum
  <2>9. threadNum_' = threadNum_
    BY DEF threadNum_
  <2> QED  BY <2>6, <2>7, <2>8, <2>9 DEF QuietInv, NoLostWakeup
<1> QED  BY <1>2, <1>3

LEMMA StopRunningQuiet == ASSUME PoolInv, QuietInv, stopRunning PROVE QuietInv'
<1>1. Main \in Thread /\ Main \notin Worker /\ pc[Main] = "stopRunning" /\ mutex = Main
  BY ThreadPoolAssumption DEF PoolInv, Exclusive, stopRunning, Critical, Thread, Caller
<1>2. Worker \subseteq Thread /\ Caller \subseteq Thread
  BY DEF Thread
<1>3. pc' = [u \in Thread |-> IF u = Main THEN "stopUnlock"
                              ELSE IF u \in notEmpty_ THEN "woken" ELSE pc[u]]
  BY DEF stopRunning, gotoAndWake
<1>4. tasks_' = tasks_ /\ Len(tasks_) \in Nat
  BY DEF stopRunning, queueVars, PoolInv, PoolTypeOK
<1>5. MaySleep'
  <2>1. \A u \in Thread : pc'[u] # "wait"
    BY <1>1, <1>3 DEF PoolInv, Exclusive, Critical
  <2> QED  BY <1>2, <2>1 DEF MaySleep
<1>6. notEmpty_' = {}
  BY <1>1, <1>2, <1>3 DEF notEmpty_
<1>7. ASSUME notFull_' # {} PROVE threadNum_ <= Len(tasks_') + Cardinality(OnTheWayToPush')
  <2>1. notFull_ # {}
    BY <1>2, <1>3, <1>7 DEF notFull_
  <2>2. OnTheWayToPush \subseteq OnTheWayToPush'
    BY <1>1, <1>2, <1>3 DEF OnTheWayToPush
  <2>3. Cardinality(OnTheWayToPush) <= Cardinality(OnTheWayToPush')
    BY <2>2, WayfarersAfter, FS_Subset
  <2>4. threadNum_ <= Len(tasks_) + Cardinality(OnTheWayToPush)
    BY <2>1 DEF QuietInv, NoLostWakeup
  <2> QED  BY <1>4, <2>3, <2>4, Wayfarers, WayfarersAfter, ThreadNum
<1>8. threadNum_' = threadNum_
  BY DEF threadNum_
<1> QED  BY <1>5, <1>6, <1>7, <1>8 DEF QuietInv, NoLostWakeup

LEMMA StartQuiet == ASSUME PoolInv, QuietInv, start PROVE QuietInv'
<1>1. CASE \E w \in Worker : pc[w] = "new" /\ goto(w, "loop")
  <2>1. PICK w \in Worker : pc[w] = "new" /\ goto(w, "loop")
    BY <1>1
  <2>2. w \in Thread /\ w \notin Caller /\ pc[w] \notin ToTake /\ UNCHANGED queueVars
    BY <2>1, ThreadPoolAssumption DEF Thread, ToTake, start
  <2> QED  BY <2>1, <2>2, MoveQuiet
<1>2. CASE pc' = [t \in Thread |-> IF t \in Caller THEN "idle" ELSE pc[t]]
  <2>1. Worker \subseteq Thread /\ Caller \subseteq Thread /\ Worker \cap Caller = {}
    BY ThreadPoolAssumption DEF Thread
  <2>2. tasks_' = tasks_
    BY DEF start, queueVars
  <2>3. notEmpty_' = notEmpty_ /\ OnTheWayToTake' = OnTheWayToTake /\ notFull_' = {}
    BY <1>2, <2>1 DEF notEmpty_, OnTheWayToTake, notFull_
  <2>4. MaySleep'
    BY <1>2, <2>1, <2>2 DEF QuietInv, MaySleep
  <2> QED  BY <2>2, <2>3, <2>4 DEF QuietInv, NoLostWakeup
<1> QED  BY <1>1, <1>2 DEF start

\* What is left of a step: the label it starts from and the one it goes to.
LEMMA NextQuiet == PoolInv /\ QuietInv /\ [PoolNext]_poolVars => QuietInv'
<1> SUFFICES ASSUME PoolInv, QuietInv, [PoolNext]_poolVars PROVE QuietInv'
  OBVIOUS
<1> USE DEF ToTake, ToPush
<1>0. Len(<<>>) = 0 /\ Main \in Thread /\ Main \in Caller /\ Main \notin Worker
  BY ThreadPoolAssumption DEF Thread, Caller
<1>1. CASE start
  BY <1>1, StartQuiet
<1>2. CASE Stop
  <2>1. CASE stop
    BY <1>0, <2>1, MoveQuiet DEF stop
  <2>2. CASE lock(Main, "stop", "stopRunning")
    BY <1>0, <2>2, MoveQuiet DEF lock
  <2>3. CASE stopRunning
    BY <2>3, StopRunningQuiet
  <2>4. CASE unlock(Main, "stopUnlock", "stopUnassign")
    BY <1>0, <2>4, MoveQuiet DEF unlock
  <2>5. CASE unassignHolder(Main, "stopUnassign", "join")
    BY <1>0, <2>5, MoveQuiet DEF unassignHolder
  <2>6. CASE join
    BY <1>0, <2>6, MoveQuiet DEF join
  <2> QED  BY <1>2, <2>1, <2>2, <2>3, <2>4, <2>5, <2>6 DEF Stop
<1>3. ASSUME NEW p \in Caller, Run(p) PROVE QuietInv'
  <2>0. p \in Thread /\ p \notin Worker
    BY ThreadPoolAssumption DEF Thread
  <2>1. CASE run(p)
    BY <2>0, <2>1, MoveQuiet DEF run
  <2>2. CASE lock(p, "run", "checkFull")
    BY <2>0, <2>2, MoveQuiet DEF lock
  <2>3. CASE checkFull(p)
    <3> DEFINE l == IF isFull THEN "wait" ELSE "push"
    <3>1. goto(p, l) /\ UNCHANGED queueVars
      BY <2>3 DEF checkFull
    <3>2. l \in {"wait", "push"} /\ (l = "wait" => Len(tasks_) >= threadNum_)
      BY DEF isFull
    <3> HIDE DEF l
    <3> QED  BY <2>0, <3>1, <3>2, MoveQuiet
  <2>4. CASE wait(p)
    <3>1. Len(tasks_) >= threadNum_
      BY <2>4 DEF wait, QuietInv, MaySleep
    <3> QED  BY <2>0, <2>4, <3>1, MoveQuiet DEF wait
  <2>5. CASE spuriousWakeup(p)
    BY <2>0, <2>5, MoveQuiet DEF spuriousWakeup
  <2>6. CASE lock(p, "woken", "recheckFull")
    BY <2>0, <2>6, MoveQuiet DEF lock
  <2>7. CASE push(p)
    BY <2>7, PushQuiet
  <2>8. CASE unlock(p, "runUnlock", "runUnassign")
    BY <2>0, <2>8, MoveQuiet DEF unlock
  <2>9. CASE unassignHolder(p, "runUnassign", "idle")
    BY <2>0, <2>9, MoveQuiet DEF unassignHolder
  <2> QED  BY <1>3, <2>1, <2>2, <2>3, <2>4, <2>5, <2>6, <2>7, <2>8, <2>9 DEF Run
<1>4. ASSUME NEW w \in Worker, runInThread(w) PROVE QuietInv'
  <2>0. w \in Thread /\ w \notin Caller
    BY ThreadPoolAssumption DEF Thread
  <2>1. CASE whileRunning(w)
    <3> DEFINE l == IF running_ THEN "take" ELSE "done"
    <3>1. goto(w, l) /\ UNCHANGED queueVars /\ pc[w] = "loop"
      BY <2>1 DEF whileRunning
    <3>2. l \in {"take", "done"}
      OBVIOUS
    <3> HIDE DEF l
    <3> QED  BY <2>0, <3>1, <3>2, MoveQuiet
  <2>2. CASE lock(w, "take", "checkEmpty")
    BY <2>0, <2>2, MoveQuiet DEF lock
  <2>3. CASE checkEmpty(w)
    <3> DEFINE l == IF tasks_ = <<>> /\ running_ THEN "wait" ELSE "pop"
    <3>1. goto(w, l) /\ UNCHANGED queueVars
      BY <2>3 DEF checkEmpty
    <3>2. l \in {"wait", "pop"} /\ (l = "wait" => tasks_ = <<>>)
      OBVIOUS
    <3> HIDE DEF l
    <3> QED  BY <2>0, <3>1, <3>2, MoveQuiet
  <2>4. CASE wait(w)
    <3>1. tasks_ = <<>>
      BY <2>4 DEF wait, QuietInv, MaySleep
    <3> QED  BY <2>0, <2>4, <3>1, MoveQuiet DEF wait
  <2>5. CASE spuriousWakeup(w)
    BY <2>0, <2>5, MoveQuiet DEF spuriousWakeup
  <2>6. CASE lock(w, "woken", "checkEmpty")
    BY <2>0, <2>6, MoveQuiet DEF lock
  <2>7. CASE pop(w)
    BY <2>7, PopQuiet
  <2>8. CASE unlock(w, "takeUnlock", "takeUnassign")
    BY <2>0, <2>8, MoveQuiet DEF unlock
  <2>9. CASE unassignHolder(w, "takeUnassign", "task")
    BY <2>0, <2>9, MoveQuiet DEF unassignHolder
  <2>10. CASE callTask(w)
    BY <2>0, <2>10, MoveQuiet DEF callTask
  <2> QED  BY <1>4, <2>1, <2>2, <2>3, <2>4, <2>5, <2>6, <2>7, <2>8, <2>9, <2>10 DEF runInThread
<1>5. CASE UNCHANGED poolVars
  BY <1>5 DEF poolVars, QuietInv, MaySleep, NoLostWakeup, notEmpty_, notFull_,
              OnTheWayToTake, OnTheWayToPush, threadNum_
<1> QED  BY <1>1, <1>2, <1>3, <1>4, <1>5 DEF PoolNext

LEMMA InitQuiet == PoolInit => QuietInv
<1> SUFFICES ASSUME PoolInit PROVE QuietInv
  OBVIOUS
<1>1. \A t \in Thread : pc[t] \in {"start", "new"}
  BY DEF PoolInit
<1>2. Worker \subseteq Thread /\ Caller \subseteq Thread
  BY DEF Thread
<1>3. notEmpty_ = {} /\ notFull_ = {}
  BY <1>1, <1>2 DEF notEmpty_, notFull_
<1>4. MaySleep
  BY <1>1, <1>2 DEF MaySleep
<1> QED  BY <1>3, <1>4 DEF QuietInv, NoLostWakeup

\* For any number of threads, no wake-up is lost: while a worker sleeps in take(), awake workers
\* are on their way to every queued task, and while a caller sleeps in run(), awake callers are on
\* their way to every free place.
THEOREM PoolNoLostWakeup == Pool => []NoLostWakeup
<1>1. PoolInit => PoolInv /\ QuietInv
  BY InitPoolInv, InitQuiet
<1>2. PoolInv /\ QuietInv /\ [PoolNext]_poolVars => (PoolInv /\ QuietInv)'
  BY NextPoolInv, NextQuiet
<1>3. PoolInv /\ QuietInv => NoLostWakeup
  BY DEF QuietInv
<1> QED  BY <1>1, <1>2, <1>3, PTL DEF Pool
=============================================================================
