----------------------------- MODULE ThreadPool -----------------------------
(***************************************************************************)
(* thread/ThreadPool.h on top of thread/ThreadMutex.h and Condition.h: a   *)
(* bounded queue of tasks, the workers that take from it, the threads that *)
(* call run() and the main thread that calls start(), run() and stop().    *)
(* Every access to the queue is a step of its own between the lock and the *)
(* unlock, so that the lock is what makes them atomic.                     *)
(***************************************************************************)
EXTENDS Naturals, Sequences, FiniteSets

CONSTANTS
    Worker,      \* the threads start() creates; threadNum_ is their number
    Producer,    \* further threads that call run()
    Main,        \* the thread that calls start() and stop()
    MaxTasks,    \* how many tasks one thread submits (a bound on the inputs)
    NoThread     \* holder_ = 0; also the owner of an unlocked mutex

Caller == Producer \cup {Main}
Thread == Worker \cup Caller
threadNum_ == Cardinality(Worker)

ASSUME ThreadPoolAssumption ==
    /\ IsFiniteSet(Worker) /\ Worker # {} /\ IsFiniteSet(Producer)
    /\ Worker \cap Caller = {} /\ Main \notin Producer
    /\ NoThread \notin Thread
    /\ MaxTasks \in Nat

VARIABLES
    pc,         \* where each thread is
    mutex,      \* the owner of mutex_'s pthread_mutex_t
    holder_,    \* ThreadMutex::holder_
    tasks_,     \* the deque of tasks
    running_,   \* running_
    sent,       \* run() calls each caller has begun
    task,       \* the task each worker has in hand, <<>> for nullptr
    accepted,   \* history: tasks in the order run() pushed them
    taken       \* history: tasks in the order take() returned them

queueVars == <<tasks_, accepted, taken>>
lockVars == <<mutex, holder_>>
poolVars == <<pc, mutex, holder_, tasks_, running_, sent, task, accepted, taken>>

Task == Caller \X (1 .. MaxTasks)
isFull == Len(tasks_) >= threadNum_
goto(t, l) == pc' = [pc EXCEPT ![t] = l]

\* The threads blocked in notEmpty_.wait() and in notFull_.wait().
notEmpty_ == {w \in Worker : pc[w] = "asleep"}
notFull_ == {p \in Caller : pc[p] = "asleep"}

PoolInit ==
    /\ pc = [t \in Thread |-> IF t = Main THEN "start" ELSE "new"]
    /\ mutex = NoThread /\ holder_ = NoThread
    /\ tasks_ = <<>> /\ accepted = <<>> /\ taken = <<>>
    /\ running_ = FALSE
    /\ sent = [p \in Caller |-> 0]
    /\ task = [w \in Worker |-> <<>>]

-----------------------------------------------------------------------------
(* ThreadMutex and Condition.                                               *)

\* ThreadMutex::lock, from run(), take() or stop(): pc says what follows.
lock(t, from, to) ==
    /\ pc[t] = from /\ mutex = NoThread
    /\ mutex' = t /\ holder_' = t
    /\ goto(t, to)
    /\ UNCHANGED <<running_, sent, task>> /\ UNCHANGED queueVars

\* ThreadMutex::unlock is pthread_mutex_unlock and, afterwards, unassignHolder.
unlock(t, from, to) ==
    /\ pc[t] = from
    /\ mutex' = NoThread
    /\ goto(t, to)
    /\ UNCHANGED <<holder_, running_, sent, task>> /\ UNCHANGED queueVars
unassignHolder(t, from, to) ==
    /\ pc[t] = from
    /\ holder_' = NoThread
    /\ goto(t, to)
    /\ UNCHANGED <<mutex, running_, sent, task>> /\ UNCHANGED queueVars

\* Condition::wait: UnassignGuard, then pthread_cond_wait releases and sleeps.
wait(t) ==
    /\ pc[t] = "wait"
    /\ mutex' = NoThread /\ holder_' = NoThread
    /\ goto(t, "asleep")
    /\ UNCHANGED <<running_, sent, task>> /\ UNCHANGED queueVars

\* pthread_cond_wait may return without a notify.
spuriousWakeup(t) ==
    /\ pc[t] = "asleep"
    /\ goto(t, "woken")
    /\ UNCHANGED <<running_, sent, task>> /\ UNCHANGED queueVars /\ UNCHANGED lockVars

\* Thread t goes to l and wakes the set W of sleepers.
gotoAndWake(t, l, W) ==
    pc' = [u \in Thread |-> IF u = t THEN l ELSE IF u \in W THEN "woken" ELSE pc[u]]
\* Condition::notify on the waiters C: one of them, if there is one.
notified(C) == IF C = {} THEN {{}} ELSE {{u} : u \in C}

-----------------------------------------------------------------------------
(* ThreadPool::run                                                          *)

run(p) ==
    /\ pc[p] = "idle" /\ sent[p] < MaxTasks
    /\ sent' = [sent EXCEPT ![p] = @ + 1]
    /\ goto(p, "run")
    /\ UNCHANGED <<running_, task>> /\ UNCHANGED lockVars /\ UNCHANGED queueVars

\* Faulty variant: `if` for `while`, the predicate is not tested again after a
\* wait.
checkFullOnce(p) ==
    /\ pc[p] \in {"checkFull", "recheckFull"}
    /\ goto(p, IF isFull /\ pc[p] = "checkFull" THEN "wait" ELSE "push")
    /\ UNCHANGED <<running_, sent, task>> /\ UNCHANGED lockVars /\ UNCHANGED queueVars
\* while(isFull()) notFull_.wait().  The two labels differ only in whether the
\* thread has waited already.
checkFull(p) ==
    /\ pc[p] \in {"checkFull", "recheckFull"}
    /\ goto(p, IF isFull THEN "wait" ELSE "push")
    /\ UNCHANGED <<running_, sent, task>> /\ UNCHANGED lockVars /\ UNCHANGED queueVars

\* Faulty variant: nobody is notified.
pushSilently(p) ==
    /\ pc[p] = "push"
    /\ tasks_' = Append(tasks_, <<p, sent[p]>>)
    /\ accepted' = Append(accepted, <<p, sent[p]>>)
    /\ goto(p, "runUnlock")
    /\ UNCHANGED <<taken, running_, sent, task>> /\ UNCHANGED lockVars
\* tasks_.push_back(task); notEmpty_.notify().
push(p) ==
    /\ pc[p] = "push"
    /\ tasks_' = Append(tasks_, <<p, sent[p]>>)
    /\ accepted' = Append(accepted, <<p, sent[p]>>)
    /\ \E W \in notified(notEmpty_) : gotoAndWake(p, "runUnlock", W)
    /\ UNCHANGED <<taken, running_, sent, task>> /\ UNCHANGED lockVars

Run(p) ==
    \/ run(p)
    \/ lock(p, "run", "checkFull")
    \/ checkFull(p)
    \/ wait(p)
    \/ spuriousWakeup(p)
    \/ lock(p, "woken", "recheckFull")
    \/ push(p)
    \/ unlock(p, "runUnlock", "runUnassign")
    \/ unassignHolder(p, "runUnassign", "idle")

-----------------------------------------------------------------------------
(* ThreadPool::runInThread and take                                         *)

\* while(running_), read without the lock.
whileRunning(w) ==
    /\ pc[w] = "loop"
    /\ goto(w, IF running_ THEN "take" ELSE "done")
    /\ UNCHANGED <<running_, sent, task>> /\ UNCHANGED lockVars /\ UNCHANGED queueVars

\* while(tasks_.empty() && running_) notEmpty_.wait().
checkEmpty(w) ==
    /\ pc[w] = "checkEmpty"
    /\ goto(w, IF tasks_ = <<>> /\ running_ THEN "wait" ELSE "pop")
    /\ UNCHANGED <<running_, sent, task>> /\ UNCHANGED lockVars /\ UNCHANGED queueVars

\* Faulty variants: the newest task is handed out; nobody is notified; a caller is notified only
\* when the queue was full.
popBack(w) ==
    /\ pc[w] = "pop"
    /\ IF tasks_ = <<>>
       THEN goto(w, "takeUnlock") /\ UNCHANGED <<task, tasks_, taken>>
       ELSE /\ task' = [task EXCEPT ![w] = tasks_[Len(tasks_)]]
            /\ tasks_' = SubSeq(tasks_, 1, Len(tasks_) - 1)
            /\ taken' = Append(taken, tasks_[Len(tasks_)])
            /\ \E W \in notified(notFull_) : gotoAndWake(w, "takeUnlock", W)
    /\ UNCHANGED <<accepted, running_, sent>> /\ UNCHANGED lockVars
popSilently(w) ==
    /\ pc[w] = "pop"
    /\ goto(w, "takeUnlock")
    /\ IF tasks_ = <<>>
       THEN UNCHANGED <<task, tasks_, taken>>
       ELSE /\ task' = [task EXCEPT ![w] = Head(tasks_)]
            /\ tasks_' = Tail(tasks_)
            /\ taken' = Append(taken, Head(tasks_))
    /\ UNCHANGED <<accepted, running_, sent>> /\ UNCHANGED lockVars
popNotifiesIfFull(w) ==
    /\ pc[w] = "pop"
    /\ IF tasks_ = <<>>
       THEN goto(w, "takeUnlock") /\ UNCHANGED <<task, tasks_, taken>>
       ELSE /\ task' = [task EXCEPT ![w] = Head(tasks_)]
            /\ tasks_' = Tail(tasks_)
            /\ taken' = Append(taken, Head(tasks_))
            /\ \E W \in notified(IF isFull THEN notFull_ ELSE {}) : gotoAndWake(w, "takeUnlock", W)
    /\ UNCHANGED <<accepted, running_, sent>> /\ UNCHANGED lockVars
\* Take the front, if any, and notFull_.notify().
pop(w) ==
    /\ pc[w] = "pop"
    /\ IF tasks_ = <<>>
       THEN goto(w, "takeUnlock") /\ UNCHANGED <<task, tasks_, taken>>
       ELSE /\ task' = [task EXCEPT ![w] = Head(tasks_)]
            /\ tasks_' = Tail(tasks_)
            /\ taken' = Append(taken, Head(tasks_))
            /\ \E W \in notified(notFull_) : gotoAndWake(w, "takeUnlock", W)
    /\ UNCHANGED <<accepted, running_, sent>> /\ UNCHANGED lockVars

\* if(task) task(): the task ends and the loop goes round.
callTask(w) ==
    /\ pc[w] = "task"
    /\ task' = [task EXCEPT ![w] = <<>>]
    /\ goto(w, "loop")
    /\ UNCHANGED <<running_, sent>> /\ UNCHANGED lockVars /\ UNCHANGED queueVars

runInThread(w) ==
    \/ whileRunning(w)
    \/ lock(w, "take", "checkEmpty")
    \/ checkEmpty(w)
    \/ wait(w)
    \/ spuriousWakeup(w)
    \/ lock(w, "woken", "checkEmpty")
    \/ pop(w)
    \/ unlock(w, "takeUnlock", "takeUnassign")
    \/ unassignHolder(w, "takeUnassign", "task")
    \/ callTask(w)

-----------------------------------------------------------------------------
(* ThreadPool::start and stop, called by Main                               *)

\* start() sets running_ and creates the workers one by one; the other callers
\* get the pool when it returns.
start ==
    /\ pc[Main] = "start"
    /\ running_' = TRUE
    /\ \/ \E w \in Worker : pc[w] = "new" /\ goto(w, "loop")
       \/ /\ \A w \in Worker : pc[w] # "new"
          /\ pc' = [t \in Thread |-> IF t \in Caller THEN "idle" ELSE pc[t]]
    /\ UNCHANGED <<sent, task>> /\ UNCHANGED lockVars /\ UNCHANGED queueVars

stop ==
    /\ pc[Main] = "idle"
    /\ goto(Main, "stop")
    /\ UNCHANGED <<running_, sent, task>> /\ UNCHANGED lockVars /\ UNCHANGED queueVars

\* Faulty variant: one waiter is notified, not all.
stopRunningNotifyOne ==
    /\ pc[Main] = "stopRunning"
    /\ running_' = FALSE
    /\ \E W \in notified(notEmpty_) : gotoAndWake(Main, "stopUnlock", W)
    /\ UNCHANGED <<sent, task>> /\ UNCHANGED lockVars /\ UNCHANGED queueVars
\* running_ = false; notEmpty_.notifyAll().
stopRunning ==
    /\ pc[Main] = "stopRunning"
    /\ running_' = FALSE
    /\ gotoAndWake(Main, "stopUnlock", notEmpty_)
    /\ UNCHANGED <<sent, task>> /\ UNCHANGED lockVars /\ UNCHANGED queueVars

\* Thread::join of every worker.
join ==
    /\ pc[Main] = "join" /\ \A w \in Worker : pc[w] = "done"
    /\ goto(Main, "done")
    /\ UNCHANGED <<running_, sent, task>> /\ UNCHANGED lockVars /\ UNCHANGED queueVars

Stop ==
    \/ stop
    \/ lock(Main, "stop", "stopRunning")
    \/ stopRunning
    \/ unlock(Main, "stopUnlock", "stopUnassign")
    \/ unassignHolder(Main, "stopUnassign", "join")
    \/ join

PoolNext ==
    \/ start
    \/ Stop
    \/ \E p \in Caller : Run(p)
    \/ \E w \in Worker : runInThread(w)

Pool == PoolInit /\ [][PoolNext]_poolVars

\* A thread that can go on does; a thread that competes for the mutex again and
\* again gets it.  A spurious wake-up and a call of run() or stop() need not come.
Goes(t) == ~(pc[t] \in {"asleep", "idle"}) /\ (IF t \in Worker THEN runInThread(t) ELSE Run(t))
FairPool ==
    /\ Pool
    /\ \A t \in Thread : SF_poolVars(Goes(t))
    /\ SF_poolVars(Stop /\ pc[Main] # "idle")

-----------------------------------------------------------------------------
(* Properties.                                                              *)

Labels == {"new", "start", "idle", "run", "checkFull", "recheckFull", "wait",
           "asleep", "woken", "push", "runUnlock", "runUnassign", "loop", "take",
           "checkEmpty", "pop", "takeUnlock", "takeUnassign", "task", "stop",
           "stopRunning", "stopUnlock", "stopUnassign", "join", "done"}

PoolTypeOK ==
    /\ pc \in [Thread -> Labels]
    /\ mutex \in Thread \cup {NoThread}
    /\ holder_ \in Thread \cup {NoThread}
    /\ tasks_ \in Seq(Task) /\ accepted \in Seq(Task) /\ taken \in Seq(Task)
    /\ running_ \in BOOLEAN
    /\ sent \in [Caller -> 0 .. MaxTasks]
    /\ task \in [Worker -> Task \cup {<<>>}]

\* The queue never holds more than threadNum_ tasks, although isFull() is tested in
\* one step and the task pushed in another, with sleeps and spurious wake-ups
\* between: while(isFull()) in run().
QueueBounded == Len(tasks_) <= threadNum_

\* No task is lost, duplicated or overtaken: what take() has handed out followed by
\* what is queued is what run() was given, in its order.
TasksInOrder == accepted = taken \o tasks_

\* No wake-up is lost between the notifies of push and pop and the sleepers' tests: a worker
\* sleeps in take() only while the workers that are awake on their way to the queue are as many
\* as the tasks in it, and a caller in run() only while the awake callers are as many as its
\* free places.
OnTheWayToTake == {w \in Worker : pc[w] \in {"woken", "checkEmpty", "pop"}}
OnTheWayToPush == {p \in Caller : pc[p] \in {"woken", "checkFull", "recheckFull", "push"}}
NoLostWakeup ==
    /\ notEmpty_ # {} => Len(tasks_) <= Cardinality(OnTheWayToTake)
    /\ notFull_ # {} => threadNum_ <= Len(tasks_) + Cardinality(OnTheWayToPush)

\* While the pool runs, every call of run() returns, however full the queue was.
RunReturns ==
    \A p \in Caller : (pc[p] \in {"run", "asleep", "woken"}) ~> (pc[p] = "idle" \/ ~running_)

\* While the pool runs, workers take what is queued until nothing is (callers are bounded by
\* MaxTasks): no wake-up is lost.
TaskTaken == (tasks_ # <<>>) ~> (tasks_ = <<>> \/ ~running_)

\* stop() returns: every worker leaves its loop, the sleeping ones included.
StopReturns == (pc[Main] = "stop") ~> (pc[Main] = "done")
=============================================================================
