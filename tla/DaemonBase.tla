----------------------------- MODULE DaemonBase -----------------------------
(***************************************************************************)
(* core/DaemonBase.cpp: the parent process that keeps a number of worker   *)
(* processes running, its signal handler, and the part of a worker's life  *)
(* in which it is not yet or no longer in its loop.  Signals are pending   *)
(* until they are handled, and two of the same kind pending are one.       *)
(*                                                                         *)
(* A step is a piece of code between two points at which the handler can   *)
(* make a difference.  The handler itself runs as one step.                *)
(***************************************************************************)
EXTENDS Integers, FiniteSets

CONSTANTS
    Pid,          \* process identifiers; one is free again when its process is reaped
    ChildNums,    \* values of [core] childnum the configuration may have
    MaxDeaths,    \* bound on the workers that die of themselves
    MaxSignals,   \* bound on the SIGUSR1 and on the stops of workers
    NoPid

ASSUME DaemonBaseAssumption ==
    /\ ChildNums \subseteq Nat /\ ChildNums # {}
    /\ MaxDeaths \in Nat /\ MaxSignals \in Nat /\ NoPid \notin Pid

VARIABLES
    parent,       \* where the parent is
    parentLoop,   \* __parent_loop
    reload,       \* __reload
    childMaxNum,  \* childMaxNum_
    childrens,    \* __childrens
    pid,          \* the result of fork() not yet stored
    pending,      \* signals pending at the parent
    pidFile,      \* the pid file exists
    child,        \* state of each process
    term,         \* workers that have a SIGTERM pending
    paused,       \* workers stopped by a signal and not yet reported by waitpid
    forgotten,    \* workers erased from __childrens because they were stopped
    missed,       \* workers that got their SIGTERM before they were in their loop
    early,        \* identifiers stored after their process was reaped
    deaths, signals

daemonVars == <<parent, parentLoop, reload, childMaxNum, childrens, pid, pending, pidFile,
                child, term, paused, forgotten, missed, early, deaths, signals>>
parentVars == <<parentLoop, reload, childMaxNum, childrens, pid, pidFile, early>>
workerVars == <<child, term, paused, forgotten, missed>>
bounds == <<deaths, signals>>

\* "forked" and "child" are a worker before lines 227 and 228: it still counts as the parent
\* in its own eyes, and its __child_loop is still to be set.
Worker == {"forked", "child", "loop", "leaving"}
Starting == {"check", "daemonlize", "write", "init", "setup"}
Running == {"reload", "test", "store", "loop", "stop"}
Gone == {"exited", "crashed"}

Live == {p \in Pid : child[p] \in Worker}
Zombie == {p \in Pid : child[p] = "zombie"}
\* A process without a parent that waits for it is reaped by init.
Dead == IF parent \in Gone THEN "none" ELSE "zombie"

\* A daemon that was killed has left its pid file behind.
DaemonInit ==
    /\ parent = "check" /\ parentLoop = TRUE /\ reload = FALSE
    /\ childMaxNum = 1
    /\ childrens = {} /\ pid = NoPid
    /\ pending = {} /\ pidFile \in BOOLEAN
    /\ child = [p \in Pid |-> "none"]
    /\ term = {} /\ paused = {} /\ forgotten = {} /\ missed = {} /\ early = {}
    /\ deaths = 0 /\ signals = 0

-----------------------------------------------------------------------------
(* start and parentStart.                                                   *)

\* checkOldDaemon: a pid file is enough for start() to give up.
checkOldDaemon ==
    /\ parent = "check"
    /\ parent' = IF pidFile THEN "exited" ELSE "daemonlize"
    /\ UNCHANGED <<parentVars, pending, workerVars, bounds>>

\* daemonlize: the second fork's child is the daemon.  Its forks do not fail here, nor does
\* sigaction in setupInterestedSignal.
daemonlize ==
    /\ parent = "daemonlize" /\ parent' = "write"
    /\ UNCHANGED <<parentVars, pending, workerVars, bounds>>

writePidFile ==
    /\ parent = "write" /\ parent' = "init"
    /\ pidFile' = TRUE
    /\ UNCHANGED <<parentLoop, reload, childMaxNum, childrens, pid, early,
                   pending, workerVars, bounds>>

\* initilize: the number of workers is read from the configuration.
initilize ==
    /\ parent = "init" /\ parent' = "setup"
    /\ childMaxNum' \in ChildNums
    /\ UNCHANGED <<parentLoop, reload, childrens, pid, pidFile, early,
                   pending, workerVars, bounds>>

setupInterestedSignal ==
    /\ parent = "setup" /\ parent' = "reload"
    /\ UNCHANGED <<parentVars, pending, workerVars, bounds>>

\* The head of the outer loop, with refresh.
refresh ==
    /\ parent = "reload" /\ parent' = "test"
    /\ reload' = FALSE
    /\ IF reload THEN childMaxNum' \in ChildNums ELSE UNCHANGED childMaxNum
    /\ UNCHANGED <<parentLoop, childrens, pid, pidFile, early, pending, workerVars, bounds>>

\* Faulty variants: one worker too many; workers are made when none is left.
missingOff == Cardinality(childrens) <= childMaxNum
missingAll == childrens = {}
missing == Cardinality(childrens) < childMaxNum

\* fork() in the inner loop; it fails when no process can be made.
forkChild ==
    /\ parent = "test" /\ missing
    /\ \/ \E p \in Pid :
            /\ child[p] = "none"
            /\ child' = [child EXCEPT ![p] = "forked"]
            /\ pid' = p
            /\ parent' = "store"
            /\ UNCHANGED <<term, paused, forgotten, missed>>
       \/ /\ parent' = "stop"
          /\ UNCHANGED <<pid, workerVars>>
    /\ UNCHANGED <<parentLoop, reload, childMaxNum, childrens, pidFile, early, pending, bounds>>

\* Faulty variant: the identifier is not stored.
storeNothing ==
    /\ parent = "store" /\ parent' = "test"
    /\ pid' = NoPid
    /\ UNCHANGED <<parentLoop, reload, childMaxNum, childrens, pidFile, early,
                   pending, workerVars, bounds>>
\* __storeChildPid.  The worker may be dead by now, and its SIGCHLD handled.
storeChildPid ==
    /\ parent = "store" /\ parent' = "test"
    /\ childrens' = childrens \cup {pid}
    /\ early' = IF child[pid] = "none" THEN early \cup {pid} ELSE early
    /\ pid' = NoPid
    /\ UNCHANGED <<parentLoop, reload, childMaxNum, pidFile, pending, workerVars, bounds>>

\* The inner loop is over; __parent_loop decides.
testLoop ==
    /\ parent = "test" /\ ~missing
    /\ parent' = IF parentLoop THEN "reload" ELSE "stop"
    /\ UNCHANGED <<parentVars, pending, workerVars, bounds>>

\* stop(): killAllChildren, and waitpid for those that have ended already.  After the loop
\* the destructor unlinks the pid file; exit() after a failed fork runs no destructor.  A
\* worker is missing in the second case only: after the loop __parent_loop is false, and no
\* handler erases a child any more.
stopParent ==
    /\ parent = "stop" /\ parent' = "exited"
    /\ term' = term \cup (childrens \cap Live)
    /\ child' = [p \in Pid |-> IF child[p] = "zombie" THEN "none" ELSE child[p]]
    /\ pidFile' = (pidFile /\ missing)
    /\ UNCHANGED <<parentLoop, reload, childMaxNum, childrens, pid, early,
                   pending, paused, forgotten, missed, bounds>>

-----------------------------------------------------------------------------
(* __signalHandle in the parent, between any two of its steps.              *)

\* A signal that has a handler is handled; before setupInterestedSignal SIGTERM ends the
\* process and the others are ignored or end it as well.
handlerSet == parent \in Running

onTERM ==
    /\ handlerSet /\ "TERM" \in pending
    /\ pending' = pending \ {"TERM"}
    /\ parentLoop' = FALSE
    /\ UNCHANGED <<parent, reload, childMaxNum, childrens, pid, pidFile, early,
                   workerVars, bounds>>

onUSR1 ==
    /\ handlerSet /\ "USR1" \in pending
    /\ pending' = pending \ {"USR1"}
    /\ reload' = TRUE
    /\ UNCHANGED <<parent, parentLoop, childMaxNum, childrens, pid, pidFile, early,
                   workerVars, bounds>>

\* One waitpid for one SIGCHLD: a worker that has ended, or one that was stopped
\* (WUNTRACED), is erased from __childrens, where it may not be yet.
onCHLD ==
    /\ handlerSet /\ "CHLD" \in pending
    /\ pending' = pending \ {"CHLD"}
    /\ IF parentLoop /\ Zombie \cup paused # {}
       THEN \E p \in Zombie \cup paused :
              /\ childrens' = childrens \ {p}
              /\ early' = early \ {p}
              /\ paused' = paused \ {p}
              /\ IF p \in Zombie
                 THEN /\ child' = [child EXCEPT ![p] = "none"]
                      /\ forgotten' = forgotten \ {p}
                 ELSE /\ forgotten' = forgotten \cup {p}
                      /\ UNCHANGED child
       ELSE UNCHANGED <<childrens, early, child, paused, forgotten>>
    /\ UNCHANGED <<parent, parentLoop, reload, childMaxNum, pid, pidFile, term, missed, bounds>>

\* A fault of the parent: it kills its children and dies of the signal it sends itself.
onSEGV ==
    /\ handlerSet
    /\ parent' = "crashed"
    /\ term' = term \cup (childrens \cap Live)
    /\ child' = [p \in Pid |-> IF child[p] = "zombie" THEN "none" ELSE child[p]]
    /\ UNCHANGED <<parentVars, pending, paused, forgotten, missed, bounds>>

\* Before the handlers are set SIGTERM has its default action.
defaultTERM ==
    /\ parent \in Starting /\ "TERM" \in pending
    /\ parent' = "crashed"
    /\ UNCHANGED <<parentVars, pending, workerVars, bounds>>

\* Someone sends the daemon a signal.
sendTERM ==
    /\ parent \notin Gone
    /\ pending' = pending \cup {"TERM"}
    /\ UNCHANGED <<parent, parentVars, workerVars, bounds>>

sendUSR1 ==
    /\ handlerSet /\ signals < MaxSignals
    /\ signals' = signals + 1
    /\ pending' = pending \cup {"USR1"}
    /\ UNCHANGED <<parent, parentVars, workerVars, deaths>>

-----------------------------------------------------------------------------
(* The workers.                                                             *)

childGoes(p, from, to) ==
    /\ child[p] = from /\ p \notin paused
    /\ child' = [child EXCEPT ![p] = to]
    /\ UNCHANGED <<parent, parentVars, pending, term, paused, forgotten, missed, bounds>>

\* Lines 227 and 228, and the loop of processStart.
becomesChild(p) == childGoes(p, "forked", "child")
childStart(p) == childGoes(p, "child", "loop")

\* Faulty variant: a worker that has been told once is not stopped by it.
childTermIgnored(p) ==
    /\ p \in term /\ child[p] \in Worker /\ p \notin paused
    /\ term' = term \ {p}
    /\ UNCHANGED <<parent, parentVars, pending, child, paused, forgotten, missed, bounds>>
\* SIGTERM at a worker: in the loop it ends it; before, __child_loop is set again.
childTerm(p) ==
    /\ p \in term /\ child[p] \in Worker /\ p \notin paused
    /\ term' = term \ {p}
    /\ child' = [child EXCEPT ![p] = IF @ = "loop" THEN "leaving" ELSE @]
    /\ missed' = IF child[p] \in {"forked", "child"} THEN missed \cup {p} ELSE missed
    /\ UNCHANGED <<parent, parentVars, pending, paused, forgotten, bounds>>

\* The end of a worker: of itself after its loop, or of a fault or a kill.
ends(p) ==
    /\ child' = [child EXCEPT ![p] = Dead]
    /\ term' = term \ {p} /\ paused' = paused \ {p} /\ missed' = missed \ {p}
    /\ forgotten' = IF Dead = "none" THEN forgotten \ {p} ELSE forgotten
    /\ pending' = IF handlerSet THEN pending \cup {"CHLD"} ELSE pending
    /\ UNCHANGED <<parent, parentVars>>

childReturns(p) == child[p] = "leaving" /\ p \notin paused /\ ends(p) /\ UNCHANGED bounds

childDies(p) ==
    /\ child[p] \in Worker /\ deaths < MaxDeaths
    /\ deaths' = deaths + 1 /\ UNCHANGED signals
    /\ ends(p)

\* A worker is stopped and continued by signals; its parent gets a SIGCHLD for both.
childPauses(p) ==
    /\ child[p] = "loop" /\ p \notin paused /\ handlerSet /\ signals < MaxSignals
    /\ signals' = signals + 1 /\ UNCHANGED deaths
    /\ paused' = paused \cup {p}
    /\ pending' = pending \cup {"CHLD"}
    /\ UNCHANGED <<parent, parentVars, child, term, forgotten, missed>>

childContinues(p) ==
    /\ p \in paused
    /\ paused' = paused \ {p}
    /\ pending' = IF handlerSet THEN pending \cup {"CHLD"} ELSE pending
    /\ UNCHANGED <<parent, parentVars, child, term, forgotten, missed, bounds>>

-----------------------------------------------------------------------------
ParentStep == checkOldDaemon \/ daemonlize \/ writePidFile \/ initilize
              \/ setupInterestedSignal \/ refresh \/ forkChild \/ storeChildPid
              \/ testLoop \/ stopParent
Handler == onTERM \/ onUSR1 \/ onCHLD \/ defaultTERM
ChildStep(p) == becomesChild(p) \/ childStart(p) \/ childTerm(p) \/ childReturns(p)
                \/ childContinues(p)

DaemonNext ==
    \/ ParentStep \/ Handler \/ onSEGV \/ sendTERM \/ sendUSR1
    \/ \E p \in Pid : ChildStep(p) \/ childDies(p) \/ childPauses(p)

\* The kernel runs every process and delivers a pending signal, and a stopped worker is
\* continued.
Daemon ==
    /\ DaemonInit /\ [][DaemonNext]_daemonVars
    /\ WF_daemonVars(ParentStep) /\ WF_daemonVars(Handler)
    /\ \A p \in Pid : WF_daemonVars(ChildStep(p))

-----------------------------------------------------------------------------
(* Properties.                                                              *)

\* The parent's book of its workers, which restarts and stop() rely on, is right whatever
\* the handler does between two of its steps: every live worker is in __childrens, is the
\* one being stored, or was stopped; and what is in it is a live worker, one that waits to
\* be reaped, or one that ended and was reaped before its identifier was stored.
BookRight ==
    parent \in Running =>
        /\ Live \subseteq childrens \cup {pid} \cup forgotten
        /\ childrens \subseteq Live \cup Zombie \cup early

\* Apart from those stopped by a signal there are never more workers than some
\* configuration has asked for.
WorkersBounded ==
    \E n \in ChildNums \cup {1} : Cardinality(Live \ forgotten) <= n

\* A daemon told to stop does stop, even if it is told while it forks or while it is being
\* told to reload; and when it has stopped, or died of SIGSEGV, no worker it knows of goes on
\* for ever, except one that got its SIGTERM before line 228 set __child_loop.
StopReachesAll ==
    /\ "TERM" \in pending ~> parent \in Gone
    /\ \A p \in Pid : (parent \in Gone /\ p \in childrens) ~> (p \notin Live \/ p \in missed)

\* A worker that ended and was reaped is replaced, until the daemon stops.
WorkersReplaced ==
    (parent \in Running /\ Cardinality(childrens) < childMaxNum)
       ~> (Cardinality(childrens) >= childMaxNum \/ parent \in Gone)
=============================================================================
