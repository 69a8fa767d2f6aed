-------------------------- MODULE DaemonBaseProofs --------------------------
(***************************************************************************)
(* Proofs about DaemonBase, for any number of processes, configurations,   *)
(* deaths and signals.  The inductive invariant adds to the book of the    *)
(* workers when a forked identifier is in hand, and that nothing is forked *)
(* before the daemon runs.                                                 *)
(***************************************************************************)
EXTENDS DaemonBase, FiniteSetTheorems, TLAPS

DaemonType ==
    /\ parent \in Starting \cup Running \cup Gone
    /\ childMaxNum \in ChildNums \cup {1}
    /\ childrens \in SUBSET Pid /\ IsFiniteSet(childrens)
    /\ pid \in Pid \cup {NoPid}
    /\ child \in [Pid -> Worker \cup {"none", "zombie"}]

\* Nothing is forked before the handlers are set.
NoneYet == parent \in Starting =>
    childrens = {} /\ pid = NoPid /\ \A p \in Pid : child[p] = "none"

\* fork()'s result is in hand between forkChild and storeChildPid.
InHand == parent \in Running => (pid # NoPid <=> parent = "store")

\* Who lives and was not stopped is in the book or in hand, also when the parent is gone,
\* and who is in the book lives, waits to be reaped or was reaped too early.
Booked == \A p \in Pid : child[p] \in Worker /\ p \notin forgotten => p \in childrens \/ p = pid
Owned == parent \in Running =>
    \A p \in childrens : child[p] \in Worker \/ child[p] = "zombie" \/ p \in early

\* The book and the worker in hand are never more than a configuration asked for.
Workers == childrens \cup ({pid} \cap Pid)
Bounded == \E n \in ChildNums \cup {1} : Cardinality(Workers) <= n

DaemonInv == DaemonType /\ NoneYet /\ InHand /\ Booked /\ Owned /\ Bounded
-----------------------------------------------------------------------------
LEMMA NumFacts == /\ NoPid \notin Pid /\ \A n \in ChildNums \cup {1} : n \in Nat
                  /\ "none" \notin Worker /\ "zombie" \notin Worker
                  /\ "forked" \in Worker
BY DaemonBaseAssumption DEF Worker

LEMMA PhaseFacts == Starting \cap Running = {} /\ Starting \cap Gone = {} /\ Running \cap Gone = {}
BY DEF Starting, Running, Gone

\* The book loses a worker or stays as it is.
LEMMA Shrunk ==
    ASSUME DaemonType, Bounded, childrens' \subseteq childrens, pid' = pid
    PROVE  IsFiniteSet(childrens') /\ Bounded'
<1>1. IsFiniteSet(childrens) /\ IsFiniteSet({pid} \cap Pid)
  <2>1. {pid} \cap Pid \subseteq {pid} /\ IsFiniteSet({pid})
    BY FS_Singleton
  <2> QED  BY <2>1, FS_Subset DEF DaemonType
<1>2. IsFiniteSet(Workers)
  BY <1>1, FS_Union DEF Workers
<1>3. Workers' \subseteq Workers
  BY DEF Workers
<1>4. IsFiniteSet(Workers') /\ Cardinality(Workers') <= Cardinality(Workers)
      /\ Cardinality(Workers') \in Nat /\ Cardinality(Workers) \in Nat
  BY <1>2, <1>3, FS_Subset, FS_CardinalityType
<1>5. IsFiniteSet(childrens')
  BY <1>1, FS_Subset
<1>6. PICK n \in ChildNums \cup {1} : Cardinality(Workers) <= n
  BY DEF Bounded
<1>7. Cardinality(Workers') <= n
  BY <1>4, <1>6, NumFacts
<1> QED  BY <1>5, <1>7 DEF Bounded

\* A step of the parent that forks, stores and reaps nothing.
LEMMA ControlStep ==
    ASSUME DaemonInv, UNCHANGED <<childrens, pid, child, forgotten, early>>,
           parent' \in Starting \cup Running \cup Gone, childMaxNum' \in ChildNums \cup {1},
           parent' \in Starting => parent \in Starting,
           parent' \in Running => /\ parent \in Starting \cup Running
                                  /\ parent = "store" <=> parent' = "store"
    PROVE  DaemonInv'
<1>1. DaemonType'
  BY DEF DaemonInv, DaemonType
<1>2. NoneYet' /\ InHand' /\ Booked'
  BY PhaseFacts DEF DaemonInv, NoneYet, InHand, Booked, Starting
<1>3. Owned'
  BY PhaseFacts DEF DaemonInv, NoneYet, Owned
<1>4. Bounded'
  BY Shrunk DEF DaemonInv
<1> QED  BY <1>1, <1>2, <1>3, <1>4 DEF DaemonInv

LEMMA ForkStep == ASSUME DaemonInv, forkChild PROVE DaemonInv'
<1>1. parent = "test" /\ UNCHANGED <<childMaxNum, childrens, early>> /\ missing
  BY DEF forkChild
<1>2. ASSUME NEW p \in Pid, child[p] = "none", child' = [child EXCEPT ![p] = "forked"], pid' = p,
             parent' = "store", UNCHANGED forgotten
      PROVE  DaemonInv'
  <2>1. pid = NoPid
    BY <1>1 DEF DaemonInv, InHand, Running
  <2>2. DaemonType'
    BY <1>1, <1>2, NumFacts DEF DaemonInv, DaemonType, Running
  <2>3. NoneYet' /\ InHand'
    BY <1>2, NumFacts DEF NoneYet, InHand, Starting
  <2>4. child'[p] = "forked" /\ \A q \in Pid \ {p} : child'[q] = child[q]
    BY <1>2 DEF DaemonInv, DaemonType
  <2>5. Booked'
    BY <1>1, <1>2, <2>1, <2>4, NumFacts DEF DaemonInv, Booked
  <2>6. Owned'
    BY <1>1, <1>2, <2>4, NumFacts DEF DaemonInv, DaemonType, Owned, Running
  <2>7. Bounded'
    <3>1. Workers' = childrens \cup {p}
      BY <1>1, <1>2 DEF Workers
    <3>2. IsFiniteSet(childrens) /\ Cardinality(childrens) \in Nat
      BY FS_CardinalityType DEF DaemonInv, DaemonType
    <3>3. /\ Cardinality(childrens \cup {p}) \in Nat
          /\ Cardinality(childrens \cup {p}) <= Cardinality(childrens) + 1
      <4>1. Cardinality(childrens \cup {p}) \in {Cardinality(childrens), Cardinality(childrens) + 1}
        BY <3>2, FS_AddElement, Zenon
      <4> QED  BY <3>2, <4>1
    <3>4. childMaxNum \in ChildNums \cup {1} /\ Cardinality(childrens) < childMaxNum
      BY <1>1 DEF missing, DaemonInv, DaemonType
    <3>5. Cardinality(Workers') <= childMaxNum
      BY <3>1, <3>2, <3>3, <3>4, NumFacts
    <3> QED  BY <3>4, <3>5 DEF Bounded
  <2> QED  BY <2>2, <2>3, <2>5, <2>6, <2>7 DEF DaemonInv
<1>3. CASE parent' = "stop" /\ UNCHANGED <<pid, workerVars>>
  BY <1>1, <1>3, ControlStep DEF workerVars, Running, Starting, DaemonInv, DaemonType
<1> QED  BY <1>2, <1>3 DEF forkChild

LEMMA StoreStep == ASSUME DaemonInv, storeChildPid PROVE DaemonInv'
<1>1. /\ parent = "store" /\ parent' = "test" /\ childrens' = childrens \cup {pid} /\ pid' = NoPid
      /\ UNCHANGED <<childMaxNum, child, forgotten>>
      /\ early' = IF child[pid] = "none" THEN early \cup {pid} ELSE early
  BY DEF storeChildPid, workerVars
<1>2. pid \in Pid
  BY <1>1 DEF DaemonInv, DaemonType, InHand, Running
<1>3. DaemonType'
  BY <1>1, <1>2, FS_AddElement DEF DaemonInv, DaemonType, Running
<1>4. NoneYet' /\ InHand'
  BY <1>1 DEF NoneYet, InHand, Starting
<1>5. Booked'
  BY <1>1 DEF DaemonInv, Booked
<1>6. Owned'
  BY <1>1, <1>2 DEF DaemonInv, DaemonType, Owned, Running
<1>7. Workers' = Workers
  BY <1>1, <1>2, NumFacts DEF Workers
<1>8. Bounded'
  BY <1>7 DEF DaemonInv, Bounded
<1> QED  BY <1>3, <1>4, <1>5, <1>6, <1>8 DEF DaemonInv

\* waitpid reaps a worker that ended or reports one that was stopped.
LEMMA ReapStep == ASSUME DaemonInv, onCHLD PROVE DaemonInv'
<1>1. parent \in Running /\ UNCHANGED <<parent, childMaxNum, pid>>
  BY DEF onCHLD, handlerSet
<1>2. ASSUME NEW p \in Zombie \cup paused, childrens' = childrens \ {p}, early' = early \ {p},
             IF p \in Zombie THEN /\ child' = [child EXCEPT ![p] = "none"]
                                  /\ forgotten' = forgotten \ {p}
             ELSE /\ forgotten' = forgotten \cup {p}
                  /\ UNCHANGED child
      PROVE  DaemonInv'
  <2>1. Bounded' /\ IsFiniteSet(childrens')
    BY <1>1, <1>2, Shrunk DEF DaemonInv
  <2>2. DaemonType'
    BY <1>1, <1>2, <2>1 DEF DaemonInv, DaemonType
  <2>3. NoneYet' /\ InHand'
    BY <1>1, PhaseFacts DEF DaemonInv, NoneYet, InHand
  <2>4. /\ p \in Zombie => child[p] = "zombie" /\ child'[p] = "none"
        /\ p \notin Zombie => p \in forgotten'
        /\ \A q \in Pid \ {p} : child'[q] = child[q] /\ (q \in forgotten' <=> q \in forgotten)
    BY <1>2 DEF DaemonInv, DaemonType, Zombie
  <2>5. Booked'
    BY <1>1, <1>2, <2>4, NumFacts DEF DaemonInv, Booked
  <2>6. Owned'
    BY <1>1, <1>2, <2>4 DEF DaemonInv, DaemonType, Owned
  <2> QED  BY <2>1, <2>2, <2>3, <2>5, <2>6 DEF DaemonInv
<1>3. CASE UNCHANGED <<childrens, early, child, paused, forgotten>>
  BY <1>1, <1>3, ControlStep, PhaseFacts DEF DaemonInv, DaemonType
<1> QED  BY <1>2, <1>3 DEF onCHLD

\* stop() and a fault of the parent: it reaps what has ended and is gone.
LEMMA GoneStep ==
    ASSUME DaemonInv, parent \in Running, parent' \in Gone,
           child' = [p \in Pid |-> IF child[p] = "zombie" THEN "none" ELSE child[p]],
           UNCHANGED <<childMaxNum, childrens, pid, forgotten>>
    PROVE  DaemonInv'
<1>1. DaemonType'
  BY DEF DaemonInv, DaemonType
<1>2. NoneYet' /\ InHand' /\ Owned'
  BY PhaseFacts DEF NoneYet, InHand, Owned
<1>3. Booked'
  BY NumFacts DEF DaemonInv, Booked
<1>4. Bounded'
  BY Shrunk DEF DaemonInv
<1> QED  BY <1>1, <1>2, <1>3, <1>4 DEF DaemonInv

LEMMA ParentStepInv == ASSUME DaemonInv, ParentStep \/ Handler \/ onSEGV \/ sendTERM \/ sendUSR1
                       PROVE  DaemonInv'
<1> USE DEF parentVars, workerVars
<1>1. CASE checkOldDaemon \/ daemonlize \/ writePidFile \/ setupInterestedSignal
  BY <1>1, ControlStep DEF checkOldDaemon, daemonlize, writePidFile, setupInterestedSignal,
                           Starting, Running, Gone, DaemonInv, DaemonType
<1>2. CASE initilize
  BY <1>2, ControlStep DEF initilize, Starting, Running, DaemonInv, DaemonType
<1>3. CASE refresh
  <2>1. childMaxNum' \in ChildNums \cup {1}
    BY <1>3 DEF refresh, DaemonInv, DaemonType
  <2> QED  BY <1>3, <2>1, ControlStep DEF refresh, Starting, Running
<1>4. CASE testLoop
  BY <1>4, ControlStep DEF testLoop, Starting, Running, DaemonInv, DaemonType
<1>5. CASE stopParent
  BY <1>5, GoneStep DEF stopParent, Running, Gone
<1>6. CASE onSEGV
  BY <1>6, GoneStep DEF onSEGV, handlerSet, Gone
<1>7. CASE onTERM \/ onUSR1 \/ sendTERM \/ sendUSR1
  BY <1>7, ControlStep, PhaseFacts DEF onTERM, onUSR1, sendTERM, sendUSR1, DaemonInv, DaemonType
<1>8. CASE defaultTERM
  BY <1>8, ControlStep, PhaseFacts DEF defaultTERM, Gone, DaemonInv, DaemonType
<1> QED  BY <1>1, <1>2, <1>3, <1>4, <1>5, <1>6, <1>7, <1>8, ForkStep, StoreStep, ReapStep
         DEF ParentStep, Handler

\* A worker starts, leaves its loop or ends.
LEMMA WorkerStep ==
    ASSUME DaemonInv, NEW p \in Pid, ChildStep(p) \/ childDies(p) \/ childPauses(p)
    PROVE  DaemonInv'
<1>1. UNCHANGED <<parent, childMaxNum, childrens, pid, early>>
  BY DEF ChildStep, childDies, childPauses, becomesChild, childStart, childGoes, childTerm,
         childReturns, childContinues, ends, parentVars
<1>2. Bounded'
  BY <1>1, Shrunk DEF DaemonInv
<1>3. ASSUME child' \in [Pid -> Worker \cup {"none", "zombie"}], child[p] \in Worker,
             child'[p] \in Worker \/ child'[p] = Dead,
             \A q \in Pid \ {p} : child'[q] = child[q],
             \A q \in Pid \ {p} : q \in forgotten => q \in forgotten',
             child'[p] \in Worker => UNCHANGED forgotten
      PROVE  DaemonInv'
  <2>1. DaemonType'
    BY <1>1, <1>3 DEF DaemonInv, DaemonType
  <2>2. parent \notin Starting
    BY <1>3, NumFacts DEF DaemonInv, NoneYet
  <2>3. NoneYet' /\ InHand'
    BY <1>1, <2>2 DEF DaemonInv, NoneYet, InHand
  <2>4. Booked'
    BY <1>1, <1>3, NumFacts DEF DaemonInv, Booked, Dead
  <2>5. Owned'
    BY <1>1, <1>3, PhaseFacts DEF DaemonInv, DaemonType, Owned, Dead
  <2> QED  BY <1>2, <2>1, <2>3, <2>4, <2>5 DEF DaemonInv
<1>4. /\ child \in [Pid -> Worker \cup {"none", "zombie"}]
      /\ {"forked", "child", "loop", "leaving"} = Worker /\ Dead \in {"none", "zombie"}
  BY DEF DaemonInv, DaemonType, Worker, Dead
<1>5. CASE becomesChild(p) \/ childStart(p)
  BY <1>3, <1>4, <1>5 DEF becomesChild, childStart, childGoes
<1>6. CASE childTerm(p)
  BY <1>3, <1>4, <1>6 DEF childTerm
<1>7. CASE ends(p) /\ child[p] \in Worker
  BY <1>3, <1>4, <1>7, NumFacts DEF ends
<1>8. CASE childContinues(p) \/ childPauses(p)
  BY <1>1, <1>8, ControlStep, PhaseFacts DEF childContinues, childPauses, DaemonInv, DaemonType
<1> QED  BY <1>4, <1>5, <1>6, <1>7, <1>8 DEF ChildStep, childReturns, childDies

LEMMA DaemonInvAlways == Daemon => []DaemonInv
<1>1. DaemonInit => DaemonInv
  <2> SUFFICES ASSUME DaemonInit PROVE DaemonInv
    OBVIOUS
  <2>1. Workers = {}
    BY NumFacts DEF DaemonInit, Workers
  <2>2. Bounded
    BY <2>1, FS_EmptySet DEF Bounded
  <2> QED  BY <2>2, NumFacts, FS_EmptySet
           DEF DaemonInit, DaemonInv, DaemonType, NoneYet, InHand, Booked, Owned, Starting, Running
<1>2. DaemonInv /\ [DaemonNext]_daemonVars => DaemonInv'
  <2> SUFFICES ASSUME DaemonInv, [DaemonNext]_daemonVars PROVE DaemonInv'
    OBVIOUS
  <2>1. CASE UNCHANGED daemonVars
    BY <2>1, ControlStep, PhaseFacts DEF daemonVars, DaemonInv, DaemonType
  <2> QED  BY <2>1, ParentStepInv, WorkerStep DEF DaemonNext
<1> QED  BY <1>1, <1>2, PTL DEF Daemon

-----------------------------------------------------------------------------

\* The parent's book of its workers is right at every point at which a signal may arrive,
\* whoever dies, is stopped or is reaped between fork() and __storeChildPid.
THEOREM DaemonBookRight == Daemon => []BookRight
<1>1. DaemonInv => BookRight
  BY DEF DaemonInv, DaemonType, Booked, Owned, BookRight, Live, Zombie
<1> QED  BY <1>1, DaemonInvAlways, PTL

\* Apart from those stopped by a signal there are never more workers than some
\* configuration has asked for, also after the parent is gone.
THEOREM DaemonWorkersBounded == Daemon => []WorkersBounded
<1>1. DaemonInv => WorkersBounded
  <2> SUFFICES ASSUME DaemonInv PROVE WorkersBounded
    OBVIOUS
  <2>1. Live \ forgotten \subseteq Workers
    BY DEF DaemonInv, Booked, Live, Workers
  <2>2. IsFiniteSet(Workers)
    <3>1. {pid} \cap Pid \subseteq {pid} /\ IsFiniteSet({pid})
      BY FS_Singleton
    <3> QED  BY <3>1, FS_Subset, FS_Union DEF DaemonInv, DaemonType, Workers
  <2>3. /\ Cardinality(Live \ forgotten) <= Cardinality(Workers)
        /\ Cardinality(Live \ forgotten) \in Nat /\ Cardinality(Workers) \in Nat
    BY <2>1, <2>2, FS_Subset, FS_CardinalityType
  <2>4. PICK n \in ChildNums \cup {1} : Cardinality(Workers) <= n
    BY DEF DaemonInv, Bounded
  <2>5. Cardinality(Live \ forgotten) <= n
    BY <2>3, <2>4, NumFacts
  <2> QED  BY <2>5 DEF WorkersBounded
<1> QED  BY <1>1, DaemonInvAlways, PTL
=============================================================================
