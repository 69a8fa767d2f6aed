--------------------------- MODULE DNSCacheProofs ---------------------------
(***************************************************************************)
(* Proofs about DNSCache, for every set of processes, names and slots and   *)
(* every digest.                                                            *)
(*                                                                          *)
(* What a query finds depends on what other processes left in the table.    *)
(* The invariant says that a node is whole (name, expiry and address of one *)
(* answer) unless the process that holds the mutex is writing it now, or    *)
(* the mutex is held by nobody who could give it back; nobody reads the     *)
(* table in either case.                                                    *)
(***************************************************************************)
EXTENDS DNSCache, SequenceTheorems, WellFoundedInduction, TLAPS

Answer == [for : Host, until : Nat]
Node == [host : [1 .. HostMax -> Nat], expriedAt : Nat \cup {-1}, addr : Answer \cup {NoAddr}]
Place == {"idle", "flush", "probe", "host", "addr", "stored", "answered", "dead"}
Call == [at : Place, op : {"query", "update"}, host : Host \cup {<<>>}, ttl : Nat,
         put : Answer \cup {NoAddr}, of : Slot, found : Answer \cup {NoAddr}]

TableType ==
    /\ now \in Nat /\ array \in [Slot -> Node]
    /\ shmCache \in [Proc -> SUBSET Answer]
    /\ call \in [Proc -> Call]

\* A process in a call that took the lock has the mutex.
Inside(p) == call[p].at \notin {"idle", "dead"}
Exclusive == \A p \in Proc : Inside(p) => mutex = p

\* The mutex of a process that died with it.
Frozen == \E p \in Proc : mutex = p /\ ~Inside(p)
\* updateNode is between its assignments to node s.
InHand(s) == \E p \in Proc : mutex = p /\ call[p].at \in {"host", "addr"} /\ call[p].of = s
\* A node never used, or one whose three fields are of one answer.
Whole(s) ==
    \/ array[s].addr = NoAddr /\ array[s].expriedAt = -1
    \/ /\ array[s].addr \in Answer
       /\ isNodeOf(s, array[s].addr.for)
       /\ array[s].expriedAt <= array[s].addr.until + 1
Table == \A s \in Slot : Frozen \/ InHand(s) \/ Whole(s)

\* What updateDNS has reached at "stored", for one process.
StoredFor(h) ==
    \E i \in DOMAIN Probes(h) :
       \/ isNodeOf(Probes(h)[i], h)
       \/ /\ PtrSize < Len(h) /\ memcmp(Probes(h)[i], h, PtrSize)
          /\ \A j \in DOMAIN Probes(h) : array[Probes(h)[j]].addr # NoAddr

\* What a process knows at each place of its call.
Storing(p) ==
    /\ call[p].at = "probe" => call[p].put \in Answer /\ call[p].put.until = now + call[p].ttl
    /\ call[p].at \in {"host", "addr"} =>
          /\ call[p].put \in Answer
          /\ \E i \in DOMAIN Probes(call[p].put.for) : call[p].of = Probes(call[p].put.for)[i]
          /\ array[call[p].of].expriedAt <= call[p].put.until + 1
    /\ call[p].at = "addr" => isNodeOf(call[p].of, call[p].put.for)
    /\ call[p].at = "stored" => call[p].put \in Answer /\ StoredFor(call[p].put.for)
Answering(p) ==
    /\ Inside(p) /\ call[p].op = "query" => call[p].host \in Host
    /\ call[p].found # NoAddr =>
          /\ call[p].at = "answered"
          /\ \/ prefix(call[p].host, call[p].found.for)
             \/ prefix(call[p].found.for, call[p].host)
          /\ now <= call[p].found.until + 1
InCall == \A p \in Proc : Storing(p) /\ Answering(p)

DNSInv == TableType /\ Exclusive /\ Table /\ InCall

-----------------------------------------------------------------------------
(* The operators of the hash table.                                          *)

LEMMA LeastOfNaturals ==
    ASSUME NEW S \in SUBSET Nat, S # {}
    PROVE  Min(S) \in S /\ \A y \in S : Min(S) <= y
<1>1. \E x \in S : \A y \in S : ~(<<y, x>> \in OpToRel(<, Nat))
  BY NatLessThanWellFounded, WFMin
<1>2. PICK x \in S : \A y \in S : ~(<<y, x>> \in OpToRel(<, Nat))
  BY <1>1
<1>3. ASSUME NEW y \in S PROVE x <= y
  <2>1. ~(<<y, x>> \in OpToRel(<, Nat))
    BY <1>2
  <2>2. x \in Nat /\ y \in Nat
    OBVIOUS
  <2>3. ~(y < x)
    BY <2>1, <2>2 DEF OpToRel
  <2> QED  BY <2>2, <2>3
<1> QED  BY <1>3 DEF Min

LEMMA HostFacts ==
    ASSUME NEW h \in Host
    PROVE  /\ h \in Seq(Nat \ {0}) /\ Len(h) \in Nat /\ Len(h) <= HostMax
           /\ \A i \in 1 .. Len(h) : h[i] \in Nat
           /\ PtrSize \in Nat /\ HostMax \in Nat
           /\ Word[h] \in Seq(Slot) /\ Len(Word[h]) \in Nat /\ Len(Word[h]) > 0
<1>1. h \in Seq(Nat \ {0}) /\ Len(h) <= HostMax
      /\ Word[h] \in Seq(Slot) /\ Len(Word[h]) > 0 /\ PtrSize \in Nat /\ HostMax \in Nat
  BY DNSCacheAssumption
<1> QED  BY <1>1

\* updateNode's comparison: it never takes a name for its own that a query would not, unless
\* the name is longer than a pointer; and it knows its own if that is as long as a pointer.
LEMMA SameNameFacts ==
    ASSUME NEW h \in Host, NEW s, NEW same \in sameName(s, h)
    PROVE  /\ same => isNodeOf(s, h) \/ (PtrSize < Len(h) /\ memcmp(s, h, PtrSize))
           /\ PtrSize <= Len(h) /\ isNodeOf(s, h) => same
<1> DEFINE n == Len(h)
           agree == /\ \A i \in 1 .. PtrSize : i <= n => array[s].host[i] = h[i]
                    /\ n < PtrSize => array[s].host[n + 1] = 0
<1>1. n \in Nat /\ PtrSize \in Nat
  BY HostFacts
<1>2. (same => agree) /\ (PtrSize <= n + 1 /\ agree => same)
  BY DEF sameName
<1>3. agree => isNodeOf(s, h) \/ (PtrSize < n /\ memcmp(s, h, PtrSize))
  <2>1. CASE PtrSize < n
    <3>1. \A i \in 1 .. PtrSize : i <= n
      BY <1>1, <2>1
    <3> QED  BY <2>1, <3>1 DEF memcmp
  <2>2. CASE ~(PtrSize < n)
    <3>1. \A i \in 1 .. n : i \in 1 .. PtrSize /\ i <= n
      BY <1>1, <2>2
    <3> QED  BY <3>1 DEF isNodeOf, memcmp
  <2> QED  BY <2>1, <2>2
<1>4. PtrSize <= n /\ isNodeOf(s, h) => agree
  <2> SUFFICES ASSUME PtrSize <= n, isNodeOf(s, h) PROVE agree
    OBVIOUS
  <2>1. \A i \in 1 .. PtrSize : i \in 1 .. n
    BY <1>1
  <2>2. ~(n < PtrSize)
    BY <1>1
  <2> QED  BY <2>1, <2>2 DEF isNodeOf, memcmp
<1>5. PtrSize <= n => PtrSize <= n + 1
  BY <1>1
<1> HIDE DEF agree
<1> QED  BY <1>2, <1>3, <1>4, <1>5

\* The slots probed for a name: at least one, and all of the table.
LEMMA ProbesFacts ==
    ASSUME NEW h \in Host
    PROVE  /\ DOMAIN Probes(h) \in SUBSET Nat /\ DOMAIN Probes(h) # {}
           /\ \A i \in DOMAIN Probes(h) : Probes(h)[i] \in Slot
<1> DEFINE w == Word[h]
           n == Len(w)
           again == {i \in 2 .. n : w[i] = w[1]}
           S == again \cup {n + 1}
           m == Min(S)
<1>1. w \in Seq(Slot) /\ n \in Nat /\ n > 0
  BY HostFacts
<1>2. S \in SUBSET Nat /\ S # {} /\ (\A x \in S : x >= 2 /\ x <= n + 1)
  BY <1>1
<1>3. m \in S
  <2> HIDE DEF S
  <2> QED  BY <1>2, LeastOfNaturals
<1>4. m \in Nat /\ m >= 2 /\ m <= n + 1
  BY <1>2, <1>3
<1>5. Probes(h) = SubSeq(w, 1, m - 1)
  BY DEF Probes
<1> HIDE DEF w, m
<1> DEFINE k == m - 1
<1>6. k \in Nat /\ k >= 1 /\ k <= n
  BY <1>1, <1>4
<1>7. \A i \in 1 .. k : w[i] \in Slot
  BY <1>1, <1>6
<1>8. Probes(h) = SubSeq(w, 1, k)
  BY <1>5
<1> HIDE DEF k
<1>9. SubSeq(w, 1, k) \in Seq(Slot) /\ Len(SubSeq(w, 1, k)) = IF 1 <= k THEN k - 1 + 1 ELSE 0
  BY <1>6, <1>7, SubSeqProperties
<1>10. Probes(h) \in Seq(Slot) /\ Len(Probes(h)) = k
  BY <1>6, <1>8, <1>9
<1>11. DOMAIN Probes(h) = 1 .. k /\ \A i \in 1 .. k : Probes(h)[i] \in Slot
  BY <1>10, LenProperties, ElementOfSeq
<1>12. 1 \in 1 .. k /\ 1 .. k \in SUBSET Nat
  BY <1>6
<1> QED  BY <1>11, <1>12

\* DNS2Shared writes a probed slot, and one it may not reuse only if it may reuse none.
LEMMA TargetFacts ==
    ASSUME TableType, NEW h \in Host
    PROVE  \E i \in DOMAIN Probes(h) :
              /\ Target(h) = Probes(h)[i]
              /\ Reusable(Probes(h)[i], h) \/ \A j \in DOMAIN Probes(h) : ~Reusable(Probes(h)[j], h)
<1> DEFINE P == Probes(h)
           D == DOMAIN P
           ok == {i \in D : Reusable(P[i], h)}
           oldest == {i \in D : \A j \in D : array[P[i]].expriedAt <= array[P[j]].expriedAt}
           E(i) == array[P[i]].expriedAt + 1
           T == {E(i) : i \in D}
<1>1. D \in SUBSET Nat /\ D # {} /\ \A i \in D : P[i] \in Slot
  BY ProbesFacts
<1>2. \A i \in D : array[P[i]].expriedAt \in Nat \cup {-1}
  BY <1>1 DEF TableType, Node
<1>3. oldest # {}
  <2>1. \A i \in D : E(i) \in Nat
    BY <1>2
  <2> HIDE DEF D, E
  <2>2. T \in SUBSET Nat /\ T # {}
    BY <1>1, <2>1
  <2> HIDE DEF T
  <2>3. Min(T) \in T /\ \A y \in T : Min(T) <= y
    BY <2>2, LeastOfNaturals
  <2>4. PICK i \in D : Min(T) = E(i)
    BY <2>3 DEF T
  <2>5. \A j \in D : E(i) <= E(j)
    BY <2>3, <2>4 DEF T
  <2>6. \A j \in D : array[P[i]].expriedAt <= array[P[j]].expriedAt
    BY <1>2, <2>5 DEF E
  <2> QED  BY <2>6
<1>4. Target(h) = P[Min(IF ok # {} THEN ok ELSE oldest)]
  BY DEF Target
<1>5. CASE ok # {}
  <2>1. ok \in SUBSET Nat
    BY <1>1
  <2>2. Min(ok) \in ok
    <3> HIDE DEF ok
    <3> QED  BY <1>5, <2>1, LeastOfNaturals
  <2>3. Target(h) = P[Min(ok)]
    BY <1>4, <1>5, Zenon
  <2> QED  BY <2>2, <2>3
<1>6. CASE ok = {}
  <2>1. oldest \in SUBSET Nat
    BY <1>1
  <2>2. Min(oldest) \in oldest
    <3> HIDE DEF oldest
    <3> QED  BY <1>3, <2>1, LeastOfNaturals
  <2>3. Target(h) = P[Min(oldest)]
    BY <1>4, <1>6, Zenon
  <2>4. \A j \in D : ~Reusable(P[j], h)
    BY <1>6
  <2> QED  BY <2>2, <2>3, <2>4
<1> QED  BY <1>5, <1>6

\* A query finds nothing, or the address of a node that is in use and has the name.
LEMMA HitFacts ==
    ASSUME NEW h \in Host
    PROVE  \/ hit(h) = NoAddr
           \/ \E s \in Slot : isNodeUsed(s) /\ isNodeOf(s, h) /\ hit(h) = array[s].addr
<1> DEFINE P == Probes(h)
           ok == {i \in DOMAIN P : isNodeUsed(P[i]) /\ isNodeOf(P[i], h)}
<1>1. DOMAIN P \in SUBSET Nat /\ \A i \in DOMAIN P : P[i] \in Slot
  BY ProbesFacts
<1>2. CASE ok = {}
  BY <1>2 DEF hit
<1>3. CASE ok # {}
  <2>1. ok \in SUBSET Nat
    BY <1>1
  <2>2. Min(ok) \in ok
    <3> HIDE DEF ok
    <3> QED  BY <1>3, <2>1, LeastOfNaturals
  <2>3. hit(h) = array[P[Min(ok)]].addr
    BY <1>3 DEF hit
  <2> QED  BY <1>1, <2>2, <2>3
<1> QED  BY <1>2, <1>3

\* Two names that a node's field both begins with begin one another.
LEMMA SharedPrefix ==
    ASSUME NEW s, NEW g \in Host, NEW h \in Host, isNodeOf(s, g), isNodeOf(s, h), Len(g) <= Len(h)
    PROVE  prefix(g, h)
<1>1. /\ g \in Seq(Nat \ {0}) /\ h \in Seq(Nat \ {0}) /\ Len(g) \in Nat /\ Len(h) \in Nat
  BY HostFacts
<1>2. \A i \in 1 .. Len(g) : h[i] = g[i]
  BY <1>1 DEF isNodeOf, memcmp
<1> DEFINE n == Len(g)
<1>3. n \in Int /\ 1 \in Int /\ \A i \in 1 .. n : h[i] \in Nat \ {0}
  BY <1>1
<1>4. /\ SubSeq(h, 1, n) \in Seq(Nat \ {0})
      /\ Len(SubSeq(h, 1, n)) = IF 1 <= n THEN n - 1 + 1 ELSE 0
      /\ \A i \in 1 .. n - 1 + 1 : SubSeq(h, 1, n)[i] = h[1 + i - 1]
  <2> HIDE DEF n
  <2> QED  BY <1>3, SubSeqProperties
<1>5. Len(SubSeq(h, 1, n)) = Len(g)
  BY <1>1, <1>4
<1>6. ASSUME NEW i \in 1 .. Len(g) PROVE SubSeq(h, 1, n)[i] = g[i]
  <2>1. 1 + i - 1 = i /\ i \in 1 .. n - 1 + 1
    BY <1>1
  <2> QED  BY <1>2, <1>4, <2>1
<1>7. SubSeq(h, 1, n) = g
  BY <1>1, <1>4, <1>5, <1>6, SeqEqual
<1> QED  BY <1>7 DEF prefix

\* A whole node never answers for an unrelated name.
LEMMA WholeAnswers ==
    ASSUME TableType, NEW s \in Slot, Whole(s), NEW h \in Host, isNodeOf(s, h), isNodeUsed(s),
           array[s].addr # NoAddr
    PROVE  /\ prefix(h, array[s].addr.for) \/ prefix(array[s].addr.for, h)
           /\ now <= array[s].addr.until + 1
<1> DEFINE a == array[s].addr
<1>1. a \in Answer /\ isNodeOf(s, a.for) /\ array[s].expriedAt <= a.until + 1
  BY DEF Whole
<1>2. a.for \in Host /\ a.until \in Nat
  BY <1>1 DEF Answer
<1>3. array[s].expriedAt \in Nat \cup {-1} /\ now \in Nat
  BY DEF TableType, Node
<1>4. now <= a.until + 1
  BY <1>1, <1>2, <1>3 DEF isNodeUsed
<1>5. Len(h) \in Nat /\ Len(a.for) \in Nat
  BY <1>2, HostFacts
<1> HIDE DEF a
<1>6. prefix(h, a.for) \/ prefix(a.for, h)
  <2>1. CASE Len(h) <= Len(a.for)
    BY <1>1, <1>2, <2>1, SharedPrefix
  <2>2. CASE Len(a.for) <= Len(h)
    BY <1>1, <1>2, <2>2, SharedPrefix
  <2> QED  BY <1>5, <2>1, <2>2
<1> QED  BY <1>4, <1>6 DEF a

-----------------------------------------------------------------------------
(* Steps.  Only the process that holds the mutex writes; a step of it either *)
(* leaves the table alone or writes one node.                                *)

LEMMA IdleFacts ==
    /\ Idle \in Call /\ Idle.at = "idle" /\ Idle.op = "query" /\ Idle.found = NoAddr
    /\ Idle.put = NoAddr
<1>1. (CHOOSE s \in Slot : TRUE) \in Slot
  BY DNSCacheAssumption
<1> QED  BY <1>1 DEF Idle, Call, Place

\* Where the holder is not in the middle of updateNode, every node is whole.
LEMMA AllWhole ==
    ASSUME DNSInv,
           \/ mutex = Free
           \/ \E p \in Proc : mutex = p /\ Inside(p) /\ call[p].at \notin {"host", "addr"}
    PROVE  \A s \in Slot : Whole(s)
BY DNSCacheAssumption DEF DNSInv, Table, Frozen, InHand

\* Nobody else is in a call when p has the mutex or nobody has.
LEMMA Alone ==
    ASSUME DNSInv, NEW p \in Proc, mutex \in {Free, p}, NEW q \in Proc, q # p
    PROVE  ~Inside(q)
BY DNSCacheAssumption DEF DNSInv, Exclusive

LEMMA OutsideStays ==
    ASSUME NEW q \in Proc, call'[q] = call[q], ~Inside(q), Answering(q)
    PROVE  Storing(q)' /\ Answering(q)'
BY DEF Storing, Answering, Inside

LEMMA UntouchedStays ==
    ASSUME NEW q \in Proc, call'[q] = call[q], array' = array, now' = now,
           Storing(q), Answering(q)
    PROVE  Storing(q)' /\ Answering(q)'
BY DEF Storing, Answering, Inside, StoredFor, isNodeOf, memcmp

LEMMA WholeStays ==
    ASSUME NEW s, array'[s] = array[s], Whole(s) PROVE Whole(s)'
BY DEF Whole, isNodeOf, memcmp

\* A step of the holder that leaves the table alone.
LEMMA QuietStep ==
    ASSUME DNSInv, NEW p \in Proc, mutex \in {Free, p}, \A s \in Slot : Whole(s),
           array' = array, now' \in Nat, shmCache' \in [Proc -> SUBSET Answer],
           NEW c \in Call, call' = [call EXCEPT ![p] = c], mutex' = p \/ c.at = "idle",
           Storing(p)', Answering(p)'
    PROVE  DNSInv'
<1>1. /\ call \in [Proc -> Call] /\ call' \in [Proc -> Call] /\ call'[p] = c
      /\ \A q \in Proc : q # p => call'[q] = call[q]
  BY DEF DNSInv, TableType
<1>2. TableType'
  BY <1>1 DEF DNSInv, TableType
<1>3. ASSUME NEW q \in Proc, q # p PROVE ~Inside(q) /\ ~Inside(q)' /\ Storing(q)' /\ Answering(q)'
  <2>1. ~Inside(q)
    BY <1>3, Alone
  <2>2. Storing(q)' /\ Answering(q)'
    BY <1>1, <1>3, <2>1, OutsideStays DEF DNSInv, InCall
  <2> QED  BY <1>1, <1>3, <2>1, <2>2 DEF Inside
<1>4. Exclusive'
  BY <1>1, <1>3 DEF Exclusive, Inside
<1>5. Table'
  BY WholeStays DEF Table
<1> QED  BY <1>2, <1>3, <1>4, <1>5 DEF DNSInv, InCall

\* A step of the holder that writes node s.
LEMMA WritingStep ==
    ASSUME DNSInv, NEW p \in Proc, mutex = p, mutex' = p, now' \in Nat, shmCache' = shmCache,
           NEW s \in Slot, NEW n \in Node, array' = [array EXCEPT ![s] = n],
           \A t \in Slot : t # s => Whole(t),
           NEW c \in Call, call' = [call EXCEPT ![p] = c],
           (c.at \in {"host", "addr"} /\ c.of = s) \/ Whole(s)',
           Storing(p)', Answering(p)'
    PROVE  DNSInv'
<1>1. /\ call \in [Proc -> Call] /\ call' \in [Proc -> Call] /\ call'[p] = c
      /\ \A q \in Proc : q # p => call'[q] = call[q]
  BY DEF DNSInv, TableType
<1>2. array \in [Slot -> Node] /\ array' \in [Slot -> Node] /\ \A t \in Slot : t # s => array'[t] = array[t]
  BY DEF DNSInv, TableType
<1>3. TableType'
  BY <1>1, <1>2 DEF DNSInv, TableType
<1>4. ASSUME NEW q \in Proc, q # p PROVE ~Inside(q) /\ ~Inside(q)' /\ Storing(q)' /\ Answering(q)'
  <2>1. ~Inside(q)
    BY <1>4, Alone
  <2>2. Storing(q)' /\ Answering(q)'
    BY <1>1, <1>4, <2>1, OutsideStays DEF DNSInv, InCall
  <2> QED  BY <1>1, <1>4, <2>1, <2>2 DEF Inside
<1>5. Exclusive'
  BY <1>4 DEF Exclusive
<1>6. ASSUME NEW t \in Slot PROVE Frozen' \/ InHand(t)' \/ Whole(t)'
  <2>1. CASE t # s
    BY <1>2, <2>1, WholeStays
  <2>2. CASE t = s
    BY <1>1, <2>2 DEF InHand
  <2> QED  BY <2>1, <2>2
<1> QED  BY <1>3, <1>4, <1>5, <1>6 DEF DNSInv, InCall, Table

LEMMA QueryStep ==
    ASSUME DNSInv, NEW p \in Proc, NEW h \in Host, queryIP(p, h) PROVE DNSInv'
<1> DEFINE c == [Idle EXCEPT !.at = "flush", !.host = h]
<1>1. /\ c \in Call /\ c.at = "flush" /\ c.host = h /\ c.found = NoAddr
  BY IdleFacts DEF Call, Place
<1>2. /\ mutex = Free /\ mutex' = p /\ array' = array /\ now' = now /\ shmCache' = shmCache
      /\ call' = [call EXCEPT ![p] = c]
  BY DEF queryIP, try_lock
<1>3. \A s \in Slot : Whole(s)
  BY <1>2, AllWhole
<1>4. call'[p] = c /\ now' \in Nat /\ shmCache' \in [Proc -> SUBSET Answer]
  BY <1>2 DEF DNSInv, TableType
<1> HIDE DEF c
<1>5. Storing(p)' /\ Answering(p)'
  BY <1>1, <1>4 DEF Storing, Answering
<1> QED  BY <1>1, <1>2, <1>3, <1>4, <1>5, QuietStep

LEMMA UpdateStep ==
    ASSUME DNSInv, NEW p \in Proc, NEW h \in Host, NEW ttl \in Ttl, updateDNS(p, h, ttl)
    PROVE  DNSInv'
<1> DEFINE answer == [for |-> h, until |-> now + ttl]
           c == [Idle EXCEPT !.at = "probe", !.op = "update", !.put = answer, !.ttl = ttl]
<1>1. ttl \in Nat /\ now \in Nat
  BY DNSCacheAssumption DEF DNSInv, TableType
<1>2. answer \in Answer /\ answer.until = now + ttl
  BY <1>1 DEF Answer
<1>3. array' = array /\ now' = now
  BY DEF updateDNS
<1> HIDE DEF answer
<1>4. CASE mutex = Free /\ mutex' = p /\ call' = [call EXCEPT ![p] = c] /\ shmCache' = shmCache
  <2>1. /\ c \in Call /\ c.at = "probe" /\ c.op = "update" /\ c.put = answer /\ c.ttl = ttl
        /\ c.found = NoAddr
    BY <1>1, <1>2, IdleFacts DEF Call, Place
  <2>2. \A s \in Slot : Whole(s)
    BY <1>4, AllWhole
  <2>3. call'[p] = c /\ now' \in Nat /\ shmCache' \in [Proc -> SUBSET Answer]
    BY <1>3, <1>4 DEF DNSInv, TableType
  <2> HIDE DEF c
  <2>4. Storing(p)' /\ Answering(p)'
    BY <1>2, <1>3, <2>1, <2>3 DEF Storing, Answering
  <2> QED  BY <1>3, <1>4, <2>1, <2>2, <2>3, <2>4, QuietStep
<1>5. CASE /\ shmCache' = [shmCache EXCEPT ![p] = {a \in @ : a.for # h} \cup {answer}]
           /\ mutex' = mutex /\ call' = call
  <2>1. shmCache' \in [Proc -> SUBSET Answer]
    BY <1>2, <1>5 DEF DNSInv, TableType
  <2>2. TableType' /\ Exclusive'
    BY <1>3, <1>5, <2>1 DEF DNSInv, TableType, Exclusive, Inside
  <2>3. Table'
    BY <1>3, <1>5 DEF DNSInv, Table, Frozen, InHand, Inside, Whole, isNodeOf, memcmp
  <2>4. InCall'
    BY <1>3, <1>5, UntouchedStays DEF DNSInv, InCall
  <2> QED  BY <2>2, <2>3, <2>4 DEF DNSInv
<1> QED  BY <1>4, <1>5 DEF updateDNS, try_lock, c, answer

\* stamp: "no need to update" only for a node that has the name, or when no probed node is
\* free.
LEMMA StampStep ==
    ASSUME DNSInv, NEW p \in Proc, stamp(p) PROVE DNSInv'
<1> DEFINE a == call[p].put
           h == a.for
           s == Target(h)
           exp == now' + call[p].ttl
<1>1. /\ call \in [Proc -> Call] /\ call[p] \in Call /\ now \in Nat
      /\ array \in [Slot -> Node] /\ shmCache \in [Proc -> SUBSET Answer]
  BY DEF DNSInv, TableType
<1>2. call[p].at = "probe" /\ Inside(p) /\ mutex = p
  BY DEF stamp, DNSInv, Exclusive, Inside
<1>3. /\ a \in Answer /\ a.until = now + call[p].ttl /\ call[p].found = NoAddr
      /\ Inside(p) /\ call[p].op = "query" => call[p].host \in Host
  BY <1>2 DEF DNSInv, InCall, Storing, Answering
<1>4. h \in Host /\ a.until \in Nat /\ call[p].ttl \in Nat
  BY <1>1, <1>3 DEF Answer, Call
<1>5. now' \in Nat /\ now' >= now /\ now' <= now + 1
  BY <1>1, DNSCacheAssumption DEF stamp
<1>6. exp \in Nat /\ exp >= now /\ exp <= a.until + 1
  BY <1>1, <1>3, <1>4, <1>5
<1>7. \A t \in Slot : Whole(t)
  BY <1>2, AllWhole
<1>8. PICK i \in DOMAIN Probes(h) :
         /\ s = Probes(h)[i]
         /\ Reusable(Probes(h)[i], h) \/ \A j \in DOMAIN Probes(h) : ~Reusable(Probes(h)[j], h)
  BY <1>4, TargetFacts DEF DNSInv
<1>9. s \in Slot /\ \A j \in DOMAIN Probes(h) : Probes(h)[j] \in Slot
  BY <1>4, <1>8, ProbesFacts
<1>10. mutex' = p /\ shmCache' = shmCache
  BY <1>2 DEF stamp
<1> HIDE DEF a, s, exp
<1>11. PICK same \in sameName(s, h) :
         \/ noNeed(s, same, exp) /\ call' = [call EXCEPT ![p].at = "stored"] /\ array' = array
         \/ /\ array' = [array EXCEPT ![s].expriedAt = exp]
            /\ call' = [call EXCEPT ![p].at = "host", ![p].of = s]
  BY <1>2 DEF stamp, s, exp, a
<1>12. CASE noNeed(s, same, exp) /\ call' = [call EXCEPT ![p].at = "stored"] /\ array' = array
  <2> DEFINE c == [call[p] EXCEPT !.at = "stored"]
  <2>1. /\ c \in Call /\ c.at = "stored" /\ c.put = a /\ c.found = NoAddr
        /\ c.op = call[p].op /\ c.host = call[p].host
    BY <1>1, <1>3 DEF Call, Place, a
  <2>2. call' = [call EXCEPT ![p] = c]
    BY <1>1, <1>12
  <2>3. call'[p] = c
    BY <1>1, <2>2
  <2> HIDE DEF c
  <2>4. StoredFor(h)
    <3>1. same /\ exp < array[s].expriedAt
      BY <1>12 DEF noNeed
    <3>0. isNodeOf(s, h) \/ (PtrSize < Len(h) /\ memcmp(s, h, PtrSize))
      BY <1>4, <3>1, SameNameFacts
    <3>2. array[s].expriedAt \in Nat \cup {-1}
      BY <1>1, <1>9 DEF Node
    <3>3. isNodeUsed(s)
      BY <1>1, <1>6, <3>1, <3>2 DEF isNodeUsed
    <3>4. CASE Reusable(s, h)
      BY <1>8, <3>3, <3>4 DEF Reusable, StoredFor
    <3>5. CASE \A j \in DOMAIN Probes(h) : ~Reusable(Probes(h)[j], h)
      <4>1. ASSUME NEW j \in DOMAIN Probes(h) PROVE array[Probes(h)[j]].addr # NoAddr
        <5> DEFINE t == Probes(h)[j]
        <5>1. t \in Slot /\ Whole(t) /\ isNodeUsed(t)
          BY <1>7, <1>9, <3>5 DEF Reusable
        <5> HIDE DEF t
        <5>2. array[t].expriedAt # -1
          BY <1>1, <5>1 DEF isNodeUsed
        <5>3. array[t].addr \in Answer
          BY <5>1, <5>2 DEF Whole
        <5> QED  BY <5>3, DNSCacheAssumption DEF Answer, t
      <4> QED  BY <1>8, <3>0, <4>1 DEF StoredFor
    <3> QED  BY <1>8, <3>4, <3>5
  <2>5. PICK g : g = h
    OBVIOUS
  <2>6. Storing(p)' /\ Answering(p)'
    <3>1. StoredFor(g)'
      BY <1>12, <2>4, <2>5 DEF StoredFor, isNodeOf, memcmp
    <3>2. call'[p].put.for = g /\ call'[p].put \in Answer /\ call'[p].at = "stored"
      BY <1>3, <2>1, <2>3, <2>5
    <3>3. Storing(p)'
      BY <3>1, <3>2 DEF Storing
    <3> QED  BY <1>2, <1>3, <2>1, <2>3, <3>3 DEF Answering, Inside
  <2> QED  BY <1>1, <1>2, <1>5, <1>7, <1>10, <1>12, <2>1, <2>2, <2>6, QuietStep
<1>13. CASE /\ array' = [array EXCEPT ![s].expriedAt = exp]
            /\ call' = [call EXCEPT ![p].at = "host", ![p].of = s]
  <2> DEFINE c == [call[p] EXCEPT !.at = "host", !.of = s]
             n == [array[s] EXCEPT !.expriedAt = exp]
  <2>1. /\ c \in Call /\ c.at = "host" /\ c.of = s /\ c.put = a /\ c.found = NoAddr
        /\ c.op = call[p].op /\ c.host = call[p].host
    BY <1>1, <1>3, <1>9 DEF Call, Place, a
  <2>2. n \in Node /\ n.expriedAt = exp
    BY <1>1, <1>6, <1>9 DEF Node
  <2>3. call' = [call EXCEPT ![p] = c]
    BY <1>1, <1>13
  <2>4. array' = [array EXCEPT ![s] = n]
    BY <1>1, <1>9, <1>13
  <2>5. call'[p] = c /\ array'[s] = n
    BY <1>1, <1>9, <2>3, <2>4
  <2> HIDE DEF c, n
  <2>6. Storing(p)'
    BY <1>3, <1>6, <1>8, <2>1, <2>2, <2>5 DEF Storing
  <2>7. Answering(p)'
    BY <1>2, <1>3, <2>1, <2>5 DEF Answering, Inside
  <2> QED  BY <1>2, <1>5, <1>7, <1>9, <1>10, <2>1, <2>2, <2>3, <2>4, <2>6, <2>7, WritingStep
<1> QED  BY <1>11, <1>12, <1>13

LEMMA CopyHostStep ==
    ASSUME DNSInv, NEW p \in Proc, copyHost(p) PROVE DNSInv'
<1> DEFINE a == call[p].put
           s == call[p].of
           n == [array[s] EXCEPT !.host = memcpyHost(s, a.for)]
           c == [call[p] EXCEPT !.at = "addr"]
<1>1. /\ call \in [Proc -> Call] /\ call[p] \in Call /\ now \in Nat /\ now' = now
      /\ array \in [Slot -> Node] /\ s \in Slot /\ array[s] \in Node
  BY DEF DNSInv, TableType, Call, copyHost
<1>2. call[p].at = "host" /\ Inside(p) /\ mutex = p
  BY DEF copyHost, DNSInv, Exclusive, Inside
<1>3. /\ a \in Answer /\ call[p].found = NoAddr
      /\ \E i \in DOMAIN Probes(a.for) : s = Probes(a.for)[i]
      /\ array[s].expriedAt <= a.until + 1
      /\ Inside(p) /\ call[p].op = "query" => call[p].host \in Host
  BY <1>2 DEF DNSInv, InCall, Storing, Answering
<1>4. a.for \in Host
  BY <1>3 DEF Answer
<1>5. n \in Node /\ n.expriedAt = array[s].expriedAt /\ n.host = memcpyHost(s, a.for)
  <2>1. memcpyHost(s, a.for) \in [1 .. HostMax -> Nat]
    <3>1. array[s].host \in [1 .. HostMax -> Nat]
      BY <1>1 DEF Node
    <3> QED  BY <1>4, <3>1, HostFacts DEF memcpyHost
  <2> QED  BY <1>1, <2>1 DEF Node
<1>6. /\ c \in Call /\ c.at = "addr" /\ c.of = s /\ c.put = a /\ c.found = NoAddr
      /\ c.op = call[p].op /\ c.host = call[p].host
  BY <1>1, <1>3 DEF Call, Place
<1>7. /\ call' = [call EXCEPT ![p] = c] /\ call'[p] = c
      /\ array' = [array EXCEPT ![s] = n] /\ array'[s] = n
  BY <1>1 DEF copyHost
<1>8. \A t \in Slot : t # s => Whole(t)
  BY <1>2 DEF DNSInv, Table, Frozen, InHand
<1>9. mutex' = p /\ shmCache' = shmCache
  BY <1>2 DEF copyHost
<1>10. \A i \in 1 .. Len(a.for) : n.host[i] = a.for[i]
  <2>1. \A i \in 1 .. Len(a.for) : i \in 1 .. HostMax /\ i <= Len(a.for)
    BY <1>4, HostFacts
  <2> QED  BY <1>5, <2>1 DEF memcpyHost
<1>11. PICK b : b = a
  OBVIOUS
<1>12. PICK r : r = s
  OBVIOUS
<1> HIDE DEF c, n, a, s
<1>13. isNodeOf(r, b.for)'
  BY <1>7, <1>10, <1>11, <1>12 DEF isNodeOf, memcmp
<1>14. Storing(p)'
  <2>1. call'[p].at = "addr" /\ call'[p].put = b /\ call'[p].of = r /\ array'[r].expriedAt <= b.until + 1
    BY <1>3, <1>5, <1>6, <1>7, <1>11, <1>12
  <2>2. b \in Answer /\ \E i \in DOMAIN Probes(b.for) : r = Probes(b.for)[i]
    BY <1>3, <1>11, <1>12
  <2> QED  BY <1>13, <2>1, <2>2 DEF Storing
<1>15. Answering(p)'
  BY <1>2, <1>3, <1>6, <1>7 DEF Answering, Inside
<1> QED  BY <1>1, <1>2, <1>5, <1>6, <1>7, <1>8, <1>9, <1>14, <1>15, WritingStep

LEMMA CopyAddrStep ==
    ASSUME DNSInv, NEW p \in Proc, copyAddr(p) PROVE DNSInv'
<1> DEFINE a == call[p].put
           s == call[p].of
           n == [array[s] EXCEPT !.addr = a]
           c == [call[p] EXCEPT !.at = "stored"]
<1>1. /\ call \in [Proc -> Call] /\ call[p] \in Call /\ now \in Nat /\ now' = now
      /\ array \in [Slot -> Node] /\ s \in Slot /\ array[s] \in Node
  BY DEF DNSInv, TableType, Call, copyAddr
<1>2. call[p].at = "addr" /\ Inside(p) /\ mutex = p
  BY DEF copyAddr, DNSInv, Exclusive, Inside
<1>3. /\ a \in Answer /\ call[p].found = NoAddr
      /\ \E i \in DOMAIN Probes(a.for) : s = Probes(a.for)[i]
      /\ array[s].expriedAt <= a.until + 1 /\ isNodeOf(s, a.for)
      /\ Inside(p) /\ call[p].op = "query" => call[p].host \in Host
  BY <1>2 DEF DNSInv, InCall, Storing, Answering
<1>4. n \in Node /\ n.expriedAt = array[s].expriedAt /\ n.host = array[s].host /\ n.addr = a
  BY <1>1, <1>3 DEF Node
<1>5. /\ c \in Call /\ c.at = "stored" /\ c.put = a /\ c.found = NoAddr
      /\ c.op = call[p].op /\ c.host = call[p].host
  BY <1>1, <1>3 DEF Call, Place
<1>6. /\ call' = [call EXCEPT ![p] = c] /\ call'[p] = c
      /\ array' = [array EXCEPT ![s] = n] /\ array'[s] = n
  BY <1>1 DEF copyAddr
<1>7. \A t \in Slot : t # s => Whole(t)
  BY <1>2 DEF DNSInv, Table, Frozen, InHand
<1>8. mutex' = p /\ shmCache' = shmCache
  BY <1>2 DEF copyAddr
<1>9. PICK b : b = a
  OBVIOUS
<1>10. PICK r \in Slot : r = s
  BY <1>1
<1> HIDE DEF c, n, a, s
<1>11. isNodeOf(r, b.for)'
  BY <1>3, <1>4, <1>6, <1>9, <1>10 DEF isNodeOf, memcmp
<1>12. Whole(r)'
  BY <1>3, <1>4, <1>6, <1>9, <1>10, <1>11 DEF Whole
<1>13. Storing(p)'
  <2>1. call'[p].at = "stored" /\ call'[p].put = b /\ b \in Answer
    BY <1>3, <1>5, <1>6, <1>9
  <2>2. StoredFor(b.for)'
    BY <1>3, <1>9, <1>10, <1>11 DEF StoredFor
  <2> QED  BY <2>1, <2>2 DEF Storing
<1>14. Answering(p)'
  BY <1>2, <1>3, <1>5, <1>6 DEF Answering, Inside
<1>15. array' = [array EXCEPT ![r] = n] /\ \A t \in Slot : t # r => Whole(t)
  BY <1>6, <1>7, <1>10
<1> QED  BY <1>1, <1>2, <1>4, <1>5, <1>6, <1>8, <1>10, <1>12, <1>13, <1>14, <1>15, WritingStep

LEMMA MemoryStep ==
    ASSUME DNSInv, NEW p \in Proc, memory2Shared(p) PROVE DNSInv'
<1>1. PICK a \in shmCache[p] :
         /\ shmCache' = [shmCache EXCEPT ![p] = @ \ {a}]
         /\ call' = [call EXCEPT ![p] = IF a.until > now
                       THEN [@ EXCEPT !.at = "probe", !.put = a, !.ttl = a.until - now]
                       ELSE [@ EXCEPT !.at = "flush"]]
  BY DEF memory2Shared
<1>2. /\ call \in [Proc -> Call] /\ call[p] \in Call /\ now \in Nat /\ now' = now
      /\ shmCache \in [Proc -> SUBSET Answer] /\ array' = array /\ mutex' = mutex
  BY DEF DNSInv, TableType, memory2Shared
<1>3. a \in Answer /\ a.until \in Nat
  BY <1>1, <1>2 DEF Answer
<1>4. /\ call[p].at \in {"stored", "flush"} /\ Inside(p) /\ mutex = p
  BY DEF memory2Shared, DNSInv, Exclusive, Inside
<1>5. \A s \in Slot : Whole(s)
  BY <1>4, AllWhole
<1>6. /\ call[p].found = NoAddr
      /\ Inside(p) /\ call[p].op = "query" => call[p].host \in Host
  BY <1>4 DEF DNSInv, InCall, Answering
<1>7. shmCache' \in [Proc -> SUBSET Answer]
  BY <1>1, <1>2
<1>8. CASE a.until > now
  <2> DEFINE c == [call[p] EXCEPT !.at = "probe", !.put = a, !.ttl = a.until - now]
  <2>1. /\ c \in Call /\ c.at = "probe" /\ c.put = a /\ c.ttl = a.until - now
        /\ c.found = NoAddr /\ c.op = call[p].op /\ c.host = call[p].host
    <3>1. a.until - now \in Nat
      BY <1>2, <1>3, <1>8
    <3> QED  BY <1>2, <1>3, <1>6, <3>1 DEF Call, Place
  <2>2. call' = [call EXCEPT ![p] = c] /\ call'[p] = c
    BY <1>1, <1>2, <1>8
  <2> HIDE DEF c
  <2>3. Storing(p)'
    BY <1>2, <1>3, <2>1, <2>2 DEF Storing
  <2>4. Answering(p)'
    BY <1>4, <1>6, <2>1, <2>2 DEF Answering, Inside
  <2> QED  BY <1>2, <1>4, <1>5, <1>7, <2>1, <2>2, <2>3, <2>4, QuietStep
<1>9. CASE ~(a.until > now)
  <2> DEFINE c == [call[p] EXCEPT !.at = "flush"]
  <2>1. /\ c \in Call /\ c.at = "flush"
        /\ c.found = NoAddr /\ c.op = call[p].op /\ c.host = call[p].host
    BY <1>2, <1>6 DEF Call, Place
  <2>2. call' = [call EXCEPT ![p] = c] /\ call'[p] = c
    BY <1>1, <1>2, <1>9
  <2> HIDE DEF c
  <2>3. Storing(p)'
    BY <2>1, <2>2 DEF Storing
  <2>4. Answering(p)'
    BY <1>4, <1>6, <2>1, <2>2 DEF Answering, Inside
  <2> QED  BY <1>2, <1>4, <1>5, <1>7, <2>1, <2>2, <2>3, <2>4, QuietStep
<1> QED  BY <1>8, <1>9

\* queryIP searches a table of whole nodes.
LEMMA SearchStep ==
    ASSUME DNSInv, NEW p \in Proc, search(p) PROVE DNSInv'
<1> DEFINE h == call[p].host
           f == hit(h)
           c == [Idle EXCEPT !.at = "answered", !.host = h, !.found = f]
<1>1. /\ call \in [Proc -> Call] /\ now \in Nat /\ now' = now /\ array' = array /\ mutex' = mutex
      /\ shmCache' \in [Proc -> SUBSET Answer] /\ array \in [Slot -> Node]
  BY DEF DNSInv, TableType, search
<1>2. /\ call[p].at \in {"stored", "flush"} /\ Inside(p) /\ mutex = p /\ h \in Host
  BY DEF search, DNSInv, Exclusive, Inside, InCall, Answering
<1>3. \A s \in Slot : Whole(s)
  BY <1>2, AllWhole
<1>4. \/ f = NoAddr
      \/ \E s \in Slot : isNodeUsed(s) /\ isNodeOf(s, h) /\ f = array[s].addr
  BY <1>2, HitFacts
<1> HIDE DEF f, h
<1>5. f # NoAddr => /\ prefix(h, f.for) \/ prefix(f.for, h)
                    /\ now <= f.until + 1
  <2> SUFFICES ASSUME f # NoAddr
               PROVE  (prefix(h, f.for) \/ prefix(f.for, h)) /\ now <= f.until + 1
    OBVIOUS
  <2>1. PICK s \in Slot : isNodeUsed(s) /\ isNodeOf(s, h) /\ f = array[s].addr
    BY <1>4
  <2>2. Whole(s)
    BY <1>3
  <2> QED  BY <1>2, <2>1, <2>2, WholeAnswers DEF DNSInv
<1>6. f \in Answer \cup {NoAddr}
  BY <1>1, <1>4 DEF Node
<1>7. c \in Call /\ c.at = "answered" /\ c.host = h /\ c.found = f
  BY <1>2, <1>6, IdleFacts DEF Call, Place
<1>8. call' = [call EXCEPT ![p] = c] /\ call'[p] = c
  BY <1>1 DEF search, c, f, h
<1> HIDE DEF c
<1>9. Storing(p)'
  BY <1>7, <1>8 DEF Storing
<1>10. Answering(p)'
  BY <1>1, <1>2, <1>5, <1>7, <1>8 DEF Answering
<1> QED  BY <1>1, <1>2, <1>3, <1>7, <1>8, <1>9, <1>10, QuietStep

LEMMA GuardEndsStep ==
    ASSUME DNSInv, NEW p \in Proc, guardEnds(p) PROVE DNSInv'
<1>1. /\ call \in [Proc -> Call] /\ now' \in Nat /\ array' = array
      /\ shmCache' \in [Proc -> SUBSET Answer]
      /\ call' = [call EXCEPT ![p] = Idle] /\ mutex = p
  BY DEF DNSInv, TableType, guardEnds, unlock
<1>2. Inside(p) /\ call[p].at \notin {"host", "addr"}
  BY DEF guardEnds, Inside
<1>3. \A s \in Slot : Whole(s)
  BY <1>1, <1>2, AllWhole
<1>4. call'[p] = Idle
  BY <1>1
<1>5. Storing(p)' /\ Answering(p)'
  BY <1>4, IdleFacts DEF Storing, Answering, Inside
<1> QED  BY <1>1, <1>3, <1>5, IdleFacts, QuietStep

\* A process that dies with the mutex freezes the table; one that dies without it changes
\* nothing.
LEMMA CrashStep ==
    ASSUME DNSInv, NEW p \in Proc, crash(p) PROVE DNSInv'
<1> DEFINE c == [Idle EXCEPT !.at = "dead"]
<1>1. /\ call \in [Proc -> Call] /\ now' = now /\ now \in Nat /\ array' = array /\ mutex' = mutex
      /\ array \in [Slot -> Node] /\ shmCache \in [Proc -> SUBSET Answer]
      /\ shmCache' = [shmCache EXCEPT ![p] = {}] /\ call' = [call EXCEPT ![p] = c]
  BY DEF DNSInv, TableType, crash
<1>2. c \in Call /\ c.at = "dead" /\ c.found = NoAddr
  BY IdleFacts DEF Call, Place
<1> HIDE DEF c
<1>3. call'[p] = c /\ \A q \in Proc : q # p => call'[q] = call[q]
  BY <1>1
<1>4. TableType'
  BY <1>1, <1>2 DEF TableType
<1>5. Exclusive'
  BY <1>1, <1>2, <1>3 DEF DNSInv, Exclusive, Inside
<1>6. ASSUME NEW q \in Proc PROVE Storing(q)' /\ Answering(q)'
  <2>1. CASE q = p
    BY <1>2, <1>3, <2>1 DEF Storing, Answering, Inside
  <2>2. CASE q # p
    BY <1>1, <1>3, <2>2, UntouchedStays DEF DNSInv, InCall
  <2> QED  BY <2>1, <2>2
<1>7. ASSUME NEW s \in Slot PROVE Frozen' \/ InHand(s)' \/ Whole(s)'
  <2>1. CASE mutex = p
    BY <1>1, <1>2, <1>3, <2>1 DEF Frozen, Inside
  <2>2. CASE mutex # p /\ Frozen
    BY <1>1, <1>3, <2>2 DEF Frozen, Inside
  <2>3. CASE mutex # p /\ InHand(s)
    BY <1>1, <1>3, <2>3 DEF InHand
  <2>4. CASE Whole(s)
    BY <1>1, <2>4, WholeStays
  <2> QED  BY <2>1, <2>2, <2>3, <2>4 DEF DNSInv, Table
<1> QED  BY <1>4, <1>5, <1>6, <1>7 DEF DNSInv, InCall, Table

LEMMA RestartStep ==
    ASSUME DNSInv, NEW p \in Proc, restart(p) PROVE DNSInv'
<1>1. /\ call \in [Proc -> Call] /\ now' = now /\ now \in Nat /\ array' = array /\ mutex' = mutex
      /\ array \in [Slot -> Node] /\ shmCache' \in [Proc -> SUBSET Answer]
      /\ call' = [call EXCEPT ![p] = Idle] /\ call[p].at = "dead"
  BY DEF DNSInv, TableType, restart
<1>2. call'[p] = Idle /\ \A q \in Proc : q # p => call'[q] = call[q]
  BY <1>1
<1>3. TableType'
  BY <1>1, IdleFacts DEF TableType
<1>4. Exclusive'
  BY <1>1, <1>2, IdleFacts DEF DNSInv, Exclusive, Inside
<1>5. ASSUME NEW q \in Proc PROVE Storing(q)' /\ Answering(q)'
  <2>1. CASE q = p
    BY <1>2, <2>1, IdleFacts DEF Storing, Answering, Inside
  <2>2. CASE q # p
    BY <1>1, <1>2, <2>2, UntouchedStays DEF DNSInv, InCall
  <2> QED  BY <2>1, <2>2
<1>6. ASSUME NEW s \in Slot PROVE Frozen' \/ InHand(s)' \/ Whole(s)'
  <2>1. CASE Frozen
    <3>1. PICK q \in Proc : mutex = q /\ ~Inside(q)
      BY <2>1 DEF Frozen
    <3>2. ~Inside(q)'
      BY <1>2, <3>1, IdleFacts DEF Inside
    <3> QED  BY <1>1, <3>1, <3>2 DEF Frozen
  <2>2. CASE InHand(s)
    BY <1>1, <1>2, <2>2 DEF InHand
  <2>3. CASE Whole(s)
    BY <1>1, <2>3, WholeStays
  <2> QED  BY <2>1, <2>2, <2>3 DEF DNSInv, Table
<1> QED  BY <1>3, <1>4, <1>5, <1>6 DEF DNSInv, InCall, Table

LEMMA CreatorStep ==
    ASSUME DNSInv, creatorExits PROVE DNSInv'
<1>1. /\ mutex = Free /\ now' = now /\ array' = array /\ shmCache' = shmCache /\ call' = call
  BY DEF creatorExits, destroy
<1>2. \A p \in Proc : ~Inside(p)
  BY <1>1, DNSCacheAssumption DEF DNSInv, Exclusive
<1>3. \A s \in Slot : Whole(s)
  BY <1>1, AllWhole
<1>4. TableType'
  BY <1>1 DEF DNSInv, TableType
<1>5. Exclusive'
  BY <1>1, <1>2 DEF Exclusive, Inside
<1>6. InCall'
  BY <1>1, UntouchedStays DEF DNSInv, InCall
<1>7. Table'
  BY <1>1, <1>3, WholeStays DEF Table
<1> QED  BY <1>4, <1>5, <1>6, <1>7 DEF DNSInv

LEMMA TickStep ==
    ASSUME DNSInv, tick PROVE DNSInv'
<1>1. /\ now \in Nat /\ now' = now + 1 /\ mutex' = mutex /\ array' = array /\ shmCache' = shmCache
      /\ call' = call /\ \A p \in Proc : call[p].at \notin {"probe", "answered"}
  BY DEF tick, DNSInv, TableType
<1>2. TableType' /\ Exclusive'
  BY <1>1 DEF DNSInv, TableType, Exclusive, Inside
<1>3. Table'
  BY <1>1 DEF DNSInv, Table, Frozen, InHand, Inside, Whole, isNodeOf, memcmp
<1>4. ASSUME NEW q \in Proc PROVE Storing(q)' /\ Answering(q)'
  <2>1. Storing(q) /\ Answering(q) /\ call[q].at \notin {"probe", "answered"}
    BY <1>1 DEF DNSInv, InCall
  <2>2. Answering(q)'
    BY <1>1, <2>1 DEF Answering, Inside
  <2>3. Storing(q)'
    BY <1>1, <2>1 DEF Storing, StoredFor, isNodeOf, memcmp
  <2> QED  BY <2>2, <2>3
<1> QED  BY <1>2, <1>3, <1>4 DEF DNSInv, InCall

LEMMA InitDNSInv == DNSInit => DNSInv
<1> SUFFICES ASSUME DNSInit PROVE DNSInv
  OBVIOUS
<1>1. /\ now = 0 /\ mutex = Free /\ array = ZeroedMemory
      /\ shmCache = [p \in Proc |-> {}] /\ call = [p \in Proc |-> Idle]
  BY DEF DNSInit, mutexInit
<1>2. array \in [Slot -> Node] /\ \A s \in Slot : array[s].addr = NoAddr /\ array[s].expriedAt = -1
  BY <1>1 DEF ZeroedMemory, Node
<1>3. TableType
  BY <1>1, <1>2, IdleFacts DEF TableType
<1>4. \A p \in Proc : call[p] = Idle
  BY <1>1
<1>5. Exclusive /\ InCall
  BY <1>4, IdleFacts DEF Exclusive, InCall, Inside, Storing, Answering
<1> QED  BY <1>2, <1>3, <1>5 DEF DNSInv, Table, Whole

LEMMA NextDNSInv == DNSInv /\ [DNSNext]_dnsVars => DNSInv'
<1> SUFFICES ASSUME DNSInv, [DNSNext]_dnsVars PROVE DNSInv'
  OBVIOUS
<1>1. ASSUME NEW p \in Proc, DNSStep(p) PROVE DNSInv'
  <2>1. CASE \E h \in Host : queryIP(p, h)
    BY <2>1, QueryStep
  <2>2. CASE \E h \in Host : \E ttl \in Ttl : updateDNS(p, h, ttl)
    BY <2>2, UpdateStep
  <2>3. CASE stamp(p)
    BY <2>3, StampStep
  <2>4. CASE copyHost(p)
    BY <2>4, CopyHostStep
  <2>5. CASE copyAddr(p)
    BY <2>5, CopyAddrStep
  <2>6. CASE memory2Shared(p)
    BY <2>6, MemoryStep
  <2>7. CASE search(p)
    BY <2>7, SearchStep
  <2>8. CASE guardEnds(p)
    BY <2>8, GuardEndsStep
  <2>9. CASE crash(p)
    BY <2>9, CrashStep
  <2>10. CASE restart(p)
    BY <2>10, RestartStep
  <2> QED  BY <1>1, <2>1, <2>2, <2>3, <2>4, <2>5, <2>6, <2>7, <2>8, <2>9, <2>10 DEF DNSStep
<1>2. CASE creatorExits
  BY <1>2, CreatorStep
<1>3. CASE tick
  BY <1>3, TickStep
<1>4. CASE UNCHANGED dnsVars
  <2>1. now' = now /\ mutex' = mutex /\ array' = array /\ shmCache' = shmCache /\ call' = call
    BY <1>4 DEF dnsVars
  <2>2. TableType' /\ Exclusive'
    BY <2>1 DEF DNSInv, TableType, Exclusive, Inside
  <2>3. Table'
    BY <2>1 DEF DNSInv, Table, Frozen, InHand, Inside, Whole, isNodeOf, memcmp
  <2>4. InCall'
    BY <2>1, UntouchedStays DEF DNSInv, InCall
  <2> QED  BY <2>2, <2>3, <2>4 DEF DNSInv
<1> QED  BY <1>1, <1>2, <1>3, <1>4 DEF DNSNext

LEMMA DNSInvAlways == DNSSpec => []DNSInv
BY InitDNSInv, NextDNSInv, PTL DEF DNSSpec

-----------------------------------------------------------------------------

\* However many processes share the table and wherever they die, queryIP never answers a
\* host with the address of an unrelated one.
THEOREM DNSAnswerForHost == DNSSpec => []AnswerForHost
<1>1. DNSInv => AnswerForHost
  BY DEF DNSInv, InCall, Answering, AnswerForHost
<1> QED  BY <1>1, DNSInvAlways, PTL

\* However long an answer waited in a private map and whoever died after the new time was
\* stamped on an old node, queryIP gives out no address more than a second past its time.
THEOREM DNSAnswerLives == DNSSpec => []AnswerLives
<1>1. DNSInv => AnswerLives
  BY DEF DNSInv, InCall, Answering, AnswerLives
<1> QED  BY <1>1, DNSInvAlways, PTL

\* For every digest and every table, what updateDNS stored under the lock a query for the
\* host meets; updateNode's comparison by PtrSize characters is the one exception.
THEOREM DNSStoredIsFound == DNSSpec => []StoredIsFound
<1>1. DNSInv => StoredIsFound
  BY DEF DNSInv, InCall, Storing, StoredFor, StoredIsFound
<1> QED  BY <1>1, DNSInvAlways, PTL

\* stamp writes the one expiry that changes, and not a smaller one where the name is its own.
LEMMA StampNotShorter ==
    ASSUME DNSInv, NEW p \in Proc, call[p].at = "probe", NEW s \in Slot,
           PtrSize <= Len(call[p].put.for), isNodeOf(s, call[p].put.for), DNSNext
    PROVE  array'[s].expriedAt >= array[s].expriedAt
<1>1. array \in [Slot -> Node] /\ array[s].expriedAt \in Int
  BY DEF DNSInv, TableType, Node
<1>2. call[p].put \in Answer /\ call[p].put.for \in Host
  BY DEF DNSInv, InCall, Storing, Answer
<1>3. \A q \in Proc : Inside(q) => q = p
  BY DEF DNSInv, Exclusive, Inside
<1>4. CASE stamp(p)
  <2> DEFINE h == call[p].put.for
             t == Target(h)
             exp == now' + call[p].ttl
  <2>1. CASE array' = array
    BY <1>1, <2>1
  <2>2. CASE \E same \in sameName(t, h) :
               ~noNeed(t, same, exp) /\ array' = [array EXCEPT ![t].expriedAt = exp]
    <3>1. CASE t # s
      BY <1>1, <2>2, <3>1
    <3>2. CASE t = s
      <4>1. \A same \in sameName(t, h) : same
        <5> HIDE DEF t, h
        <5>1. h \in Host /\ PtrSize <= Len(h) /\ isNodeOf(t, h)
          BY <1>2, <3>2 DEF h
        <5> QED  BY <5>1, SameNameFacts
      <4>2. exp \in Int
        <5>1. call[p] \in Call /\ now \in Nat
          BY DEF DNSInv, TableType
        <5>2. call[p].ttl \in Nat
          BY <5>1 DEF Call
        <5>3. now' \in Int
          BY <1>4, <5>1, DNSCacheAssumption DEF stamp
        <5> QED  BY <5>2, <5>3
      <4> HIDE DEF exp
      <4>3. ~(exp < array[s].expriedAt)
        BY <2>2, <3>2, <4>1 DEF noNeed
      <4>4. array'[s].expriedAt = exp
        BY <1>1, <2>2, <3>2 DEF Node
      <4> QED  BY <1>1, <4>2, <4>3, <4>4
    <3> QED  BY <3>1, <3>2
  <2> QED  BY <1>4, <2>1, <2>2 DEF stamp
<1>5. ASSUME NEW q \in Proc, DNSStep(q), ~stamp(p) PROVE array'[s].expriedAt >= array[s].expriedAt
  <2>1. ~stamp(q) /\ ~copyHost(q) /\ ~copyAddr(q)
    BY <1>3, <1>5 DEF stamp, copyHost, copyAddr, Inside
  <2>2. array' = array
    BY <1>5, <2>1 DEF DNSStep, queryIP, updateDNS, memory2Shared, search, guardEnds, crash, restart
  <2> QED  BY <1>1, <2>2
<1>6. CASE creatorExits \/ tick
  <2>1. array' = array
    BY <1>6 DEF creatorExits, tick
  <2> QED  BY <1>1, <2>1
<1> QED  BY <1>4, <1>5, <1>6 DEF DNSNext

\* Whichever process stores it and however late, an answer never shortens the time of a node
\* that has its name.
THEOREM DNSExpiryNotShortened == DNSSpec => ExpiryNotShortened
<1> DEFINE Kept == \A p \in Proc, s \in Slot :
                      LET h == call[p].put.for
                      IN  call[p].at = "probe" /\ PtrSize <= Len(h) /\ isNodeOf(s, h)
                             => array'[s].expriedAt >= array[s].expriedAt
<1>1. DNSInv /\ [DNSNext]_dnsVars => [Kept]_dnsVars
  BY StampNotShorter
<1> QED  BY <1>1, DNSInvAlways, PTL DEF DNSSpec, ExpiryNotShortened

-----------------------------------------------------------------------------
(* A worker that dies with the mutex.                                        *)

\* While the mutex belongs to a process that is not in a call, nobody is in one.
LEMMA FrozenKeepsOut == ASSUME DNSInv, Frozen PROVE \A q \in Proc : ~Inside(q)
BY DEF DNSInv, Exclusive, Frozen

LEMMA FrozenStep ==
    ASSUME DNSInv, Frozen, DNSNext
    PROVE  Frozen' /\ array' = array /\ \A q \in Proc : ~Inside(q)'
<1>1. PICK d \in Proc : mutex = d /\ ~Inside(d)
  BY DEF Frozen
<1>2. mutex # Free /\ call \in [Proc -> Call]
  BY <1>1, DNSCacheAssumption DEF DNSInv, TableType
<1>3. ASSUME NEW q \in Proc, DNSStep(q)
      PROVE  /\ mutex' = mutex /\ array' = array
             /\ call' = call \/ call' = [call EXCEPT ![q] = Idle]
                             \/ call' = [call EXCEPT ![q] = [Idle EXCEPT !.at = "dead"]]
  <2>1. call[q].at \in {"idle", "dead"}
    BY <1>3, FrozenKeepsOut DEF Inside
  <2>2. ~stamp(q) /\ ~copyHost(q) /\ ~copyAddr(q) /\ ~memory2Shared(q) /\ ~search(q) /\ ~guardEnds(q)
    BY <2>1 DEF stamp, copyHost, copyAddr, memory2Shared, search, guardEnds
  <2>3. CASE \E h \in Host : queryIP(q, h) \/ \E ttl \in Ttl : updateDNS(q, h, ttl)
    BY <1>2, <2>3 DEF queryIP, updateDNS, try_lock
  <2>4. CASE crash(q)
    BY <2>4 DEF crash
  <2>5. CASE restart(q)
    BY <2>5 DEF restart
  <2> QED  BY <1>3, <2>2, <2>3, <2>4, <2>5 DEF DNSStep
<1>4. mutex' = mutex /\ array' = array /\ \A q \in Proc : ~Inside(q)'
  <2>1. CASE \E q \in Proc : DNSStep(q)
    <3>1. PICK q \in Proc : DNSStep(q)
      BY <2>1
    <3>2. Idle.at = "idle" /\ [Idle EXCEPT !.at = "dead"].at = "dead"
      BY DEF Idle
    <3>3. \A u \in Proc : call'[u] = call[u] \/ call'[u].at \in {"idle", "dead"}
      BY <1>2, <1>3, <3>1, <3>2
    <3>4. \A u \in Proc : ~Inside(u)'
      BY <3>3, FrozenKeepsOut DEF Inside
    <3> QED  BY <1>3, <3>1, <3>4
  <2>2. CASE creatorExits \/ tick
    <3>1. tick
      BY <1>2, <2>2 DEF creatorExits, destroy
    <3> QED  BY <3>1, FrozenKeepsOut DEF tick, Inside
  <2> QED  BY <2>1, <2>2 DEF DNSNext
<1> QED  BY <1>1, <1>4 DEF Frozen

LEMMA DeathFreezes ==
    ASSUME DNSInv, NEW p \in Proc, mutex = p, crash(p)
    PROVE  Frozen' /\ array' = array /\ \A q \in Proc : ~Inside(q)'
<1>1. call \in [Proc -> Call] /\ \A q \in Proc \ {p} : ~Inside(q)
  BY DEF DNSInv, TableType, Exclusive
<1>2. [Idle EXCEPT !.at = "dead"].at = "dead"
  BY DEF Idle
<1>3. call'[p].at = "dead" /\ \A q \in Proc \ {p} : call'[q] = call[q]
  BY <1>1, <1>2 DEF crash
<1>4. \A q \in Proc : ~Inside(q)'
  BY <1>1, <1>3 DEF Inside
<1> QED  BY <1>4 DEF crash, Frozen

\* When a worker dies between lock and unlock, the mutex, which is not robust, stays locked for
\* good, through every restart: no process enters the table again, no node changes any more, and
\* a torn node is never read.
FrozenForGood ==
    [][Frozen \/ (\E p \in Proc : mutex = p /\ crash(p))
          => Frozen' /\ array' = array /\ \A q \in Proc : ~Inside(q)']_dnsVars

\* For any processes and names, the shared cache is lost for good after such a death; this is
\* what makes the death harmless to the answers.
THEOREM DNSFrozenForGood == DNSSpec => FrozenForGood
<1> DEFINE Lost == Frozen \/ (\E p \in Proc : mutex = p /\ crash(p))
                      => Frozen' /\ array' = array /\ \A q \in Proc : ~Inside(q)'
<1>1. DNSInv /\ [DNSNext]_dnsVars => [Lost]_dnsVars
  BY FrozenStep, DeathFreezes
<1> QED  BY <1>1, DNSInvAlways, PTL DEF DNSSpec, FrozenForGood
=============================================================================
