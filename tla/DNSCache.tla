------------------------------ MODULE DNSCache ------------------------------
(***************************************************************************)
(* dns/DNSCache.cpp: the table of DNS answers that the worker processes    *)
(* share, with the process-shared try-lock (ShmMutex, LockTryGuard of      *)
(* core/SysUtil) and the private map that takes an answer when the lock is *)
(* held by another process.  DaemonBase creates the table and the mutex    *)
(* before it forks, so every worker inherits both.  A worker may die       *)
(* anywhere and be forked again; the creator may exit.                     *)
(*                                                                         *)
(* A host name is a sequence of characters; a node keeps it in a field of  *)
(* HostMax characters padded with 0, and updateNode copies a new name over *)
(* the old one without its terminator.  An answer of the name server is    *)
(* named by the host it was given for and by the time until which it may   *)
(* be used; as an address it is stored whole.                              *)
(***************************************************************************)
EXTENDS Integers, Sequences, FiniteSets, FiniteSetsExt

CONSTANTS
    Proc,         \* the worker processes
    Host,         \* host names: sequences of non-zero characters
    HostMax,      \* HOST_MAXLENGTH
    PtrSize,      \* sizeof(host) in updateNode: the size of a pointer, not of the name
    Slot,         \* the indices of DNSCacheData::array
    Word,         \* the 16-bit words of a host's MD5 digest, as slots
    Ttl,          \* times to live an answer may have
    MaxTime,      \* bound on the clock
    MaxUpdates,   \* bound on the calls of updateDNS
    Free, Destroyed,   \* states of the mutex that are no process
    NoAddr

ASSUME DNSCacheAssumption ==
    /\ HostMax \in Nat /\ PtrSize \in 1 .. HostMax /\ MaxTime \in Nat /\ MaxUpdates \in Nat
    /\ Ttl \subseteq Nat /\ Slot # {}
    /\ \A h \in Host : h \in Seq(Nat \ {0}) /\ Len(h) <= HostMax
    /\ \A h \in Host : Word[h] \in Seq(Slot) /\ Len(Word[h]) > 0
    /\ Free \notin Proc
    /\ NoAddr \notin [for : Host, until : Nat]

VARIABLES
    now,          \* time(NULL)
    mutex,        \* the pthread mutex: its owner, Free or Destroyed
    array,        \* DNSCacheData::array
    shmCache,     \* shmCache_ of each process: a set of answers, one per host at most
    call,         \* the call each process is in
    updates       \* how often updateDNS was called

dnsVars == <<now, mutex, array, shmCache, call, updates>>

Idle == [at |-> "idle", op |-> "query", host |-> <<>>, ttl |-> 0, put |-> NoAddr,
         of |-> CHOOSE s \in Slot : TRUE, found |-> NoAddr]

\* create_process_shared_memory zeroes the memory; the clock is past 0, so no node is in use.
ZeroedMemory == [s \in Slot |-> [host |-> [i \in 1 .. HostMax |-> 0],
                                  expriedAt |-> -1, addr |-> NoAddr]]
\* ShmMutex::init leaves the mutex free.  The constructor compares mutex_ptr with NULL where it
\* means to assign it; the model is of a process in which it is NULL, as in any other one
\* init() makes no mutex and the constructor writes through the stray pointer.
mutexInit == mutex = Free
DNSInit ==
    /\ now = 0
    /\ mutexInit
    /\ array = ZeroedMemory
    /\ shmCache = [p \in Proc |-> {}]
    /\ call = [p \in Proc |-> Idle]
    /\ updates = 0

-----------------------------------------------------------------------------
(* The hash table.                                                          *)

\* getNextHashkey gives one word of the digest after another and starts again at its
\* end; the loops stop when they meet the first key again.
Probes(h) == LET again == {i \in 2 .. Len(Word[h]) : Word[h][i] = Word[h][1]}
             IN  SubSeq(Word[h], 1, Min(again \cup {Len(Word[h]) + 1}) - 1)

isNodeUsed(s) == array[s].expriedAt >= now

\* memcmp over the first n characters.
memcmp(s, h, n) == \A i \in 1 .. n : array[s].host[i] = h[i]
isNodeOf(s, h) == memcmp(s, h, Len(h))

\* The name field of slot s after memcpy(dst.host_, host, strlen(host)).
memcpyHost(s, h) == [i \in 1 .. HostMax |-> IF i <= Len(h) THEN h[i] ELSE array[s].host[i]]

\* A slot the loop of DNS2Shared takes at once.
Reusable(s, h) == ~isNodeUsed(s) \/ isNodeOf(s, h)

\* The slot DNS2Shared writes: the first reusable one, else the one that expires first.
Target(h) ==
    LET P == Probes(h)
        ok == {i \in DOMAIN P : Reusable(P[i], h)}
        oldest == {i \in DOMAIN P :
                     \A j \in DOMAIN P : array[P[i]].expriedAt <= array[P[j]].expriedAt}
    IN  P[Min(IF ok # {} THEN ok ELSE oldest)]

\* What the loop of queryIP finds.
hit(h) == LET P == Probes(h)
              ok == {i \in DOMAIN P : isNodeUsed(P[i]) /\ isNodeOf(P[i], h)}
          IN  IF ok = {} THEN NoAddr ELSE array[P[Min(ok)]].addr

-----------------------------------------------------------------------------
(* The calls.                                                               *)

\* ShmMutex::try_lock, which fails unless the mutex is free, and unlock.
try_lock(p) == mutex = Free /\ mutex' = p
unlock(p) == mutex = p /\ mutex' = Free

\* queryIP; when the lock is held it returns -1 and nothing changes.
queryIP(p, h) ==
    /\ call[p].at = "idle"
    /\ try_lock(p)
    /\ call' = [call EXCEPT ![p] = [Idle EXCEPT !.at = "flush", !.host = h]]
    /\ UNCHANGED <<now, array, shmCache, updates>>

\* updateDNS: with the lock it goes on to DNS2Shared, without it to store2Memory.
updateDNS(p, h, ttl) ==
    LET answer == [for |-> h, until |-> now + ttl]
    IN  /\ call[p].at = "idle"
        /\ updates < MaxUpdates /\ updates' = updates + 1
        /\ \/ /\ try_lock(p)
              /\ call' = [call EXCEPT ![p] = [Idle EXCEPT !.at = "probe", !.op = "update",
                                                !.put = answer, !.ttl = ttl]]
              /\ UNCHANGED shmCache
           \/ /\ mutex # Free
              /\ shmCache' = [shmCache EXCEPT ![p] = {a \in @ : a.for # h} \cup {answer}]
              /\ UNCHANGED <<mutex, call>>
        /\ UNCHANGED <<now, array>>

\* Faulty variants of updateNode's test: an older answer replaces a newer one; the test
\* looks at the time alone.
noNeedNever(s, same, exp) == FALSE
noNeedByTime(s, same, exp) == exp < array[s].expriedAt
\* "no need to update": the node has a later expiry and the same name.
noNeed(s, same, exp) == same /\ exp < array[s].expriedAt

\* What memcmp(dst.host_, host, sizeof(host)) == 0 may say.  Of a name shorter than a pointer
\* it reads the terminator too, and behind that whatever lies there.
sameName(s, h) ==
    LET agree == /\ \A i \in 1 .. PtrSize : i <= Len(h) => array[s].host[i] = h[i]
                 /\ Len(h) < PtrSize => array[s].host[Len(h) + 1] = 0
    IN  {b \in BOOLEAN : IF PtrSize <= Len(h) + 1 THEN b = agree ELSE b => agree}

\* DNS2Shared up to the first assignment of updateNode.  The time to live was worked out
\* before and is added to the time of now, which may be the next second.
stamp(p) ==
    LET h == call[p].put.for
        s == Target(h)
    IN  /\ call[p].at = "probe"
        /\ now' \in {now, now + 1} \cap (0 .. MaxTime)
        /\ \E same \in sameName(s, h) :
              \/ /\ noNeed(s, same, now' + call[p].ttl)
                 /\ call' = [call EXCEPT ![p].at = "stored"]
                 /\ UNCHANGED array
              \/ /\ ~noNeed(s, same, now' + call[p].ttl)
                 /\ array' = [array EXCEPT ![s].expriedAt = now' + call[p].ttl]
                 /\ call' = [call EXCEPT ![p].at = "host", ![p].of = s]
        /\ UNCHANGED <<mutex, shmCache, updates>>

\* The memcpys of the name and of the address.
copyHost(p) ==
    /\ call[p].at = "host"
    /\ array' = [array EXCEPT ![call[p].of].host = memcpyHost(call[p].of, call[p].put.for)]
    /\ call' = [call EXCEPT ![p].at = "addr"]
    /\ UNCHANGED <<now, mutex, shmCache, updates>>

copyAddr(p) ==
    /\ call[p].at = "addr"
    /\ array' = [array EXCEPT ![call[p].of].addr = call[p].put]
    /\ call' = [call EXCEPT ![p].at = "stored"]
    /\ UNCHANGED <<now, mutex, shmCache, updates>>

\* One turn of memory2Shared: an entry that still lives goes to DNS2Shared, and every
\* entry is erased.
memory2Shared(p) ==
    /\ call[p].at \in {"stored", "flush"}
    /\ \E a \in shmCache[p] :
         /\ shmCache' = [shmCache EXCEPT ![p] = @ \ {a}]
         /\ call' = [call EXCEPT ![p] = IF a.until > now
                       THEN [@ EXCEPT !.at = "probe", !.put = a, !.ttl = a.until - now]
                       ELSE [@ EXCEPT !.at = "flush"]]
    /\ UNCHANGED <<now, mutex, array, updates>>

\* memory2Shared is done: queryIP searches the table.
search(p) ==
    /\ call[p].at \in {"stored", "flush"} /\ call[p].op = "query"
    /\ shmCache[p] = {}
    /\ call' = [call EXCEPT ![p] = [Idle EXCEPT !.at = "answered", !.host = call[p].host,
                                              !.found = hit(call[p].host)]]
    /\ UNCHANGED <<now, mutex, array, shmCache, updates>>

\* ~LockTryGuard at the end of its scope, in queryIP and in updateDNS.
guardEnds(p) ==
    /\ \/ call[p].at = "answered"
       \/ /\ call[p].at \in {"stored", "flush"} /\ call[p].op = "update"
          /\ shmCache[p] = {}
    /\ unlock(p)
    /\ call' = [call EXCEPT ![p] = Idle]
    /\ UNCHANGED <<now, array, shmCache, updates>>

-----------------------------------------------------------------------------
(* Processes and time.                                                      *)

\* Faulty variant: a mutex that is free again when its owner dies.
crashUnlocks(p) ==
    /\ call[p].at # "dead"
    /\ call' = [call EXCEPT ![p] = [Idle EXCEPT !.at = "dead"]]
    /\ mutex' = IF mutex = p THEN Free ELSE mutex
    /\ shmCache' = [shmCache EXCEPT ![p] = {}]
    /\ UNCHANGED <<now, array, updates>>
\* A worker dies.  The mutex is not a robust one: what it held stays locked.
crash(p) ==
    /\ call[p].at # "dead"
    /\ call' = [call EXCEPT ![p] = [Idle EXCEPT !.at = "dead"]]
    /\ shmCache' = [shmCache EXCEPT ![p] = {}]
    /\ UNCHANGED <<now, mutex, array, updates>>

\* The parent, which made the mutex, forks another one.
restart(p) ==
    /\ call[p].at = "dead" /\ mutex # Destroyed
    /\ call' = [call EXCEPT ![p] = Idle]
    /\ UNCHANGED <<now, mutex, array, shmCache, updates>>

\* ShmMutex::destroy.  pthread_mutex_destroy refuses a mutex that is locked; of one that was
\* free no try_lock succeeds any more.
destroy == mutex = Free /\ mutex' = Destroyed
\* ~ShmMutex in the process that made it; the workers keep their mappings.
creatorExits ==
    /\ destroy
    /\ UNCHANGED <<now, array, shmCache, call, updates>>

\* The clock.  Between a call's two readings stamp advances it, by one second at most; an
\* answer is judged in the second it is given.
tick ==
    /\ now < MaxTime
    /\ \A p \in Proc : call[p].at \notin {"probe", "answered"}
    /\ now' = now + 1
    /\ UNCHANGED <<mutex, array, shmCache, call, updates>>

DNSStep(p) ==
    \/ \E h \in Host : queryIP(p, h) \/ \E ttl \in Ttl : updateDNS(p, h, ttl)
    \/ stamp(p) \/ copyHost(p) \/ copyAddr(p)
    \/ memory2Shared(p) \/ search(p) \/ guardEnds(p)
    \/ crash(p) \/ restart(p)

DNSNext == (\E p \in Proc : DNSStep(p)) \/ creatorExits \/ tick

DNSSpec == DNSInit /\ [][DNSNext]_dnsVars

-----------------------------------------------------------------------------
(* Properties.                                                              *)

prefix(g, h) == Len(g) <= Len(h) /\ SubSeq(h, 1, Len(g)) = g

\* queryIP answers a host with an address that was stored for that host, or for one whose
\* name begins with it or begins it (the comparisons stop at strlen(host)): never with the
\* address of an unrelated host that shares a slot, whatever the names copied over each
\* other and whoever died halfway through updateNode.
AnswerForHost ==
    \A p \in Proc : call[p].found # NoAddr =>
        \/ prefix(call[p].host, call[p].found.for)
        \/ prefix(call[p].found.for, call[p].host)

\* queryIP never gives out an address more than one second past the time to live the name
\* server set for it, however long the answer lay in a private map and even when a process
\* died after it stamped the new time on an old node.
AnswerLives ==
    \A p \in Proc : call[p].found # NoAddr => now <= call[p].found.until + 1

\* An answer that waited in a process's private map never shortens the time of the answer
\* another process has stored for the same name, if that is at least PtrSize characters long
\* (of a shorter one updateNode compares more than the name).
ExpiryNotShortened ==
    [][\A p \in Proc, s \in Slot :
          LET h == call[p].put.for
          IN  call[p].at = "probe" /\ PtrSize <= Len(h) /\ isNodeOf(s, h)
                 => array'[s].expriedAt >= array[s].expriedAt]_dnsVars

\* When updateDNS has stored an answer under the lock, a query for that host meets a node of
\* its name; the exception is a table in which every probed node is taken and updateNode
\* takes the one it should replace for a newer answer of the same host, as it compares only
\* the first PtrSize characters of a longer name.
StoredIsFound ==
    \A p \in Proc : call[p].at = "stored" =>
        LET h == call[p].put.for
            P == Probes(h)
        IN  \E i \in DOMAIN P :
               \/ isNodeOf(P[i], h)
               \/ /\ PtrSize < Len(h) /\ memcmp(P[i], h, PtrSize)
                  /\ \A j \in DOMAIN P : array[P[j]].addr # NoAddr
=============================================================================
