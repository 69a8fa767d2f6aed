-------------------------- MODULE EventsLoopProofs --------------------------
(***************************************************************************)
(* Proofs about EventsLoop, for any number of sockets, channels,           *)
(* descriptors and wheel nodes.  The inductive invariant says how the      *)
(* sockets, the channels and the kernel point at each other (ObjInv), which*)
(* channels the wheel holds and since when (WheelInv, Aged), and what the  *)
(* loop itself holds where it is (CtlInv).                                 *)
(***************************************************************************)
EXTENDS EventsLoop, FiniteSetTheorems, TLAPS

ObjType ==
    /\ sockfd \in [Sock -> Fd \cup {NoFd}]
    /\ channelptr \in [Sock -> Chan \cup {NoChan}]
    /\ owner \in [Chan -> Sock \cup {NoSock}]
    /\ chfd \in [Chan -> Fd \cup {NoFd}]
    /\ events \in [Chan -> SUBSET IO]
    /\ epoll \in [Fd -> Chan \cup {NoChan}]
    /\ needDeleted \in SUBSET Chan
WheelType ==
    /\ wheel \in [Slots -> SUBSET Chan]
    /\ current \in Slots
    /\ idle \in [Chan -> 0 .. NodeNum + 1]
CtlType ==
    /\ phase \in Phases
    /\ ready \in SUBSET Chan
    /\ mask \in [Chan -> SUBSET IO]
    /\ cnptr \in Chan \cup {NoChan}
    /\ evs \in SUBSET Stages
    /\ tmo \in Chan \cup {NoChan}

\* The two halves of ChannelMatchesSocket, and what makes them inductive: a closed
\* socket has no channel, the kernel holds a descriptor's own channel, and a channel
\* that is neither valid nor free waits in needDeleted.
Agree == \A c \in Chan : chfd[c] # NoFd =>
            /\ owner[c] # NoSock
            /\ channelptr[owner[c]] = c
            /\ sockfd[owner[c]] = chfd[c]
            /\ epoll[chfd[c]] = c
Opened == \A s \in Sock : sockfd[s] # NoFd =>
            /\ channelptr[s] # NoChan
            /\ chfd[channelptr[s]] # NoFd
            /\ owner[channelptr[s]] = s
Closed == \A s \in Sock : channelptr[s] # NoChan => sockfd[s] # NoFd
Kernel == \A f \in Fd : epoll[f] # NoChan => chfd[epoll[f]] = f
Queued == \A c \in Chan : c \in needDeleted <=> owner[c] # NoSock /\ chfd[c] = NoFd
ObjInv == ObjType /\ Agree /\ Opened /\ Closed /\ Kernel /\ Queued

\* The wheel holds every open connection, once, and nothing else.
Wheeled == \A i \in Slots : \A c \in wheel[i] : chfd[c] # NoFd /\ owner[c] \in Client
Once == \A i, j \in Slots : \A c \in wheel[i] : c \in wheel[j] => i = j
Timed == \A c \in Chan : chfd[c] # NoFd /\ owner[c] \in Client => \E i \in Slots : c \in wheel[i]
WheelInv == WheelType /\ Wheeled /\ Once /\ Timed

\* The node a connection is in tells how many clock jumps it has seen since its last
\* event; a channel that is not in the wheel has seen none.
Clearing == phase \in {"clear", "timeout"}
Age(i) == IF i = current THEN (IF Clearing THEN NodeNum ELSE 0)
          ELSE IF i < current THEN current - i ELSE current + NodeNum - i
Aged == /\ \A i \in Slots : \A c \in wheel[i] : idle[c] = Age(i)
        /\ \A c \in Chan : ~(chfd[c] # NoFd /\ owner[c] \in Client) => idle[c] = 0

\* The loop holds no freed channel, and which it holds follows from where it is.
Held == /\ \A c \in ready : owner[c] # NoSock
        /\ cnptr # NoChan => owner[cnptr] # NoSock
        /\ tmo # NoChan => owner[tmo] # NoSock
PhaseOK == /\ cnptr # NoChan <=> phase \in {"dispatch", "callback", "clear", "timeout"}
           /\ tmo # NoChan <=> phase = "timeout"
CtlInv == CtlType /\ Held /\ PhaseOK

LoopInv == ObjInv /\ WheelInv /\ Aged /\ CtlInv

LEMMA SockFacts == /\ TimerFd \in Sock /\ Client \subseteq Sock /\ Listener \subseteq Sock
                   /\ UserSock \subseteq Sock /\ NoSock \notin Sock
                   /\ NoChan \notin Chan /\ NoFd \notin Fd
BY EventsLoopAssumption DEF Sock, UserSock

LEMMA SlotFacts == /\ NodeNum \in Nat /\ NodeNum > 1
                   /\ \A i \in Slots : i \in Nat /\ i < NodeNum
                   /\ current \in Slots => NextNode \in Slots
BY EventsLoopAssumption DEF Slots, NextNode

\* registerChannel: a new channel at a free address for a free descriptor.
LEMMA RegisterObj ==
    ASSUME ObjInv, NEW s \in Sock, NEW f \in Fd, NEW c \in Chan, NEW E \in SUBSET IO,
           registerChannel(s, f, c, E)
    PROVE  ObjInv'
<1>1. /\ sockfd[s] = NoFd /\ owner[c] = NoSock
      /\ \A x \in Sock : sockfd[x] # f
      /\ sockfd' = [sockfd EXCEPT ![s] = f]
      /\ channelptr' = [channelptr EXCEPT ![s] = c]
      /\ owner' = [owner EXCEPT ![c] = s]
      /\ chfd' = [chfd EXCEPT ![c] = f]
      /\ events' = [events EXCEPT ![c] = E]
      /\ epoll' = [epoll EXCEPT ![f] = c]
      /\ needDeleted' = needDeleted
  BY DEF registerChannel, FreeChan, LowestFd, FreeFd, Allocated
<1>2. chfd[c] = NoFd /\ c \notin needDeleted
  BY <1>1 DEF ObjInv, Agree, Queued
<1>3. \A x \in Chan : chfd[x] # f
  BY <1>1, SockFacts DEF ObjInv, ObjType, Agree
<1>4. ObjType'
  BY <1>1 DEF ObjInv, ObjType
<1>5. Agree'
  BY <1>1, <1>2, <1>3, SockFacts DEF ObjInv, ObjType, Agree
<1>6. Opened'
  BY <1>1, <1>2, <1>3, SockFacts DEF ObjInv, ObjType, Opened
<1>7. Closed'
  BY <1>1, SockFacts DEF ObjInv, ObjType, Closed
<1>8. Kernel'
  BY <1>1, <1>2, <1>3, SockFacts DEF ObjInv, ObjType, Kernel
<1>9. Queued'
  BY <1>1, <1>2, SockFacts DEF ObjInv, ObjType, Queued
<1> QED  BY <1>4, <1>5, <1>6, <1>7, <1>8, <1>9 DEF ObjInv

\* tcpClose: the socket's channel is valid until now, and only queued.
LEMMA CloseObj ==
    ASSUME ObjInv, NEW s \in Sock, tcpClose(s)
    PROVE  ObjInv'
<1> DEFINE c == channelptr[s]
<1>1. /\ sockfd[s] # NoFd /\ c \in Chan /\ chfd[c] # NoFd /\ owner[c] = s
      /\ sockfd[s] = chfd[c] /\ chfd[c] \in Fd /\ epoll[chfd[c]] = c
  BY SockFacts DEF tcpClose, ObjInv, ObjType, Opened, Agree
<1>2. /\ sockfd' = [sockfd EXCEPT ![s] = NoFd]
      /\ channelptr' = [channelptr EXCEPT ![s] = NoChan]
      /\ epoll' = [epoll EXCEPT ![chfd[c]] = NoChan]
      /\ chfd' = [chfd EXCEPT ![c] = NoFd]
      /\ events' = [events EXCEPT ![c] = {}]
      /\ needDeleted' = needDeleted \cup {c}
      /\ owner' = owner
  BY DEF tcpClose
<1> HIDE DEF c
<1>3. \A x \in Chan \ {c} : chfd[x] # NoFd => chfd[x] # chfd[c] /\ owner[x] # s
  BY <1>1 DEF ObjInv, Agree, c
<1>4. ObjType'
  BY <1>1, <1>2 DEF ObjInv, ObjType
<1>5. Agree'
  BY <1>1, <1>2, <1>3, SockFacts DEF ObjInv, ObjType, Agree
<1>6. Opened'
  BY <1>1, <1>2, SockFacts DEF ObjInv, ObjType, Opened
<1>7. Closed'
  BY <1>1, <1>2, SockFacts DEF ObjInv, ObjType, Closed
<1>8. Kernel'
  BY <1>1, <1>2, SockFacts DEF ObjInv, ObjType, Kernel
<1>9. Queued'
  BY <1>1, <1>2, SockFacts DEF ObjInv, ObjType, Queued
<1> QED  BY <1>4, <1>5, <1>6, <1>7, <1>8, <1>9 DEF ObjInv

LEMMA SetEventsObj ==
    ASSUME ObjInv, NEW s \in Sock, NEW E \in SUBSET IO, setEvents(s, E)
    PROVE  ObjInv'
<1> DEFINE c == channelptr[s]
<1>1. c \in Chan /\ chfd[c] \in Fd /\ epoll[chfd[c]] = c
  BY SockFacts DEF setEvents, ObjInv, ObjType, Opened, Agree
<1>2. epoll' = epoll
  BY <1>1 DEF setEvents, ObjInv, ObjType
<1>3. ObjType'
  BY <1>1, <1>2 DEF setEvents, ObjInv, ObjType
<1> QED  BY <1>2, <1>3 DEF setEvents, ObjInv, Agree, Opened, Closed, Kernel, Queued

\* cleanNeedDeletedChannels frees exactly the channels that are not valid any more.
LEMMA CleanObj == ASSUME ObjInv, cleanNeedDeletedChannels PROVE ObjInv'
<1>1. ObjType'
  BY DEF cleanNeedDeletedChannels, ObjInv, ObjType
<1>2. \A x \in Chan : chfd[x] # NoFd => owner'[x] = owner[x]
  BY DEF cleanNeedDeletedChannels, ObjInv, Queued
<1>3. Agree' /\ Opened' /\ Closed' /\ Kernel'
  BY <1>2, SockFacts DEF cleanNeedDeletedChannels, ObjInv, ObjType, Agree, Opened, Closed, Kernel
<1>4. Queued'
  BY DEF cleanNeedDeletedChannels, ObjInv, Queued
<1> QED  BY <1>1, <1>3, <1>4 DEF ObjInv
-----------------------------------------------------------------------------
(* The time wheel.                                                          *)

\* eraseChannel stops at its first hit, which is enough when a channel is in one node.
LEMMA Erased ==
    ASSUME WheelType, Once, NEW c
    PROVE  erased(c) = [i \in Slots |-> wheel[i] \ {c}]
<1>1. ASSUME NEW i \in Slots, c \in wheel[i] PROVE i \in eraseFrom(c)
  <2>1. \A j \in Slots : c \in wheel[j] => j = i
    BY <1>1 DEF Once
  <2>2. Distance(i) <= Distance(i)
    BY SlotFacts DEF Distance, WheelType
  <2> QED  BY <1>1, <2>1, <2>2 DEF eraseFrom
<1>2. \A i \in Slots : (IF i \in eraseFrom(c) THEN wheel[i] \ {c} ELSE wheel[i]) = wheel[i] \ {c}
  BY <1>1
<1> QED  BY <1>2 DEF erased

LEMMA RegisterWheel ==
    ASSUME ObjInv, WheelInv, Aged, NEW s \in Sock, NEW f \in Fd, NEW c \in Chan, NEW E,
           registerChannel(s, f, c, E), ~Clearing, ~Clearing'
    PROVE  WheelInv' /\ Aged'
<1>1. /\ owner[c] = NoSock /\ owner' = [owner EXCEPT ![c] = s]
      /\ chfd' = [chfd EXCEPT ![c] = f] /\ current' = current
  BY DEF registerChannel, FreeChan, Allocated
<1>2. chfd[c] = NoFd /\ \A i \in Slots : c \notin wheel[i]
  BY <1>1 DEF ObjInv, Agree, WheelInv, Wheeled
<1>3. idle[c] = 0
  BY <1>2 DEF Aged
<1>4. \A x \in Chan \ {c} : owner'[x] = owner[x] /\ chfd'[x] = chfd[x]
  BY <1>1 DEF ObjInv, ObjType
<1>5. owner'[c] = s /\ chfd'[c] = f /\ f # NoFd
  BY <1>1, SockFacts DEF ObjInv, ObjType
<1>6. CASE s \in Client
  <2>1. /\ wheel' = [wheel EXCEPT ![current] = @ \cup {c}]
        /\ idle' = [idle EXCEPT ![c] = 0]
    BY <1>6 DEF registerChannel
  <2>2. /\ \A i \in Slots : wheel'[i] = IF i = current THEN wheel[i] \cup {c} ELSE wheel[i]
        /\ \A x \in Chan : idle'[x] = IF x = c THEN 0 ELSE idle[x]
    BY <2>1 DEF WheelInv, WheelType
  <2>3. WheelType'
    BY <1>1, <2>1, SlotFacts DEF WheelInv, WheelType
  <2>4. \A i \in Slots : \A x \in wheel'[i] : \/ x = c /\ i = current
                                              \/ x # c /\ x \in Chan /\ x \in wheel[i]
    BY <1>2, <2>2 DEF WheelInv, WheelType
  <2>5. Wheeled'
    BY <1>4, <1>5, <1>6, <2>4 DEF WheelInv, Wheeled
  <2>6. Once'
    BY <2>4 DEF WheelInv, Once
  <2>7. Timed'
    BY <1>4, <1>5, <1>6, <2>2 DEF WheelInv, WheelType, Timed
  <2>8. \A i \in Slots : \A x \in wheel'[i] : idle'[x] = Age(i)'
    BY <1>1, <2>2, <2>4 DEF Aged, Age
  <2>9. Aged'
    BY <1>4, <1>5, <1>6, <2>2, <2>8 DEF Aged
  <2> QED  BY <2>3, <2>5, <2>6, <2>7, <2>9 DEF WheelInv
<1>7. CASE s \notin Client
  <2>1. wheel' = wheel /\ idle' = idle
    BY <1>7 DEF registerChannel
  <2>2. WheelType'
    BY <1>1, <2>1 DEF WheelInv, WheelType
  <2>3. Wheeled' /\ Once' /\ Timed'
    BY <1>2, <1>4, <1>5, <1>7, <2>1 DEF WheelInv, WheelType, Wheeled, Once, Timed
  <2>4. Aged'
    BY <1>1, <1>2, <1>3, <1>4, <1>5, <1>7, <2>1 DEF Aged, Age, WheelInv, WheelType
  <2> QED  BY <2>2, <2>3, <2>4 DEF WheelInv
<1> QED  BY <1>6, <1>7

LEMMA CloseWheel ==
    ASSUME ObjInv, WheelInv, Aged, NEW s \in Sock, tcpClose(s), Clearing' = Clearing
    PROVE  WheelInv' /\ Aged'
<1> DEFINE c == channelptr[s]
<1>1. c \in Chan
  BY SockFacts DEF tcpClose, ObjInv, ObjType, Opened
<1>2. /\ owner' = owner /\ current' = current
      /\ chfd' = [chfd EXCEPT ![c] = NoFd]
      /\ idle' = [idle EXCEPT ![c] = 0]
      /\ wheel' = [i \in Slots |-> wheel[i] \ {c}]
  BY Erased DEF tcpClose, WheelInv
<1> HIDE DEF c
<1>3. /\ \A i \in Slots : wheel'[i] = wheel[i] \ {c}
      /\ \A x \in Chan : idle'[x] = IF x = c THEN 0 ELSE idle[x]
      /\ \A x \in Chan : chfd'[x] = IF x = c THEN NoFd ELSE chfd[x]
  BY <1>1, <1>2 DEF ObjInv, ObjType, WheelInv, WheelType
<1>4. WheelType'
  BY <1>1, <1>2, SlotFacts DEF WheelInv, WheelType
<1>5. Wheeled' /\ Once' /\ Timed'
  BY <1>2, <1>3 DEF WheelInv, WheelType, Wheeled, Once, Timed
<1>6. Aged'
  BY <1>2, <1>3 DEF Aged, Age, WheelInv, WheelType
<1> QED  BY <1>4, <1>5, <1>6 DEF WheelInv

LEMMA UpdateWheel ==
    ASSUME ObjInv, WheelInv, Aged, NEW c \in Chan, timerUpdate(c), ~Clearing, ~Clearing',
           UNCHANGED <<owner, chfd, current>>
    PROVE  WheelInv' /\ Aged'
<1>1. CASE isSkipChannel(c)
  BY <1>1 DEF timerUpdate, WheelInv, WheelType, Wheeled, Once, Timed, Aged, Age
<1>2. CASE ~isSkipChannel(c)
  <2>1. chfd[c] # NoFd /\ owner[c] \in Client
    BY <1>2 DEF isSkipChannel, validChannel
  <2>2. /\ wheel' = [[i \in Slots |-> wheel[i] \ {c}] EXCEPT ![current] = @ \cup {c}]
        /\ idle' = [idle EXCEPT ![c] = 0]
    BY <1>2, Erased DEF timerUpdate, WheelInv
  <2>3. /\ \A i \in Slots : wheel'[i] = IF i = current THEN wheel[i] \cup {c} ELSE wheel[i] \ {c}
        /\ \A x \in Chan : idle'[x] = IF x = c THEN 0 ELSE idle[x]
    BY <2>2 DEF WheelInv, WheelType
  <2>4. WheelType'
    BY <2>2, SlotFacts DEF WheelInv, WheelType
  <2>5. \A i \in Slots : \A x \in wheel'[i] : \/ x = c /\ i = current
                                              \/ x # c /\ x \in Chan /\ x \in wheel[i]
    <3>1. \A i \in Slots : c \in wheel[i] /\ i # current => c \notin wheel'[i]
      BY <2>3
    <3> QED  BY <2>3, <3>1 DEF WheelInv, WheelType
  <2>6. Wheeled'
    BY <2>1, <2>5 DEF WheelInv, Wheeled
  <2>7. Once'
    BY <2>5 DEF WheelInv, Once
  <2>8. Timed'
    BY <2>1, <2>3 DEF WheelInv, WheelType, Timed
  <2>9. \A i \in Slots : \A x \in wheel'[i] : idle'[x] = Age(i)'
    BY <2>3, <2>5 DEF Aged, Age
  <2>10. Aged'
    BY <2>1, <2>3, <2>9 DEF Aged
  <2> QED  BY <2>4, <2>6, <2>7, <2>8, <2>10 DEF WheelInv
<1> QED  BY <1>1, <1>2

LEMMA CleanWheel ==
    ASSUME ObjInv, WheelInv, Aged, cleanNeedDeletedChannels, ~Clearing, ~Clearing'
    PROVE  WheelInv' /\ Aged'
<1>1. /\ UNCHANGED <<wheel, current, idle, chfd>>
      /\ \A x \in Chan : chfd[x] # NoFd => owner'[x] = owner[x]
  BY DEF cleanNeedDeletedChannels, wheelVars, ObjInv, Queued
<1> QED  BY <1>1 DEF WheelInv, WheelType, Wheeled, Once, Timed, Aged, Age

LEMMA KeepWheel ==
    ASSUME WheelInv, Aged, UNCHANGED wheelVars, UNCHANGED <<owner, chfd>>, Clearing' = Clearing
    PROVE  WheelInv' /\ Aged'
BY DEF wheelVars, WheelInv, WheelType, Wheeled, Once, Timed, Aged, Age

\* clockJump: every node is one jump older, and the node it comes to is a turn old.
LEMMA JumpWheel ==
    ASSUME ObjInv, WheelInv, Aged, CtlInv, clockJump
    PROVE  WheelInv' /\ Aged'
<1>1. ~Clearing /\ Clearing'
  BY DEF clockJump, Clearing
<1>2. UNCHANGED <<wheel, owner, chfd>> /\ current' = NextNode
  BY DEF clockJump, objVars
<1>3. \A i \in Slots : \A x \in wheel[i] : idle[x] < NodeNum /\ idle[x] \in Nat
  BY <1>1, SlotFacts DEF Aged, Age, WheelInv, WheelType
<1>4. \A x \in Chan : idle'[x] = IF chfd[x] # NoFd /\ owner[x] \in Client THEN idle[x] + 1 ELSE idle[x]
  BY <1>3, SlotFacts DEF clockJump, validChannel, WheelInv, Timed
<1>5. WheelType'
  <2>1. idle' \in [Chan -> 0 .. NodeNum + 1]
    BY SlotFacts DEF clockJump, WheelInv, WheelType
  <2> QED  BY <1>2, <2>1, SlotFacts DEF WheelInv, WheelType
<1>6. Wheeled' /\ Once' /\ Timed'
  BY <1>2 DEF WheelInv, Wheeled, Once, Timed
<1>7. ASSUME NEW i \in Slots, NEW x \in wheel[i] PROVE idle'[x] = Age(i)'
  <2>1. idle[x] = Age(i) /\ idle'[x] = idle[x] + 1
    BY <1>4 DEF Aged, WheelInv, WheelType, Wheeled
  <2>2. i \in 0 .. NodeNum - 1 /\ current \in 0 .. NodeNum - 1
    BY DEF WheelInv, WheelType, Slots
  <2>3. Age(i)' = IF i = NextNode THEN NodeNum
                  ELSE IF i < NextNode THEN NextNode - i ELSE NextNode + NodeNum - i
    BY <1>1, <1>2 DEF Age
  <2>4. Age(i) = IF i = current THEN 0
                 ELSE IF i < current THEN current - i ELSE current + NodeNum - i
    BY <1>1 DEF Age
  <2> QED  BY <2>1, <2>2, <2>3, <2>4, SlotFacts DEF NextNode
<1>8. Aged'
  BY <1>2, <1>4, <1>7 DEF Aged
<1> QED  BY <1>5, <1>6, <1>8 DEF WheelInv
-----------------------------------------------------------------------------
(* The actions.                                                             *)

LEMMA RegisterKeeps ==
    ASSUME ObjInv, NEW s \in Sock, NEW f, NEW c \in Chan, NEW E, registerChannel(s, f, c, E)
    PROVE  \A x \in Chan : owner[x] # NoSock => owner'[x] # NoSock
BY SockFacts DEF registerChannel, ObjInv, ObjType

\* What the loop holds stays allocated while no channel is deleted.
LEMMA KeepCtl ==
    ASSUME CtlInv, UNCHANGED ctlVars,
           \A x \in Chan : owner[x] # NoSock => owner'[x] # NoSock
    PROVE  CtlInv'
<1>1. CtlType' /\ PhaseOK'
  BY DEF ctlVars, CtlInv, CtlType, PhaseOK
<1>2. Held'
  BY DEF ctlVars, CtlInv, CtlType, Held
<1> QED  BY <1>1, <1>2 DEF CtlInv

LEMMA KeepObj == ASSUME ObjInv, UNCHANGED objVars PROVE ObjInv'
BY DEF objVars, ObjInv, ObjType, Agree, Opened, Closed, Kernel, Queued

\* A step of the loop itself that touches no socket, channel or node.
LEMMA ControlStep ==
    ASSUME LoopInv, UNCHANGED objVars, UNCHANGED wheelVars, Clearing' = Clearing, CtlInv'
    PROVE  LoopInv'
<1>1. ObjInv'
  BY KeepObj DEF LoopInv
<1>2. WheelInv' /\ Aged'
  BY KeepWheel DEF LoopInv, objVars
<1> QED  BY <1>1, <1>2 DEF LoopInv

LEMMA WaitStep == ASSUME LoopInv, Wait PROVE LoopInv'
<1> USE DEF LoopInv
<1>1. ASSUME NEW l \in Listener, NEW f \in Fd, NEW c \in Chan, addIntoFactory(l, f, c)
      PROVE  LoopInv'
  <2>1. l \in Sock /\ {"IN"} \in SUBSET IO /\ registerChannel(l, f, c, {"IN"}) /\ UNCHANGED ctlVars
    BY <1>1, SockFacts DEF addIntoFactory, IO
  <2>2. ~Clearing /\ ~Clearing'
    BY <1>1 DEF addIntoFactory, ctlVars, Clearing
  <2> QED  BY <2>1, <2>2, RegisterObj, RegisterWheel, RegisterKeeps, KeepCtl
<1>2. ASSUME NEW f \in Fd, NEW c \in Chan, loop(f, c) PROVE LoopInv'
  <2>1. TimerFd \in Sock /\ {"IN"} \in SUBSET IO /\ registerChannel(TimerFd, f, c, {"IN"})
    BY <1>2, SockFacts DEF loop, IO
  <2>2. ~Clearing /\ ~Clearing'
    BY <1>2 DEF loop, Clearing
  <2>3. \A x \in Chan : owner[x] # NoSock => owner'[x] # NoSock
    BY <2>1, RegisterKeeps
  <2>4. CtlType' /\ PhaseOK'
    BY <1>2 DEF loop, CtlInv, CtlType, PhaseOK, Phases
  <2>5. Held'
    BY <1>2, <2>3 DEF loop, CtlInv, CtlType, Held
  <2> QED  BY <2>1, <2>2, <2>4, <2>5, RegisterObj, RegisterWheel DEF CtlInv
<1>3. ASSUME NEW R \in SUBSET Chan, epollWait(R) PROVE LoopInv'
  <2>1. \A c \in R : owner[c] # NoSock
    <3>1. \A c \in R : \E f \in Fd : c = epoll[f] /\ c # NoChan
      BY <1>3 DEF epollWait
    <3> QED  BY <3>1, SockFacts DEF ObjInv, ObjType, Kernel, Agree
  <2>2. mask' \in [Chan -> SUBSET IO]
    BY <1>3 DEF epollWait, ObjInv, ObjType
  <2>3. CtlType' /\ PhaseOK'
    BY <1>3, <2>2 DEF epollWait, CtlInv, CtlType, PhaseOK, Phases
  <2>4. Held'
    BY <1>3, <2>1 DEF epollWait, CtlInv, CtlType, Held, objVars
  <2>5. Clearing' = Clearing
    BY <1>3 DEF epollWait, Clearing
  <2> QED  BY <1>3, <2>3, <2>4, <2>5, ControlStep DEF epollWait, CtlInv
<1>4. CASE epollError
  <2>1. CtlInv' /\ Clearing' = Clearing
    BY <1>4 DEF epollError, CtlInv, CtlType, PhaseOK, Held, Phases, objVars, Clearing
  <2> QED  BY <1>4, <2>1, ControlStep DEF epollError
<1> QED  BY <1>1, <1>2, <1>3, <1>4 DEF Wait

LEMMA DispatchStep == ASSUME LoopInv, Dispatch PROVE LoopInv'
<1> USE DEF LoopInv
<1>1. ASSUME NEW c \in Chan, skipEntry(c) PROVE LoopInv'
  <2>1. CtlType' /\ PhaseOK' /\ Held'
    BY <1>1 DEF skipEntry, CtlInv, CtlType, PhaseOK, Held, objVars
  <2> QED  BY <1>1, <2>1, ControlStep DEF skipEntry, Clearing, CtlInv
<1>2. ASSUME NEW c \in Chan, NEW E \in SUBSET Stages, beginEntry(c, E) PROVE LoopInv'
  <2>1. c # NoChan /\ owner[c] # NoSock
    BY <1>2, SockFacts DEF beginEntry, validChannel, ObjInv, Agree
  <2>2. CtlType' /\ PhaseOK' /\ Held'
    BY <1>2, <2>1 DEF beginEntry, CtlInv, CtlType, PhaseOK, Held, objVars, Phases
  <2>3. Clearing' = Clearing
    BY <1>2 DEF beginEntry, Clearing
  <2> QED  BY <1>2, <2>2, <2>3, ControlStep DEF beginEntry, CtlInv
<1>3. CASE callStage
  <2>1. CtlType' /\ PhaseOK' /\ Held'
    BY <1>3 DEF callStage, CtlInv, CtlType, PhaseOK, Held, objVars, Phases
  <2>2. Clearing' = Clearing
    BY <1>3 DEF callStage, Clearing
  <2> QED  BY <1>3, <2>1, <2>2, ControlStep DEF callStage, CtlInv
<1>4. CASE endEntry
  <2>1. cnptr \in Chan /\ ~Clearing /\ ~Clearing' /\ UNCHANGED objVars
    BY <1>4 DEF endEntry, CtlInv, CtlType, PhaseOK, Clearing
  <2>2. UNCHANGED <<owner, chfd, current>> /\ timerUpdate(cnptr)
    BY <1>4 DEF endEntry, objVars
  <2>3. CtlType' /\ PhaseOK' /\ Held'
    BY <1>4 DEF endEntry, CtlInv, CtlType, PhaseOK, Held, objVars, Phases
  <2> QED  BY <2>1, <2>2, <2>3, KeepObj, UpdateWheel DEF CtlInv
<1>5. CASE endBatch
  <2>1. cleanNeedDeletedChannels /\ ~Clearing /\ ~Clearing'
    BY <1>5 DEF endBatch, Clearing
  <2>2. CtlType' /\ PhaseOK' /\ Held'
    BY <1>5 DEF endBatch, CtlInv, CtlType, PhaseOK, Held, Phases
  <2> QED  BY <2>1, <2>2, CleanObj, CleanWheel DEF CtlInv
<1> QED  BY <1>1, <1>2, <1>3, <1>4, <1>5 DEF Dispatch

LEMMA ReturnStep == ASSUME LoopInv, Return PROVE LoopInv'
<1> USE DEF LoopInv
<1>1. CASE callReturnContinue
  <2>1. CtlType' /\ PhaseOK' /\ Held'
    BY <1>1 DEF callReturnContinue, returnContinue, CtlInv, CtlType, PhaseOK, Held, objVars, Phases
  <2>2. Clearing' = Clearing
    BY <1>1 DEF callReturnContinue, returnContinue, Clearing
  <2> QED  BY <1>1, <2>1, <2>2, ControlStep DEF callReturnContinue, CtlInv
<1>2. CASE returnBreak
  <2>1. cnptr \in Chan /\ ~Clearing /\ ~Clearing' /\ UNCHANGED objVars
    BY <1>2 DEF returnBreak, CtlInv, CtlType, PhaseOK, Clearing
  <2>2. UNCHANGED <<owner, chfd, current>> /\ timerUpdate(cnptr)
    BY <1>2 DEF returnBreak, objVars
  <2>3. CtlType' /\ PhaseOK' /\ Held'
    BY <1>2 DEF returnBreak, CtlInv, CtlType, PhaseOK, Held, objVars, Phases
  <2> QED  BY <2>1, <2>2, <2>3, KeepObj, UpdateWheel DEF CtlInv
<1>3. CASE returnDropWaited
  <2>1. cleanNeedDeletedChannels /\ ~Clearing /\ ~Clearing'
    BY <1>3 DEF returnDropWaited, Clearing
  <2>2. CtlType' /\ PhaseOK' /\ Held'
    BY <1>3 DEF returnDropWaited, CtlInv, CtlType, PhaseOK, Held, Phases
  <2> QED  BY <2>1, <2>2, CleanObj, CleanWheel DEF CtlInv
<1> QED  BY <1>1, <1>2, <1>3 DEF Return

\* tcpClose deletes nothing.
LEMMA CloseStep ==
    ASSUME LoopInv, NEW s \in Sock, tcpClose(s), Clearing' = Clearing,
           CtlType', PhaseOK', ready' = ready, cnptr' = cnptr, tmo' \in {tmo, NoChan}
    PROVE  LoopInv'
<1>1. owner' = owner
  BY DEF tcpClose
<1>2. Held'
  BY <1>1 DEF LoopInv, CtlInv, Held
<1> QED  BY <1>2, CloseObj, CloseWheel DEF LoopInv, CtlInv

LEMMA TimerStep == ASSUME LoopInv, Timer PROVE LoopInv'
<1> USE DEF LoopInv
<1>1. CASE clockJump
  <2>1. CtlType' /\ PhaseOK' /\ Held'
    BY <1>1 DEF clockJump, CtlInv, CtlType, PhaseOK, Held, objVars, Phases
  <2>2. UNCHANGED objVars
    BY <1>1 DEF clockJump
  <2> QED  BY <1>1, <2>1, <2>2, KeepObj, JumpWheel DEF CtlInv
<1>2. ASSUME NEW c \in Chan, beginTimeout(c) PROVE LoopInv'
  <2>1. c # NoChan /\ owner[c] # NoSock
    BY <1>2, SockFacts DEF beginTimeout, ObjInv, Agree, WheelInv, WheelType, Wheeled
  <2>2. CtlType' /\ PhaseOK' /\ Held'
    BY <1>2, <2>1 DEF beginTimeout, CtlInv, CtlType, PhaseOK, Held, objVars, Phases
  <2>3. Clearing' = Clearing
    BY <1>2 DEF beginTimeout, Clearing
  <2> QED  BY <1>2, <2>2, <2>3, ControlStep DEF beginTimeout, CtlInv
<1>3. CASE endTimeout
  <2>1. owner[tmo] \in Sock /\ tcpClose(owner[tmo])
    BY <1>3 DEF endTimeout, CtlInv, CtlType, PhaseOK, Held, ObjInv, ObjType
  <2>2. CtlType' /\ PhaseOK'
    BY <1>3 DEF endTimeout, CtlInv, CtlType, PhaseOK, Phases
  <2>3. Clearing' = Clearing
    BY <1>3 DEF endTimeout, Clearing
  <2>4. ready' = ready /\ cnptr' = cnptr /\ tmo' \in {tmo, NoChan}
    BY <1>3 DEF endTimeout
  <2> QED  BY <2>1, <2>2, <2>3, <2>4, CloseStep
<1>4. CASE endClear
  <2>1. CtlType' /\ PhaseOK' /\ Held'
    BY <1>4 DEF endClear, CtlInv, CtlType, PhaseOK, Held, objVars, Phases
  <2>2. ObjInv'
    BY <1>4, KeepObj DEF endClear
  <2>3. WheelInv'
    BY <1>4 DEF endClear, objVars, wheelVars, WheelInv, WheelType, Wheeled, Once, Timed
  <2>4. Aged'
    BY <1>4 DEF endClear, objVars, wheelVars, Aged, Age, Clearing
  <2> QED  BY <2>1, <2>2, <2>3, <2>4 DEF CtlInv
<1> QED  BY <1>1, <1>2, <1>3, <1>4 DEF Timer

LEMMA CallbackStep == ASSUME LoopInv, Callback PROVE LoopInv'
<1> USE DEF LoopInv
<1>0. Arm \subseteq SUBSET IO
  BY EventsLoopAssumption DEF IO
<1>1. ASSUME NEW s \in UserSock, NEW f \in Fd, NEW c \in Chan, NEW E \in Arm, callRegister(s, f, c, E)
      PROVE  LoopInv'
  <2>1. s \in Sock /\ E \in SUBSET IO /\ registerChannel(s, f, c, E) /\ UNCHANGED ctlVars
    BY <1>0, <1>1, SockFacts DEF callRegister, stay
  <2>2. ~Clearing /\ ~Clearing'
    BY <1>1 DEF callRegister, stay, ctlVars, Clearing
  <2> QED  BY <2>1, <2>2, RegisterObj, RegisterWheel, RegisterKeeps, KeepCtl
<1>2. ASSUME NEW s \in UserSock, callClose(s) PROVE LoopInv'
  <2>1. s \in Sock /\ tcpClose(s) /\ UNCHANGED ctlVars
    BY <1>2, SockFacts DEF callClose, stay
  <2>2. CtlType' /\ PhaseOK' /\ Clearing' = Clearing
    BY <2>1 DEF ctlVars, CtlInv, CtlType, PhaseOK, Clearing
  <2> QED  BY <2>1, <2>2, CloseStep DEF ctlVars
<1>3. ASSUME NEW s \in UserSock, NEW E \in Arm, callSetEvents(s, E) PROVE LoopInv'
  <2>1. s \in Sock /\ E \in SUBSET IO /\ setEvents(s, E) /\ UNCHANGED ctlVars
    BY <1>0, <1>3, SockFacts DEF callSetEvents, stay
  <2>2. UNCHANGED wheelVars /\ UNCHANGED <<owner, chfd>> /\ Clearing' = Clearing
    BY <2>1 DEF setEvents, ctlVars, Clearing
  <2> QED  BY <2>1, <2>2, SetEventsObj, KeepWheel, KeepCtl
<1> QED  BY <1>1, <1>2, <1>3 DEF Callback

LEMMA InitLoopInv == LoopInit => LoopInv
<1> SUFFICES ASSUME LoopInit PROVE LoopInv
  OBVIOUS
<1>1. ObjInv
  BY DEF LoopInit, ObjInv, ObjType, Agree, Opened, Closed, Kernel, Queued
<1>2. WheelType
  BY SlotFacts DEF LoopInit, WheelType, Slots
<1>3. Wheeled /\ Once /\ Timed /\ Aged
  BY DEF LoopInit, Wheeled, Once, Timed, Aged
<1>4. CtlInv
  BY DEF LoopInit, CtlInv, CtlType, Held, PhaseOK, Phases
<1> QED  BY <1>1, <1>2, <1>3, <1>4 DEF LoopInv, WheelInv

\* Every step of the loop, its timer and its callbacks keeps the inductive invariant.
LEMMA NextLoopInv == LoopInv /\ [LoopNext]_loopVars => LoopInv'
<1> SUFFICES ASSUME LoopInv, [LoopNext]_loopVars PROVE LoopInv'
  OBVIOUS
<1>1. CASE UNCHANGED loopVars
  <2>1. UNCHANGED objVars /\ UNCHANGED wheelVars /\ UNCHANGED ctlVars
    BY <1>1 DEF loopVars, objVars, wheelVars, ctlVars
  <2>2. Clearing' = Clearing /\ owner' = owner
    BY <1>1 DEF loopVars, Clearing
  <2> QED  BY <2>1, <2>2, KeepCtl, ControlStep DEF LoopInv
<1> QED  BY <1>1, WaitStep, DispatchStep, ReturnStep, TimerStep, CallbackStep DEF LoopNext

LEMMA LoopInvAlways == Loop => []LoopInv
BY InitLoopInv, NextLoopInv, PTL DEF Loop

-----------------------------------------------------------------------------

\* The state of the reactor keeps its type.
THEOREM LoopTypeCorrect == Loop => []TypeOK
<1>1. LoopInv => TypeOK
  BY DEF LoopInv, ObjInv, WheelInv, CtlInv, ObjType, WheelType, CtlType, TypeOK
<1> QED  BY <1>1, LoopInvAlways, PTL

\* Deferred deletion is memory safe: whatever callbacks close and register while a
\* batch is dispatched, nobody holds a Channel that was deleted.
THEOREM LoopNoDanglingChannel == Loop => []NoDanglingChannel
<1>1. LoopInv => NoDanglingChannel
  <2> SUFFICES ASSUME LoopInv PROVE NoDanglingChannel
    OBVIOUS
  <2>1. \A s \in Sock : channelptr[s] # NoChan => Allocated(channelptr[s])
    BY SockFacts DEF LoopInv, ObjInv, ObjType, Opened, Closed, Allocated
  <2>2. \A f \in Fd : epoll[f] # NoChan => Allocated(epoll[f])
    BY SockFacts DEF LoopInv, ObjInv, ObjType, Kernel, Agree, Allocated
  <2>3. \A i \in Slots : \A c \in wheel[i] : Allocated(c)
    BY SockFacts DEF LoopInv, WheelInv, Wheeled, Allocated
  <2> QED  BY <2>1, <2>2, <2>3 DEF LoopInv, CtlInv, Held, Allocated, NoDanglingChannel
<1> QED  BY <1>1, LoopInvAlways, PTL

\* Events reach the socket they are for, however descriptors and addresses are reused.
THEOREM LoopChannelMatchesSocket == Loop => []ChannelMatchesSocket
<1>1. LoopInv => ChannelMatchesSocket
  BY DEF LoopInv, ObjInv, Agree, Opened, ChannelMatchesSocket, validChannel, Allocated
<1> QED  BY <1>1, LoopInvAlways, PTL

\* The time wheel holds every open connection exactly once, and no other channel.
THEOREM LoopTimedOnce == Loop => []TimedOnce
<1>1. LoopInv => TimedOnce
  <2> SUFFICES ASSUME LoopInv, NEW c \in Chan
               PROVE  Cardinality({i \in Slots : c \in wheel[i]}) =
                        IF validChannel(c) /\ owner[c] \in Client THEN 1 ELSE 0
    BY DEF TimedOnce
  <2>1. CASE validChannel(c) /\ owner[c] \in Client
    <3>1. PICK i \in Slots : c \in wheel[i]
      BY <2>1 DEF LoopInv, WheelInv, Timed, validChannel
    <3>2. {j \in Slots : c \in wheel[j]} = {i}
      BY <3>1 DEF LoopInv, WheelInv, Once
    <3> QED  BY <2>1, <3>2, FS_Singleton
  <2>2. CASE ~(validChannel(c) /\ owner[c] \in Client)
    <3>1. {j \in Slots : c \in wheel[j]} = {}
      BY <2>2 DEF LoopInv, WheelInv, Wheeled, validChannel
    <3> QED  BY <2>2, <3>1, FS_EmptySet
  <2> QED  BY <2>1, <2>2
<1> QED  BY <1>1, LoopInvAlways, PTL

\* For any size of the wheel, a connection times out after exactly one full turn.
THEOREM LoopTimeoutAfterFullTurn == Loop => []TimeoutAfterFullTurn
<1>1. LoopInv => TimeoutAfterFullTurn
  <2> SUFFICES ASSUME LoopInv, NEW c \in Chan, validChannel(c)
               PROVE  IF phase \in {"clear", "timeout"} /\ c \in wheel[current]
                      THEN idle[c] = NodeNum ELSE idle[c] < NodeNum
    BY DEF TimeoutAfterFullTurn
  <2>1. current \in Slots
    BY DEF LoopInv, WheelInv, WheelType
  <2>2. CASE owner[c] \in Client
    <3>1. PICK i \in Slots : c \in wheel[i]
      BY <2>2 DEF LoopInv, WheelInv, Timed, validChannel
    <3>2. idle[c] = Age(i) /\ (c \in wheel[current] => i = current)
      BY <2>1, <3>1 DEF LoopInv, Aged, WheelInv, Once
    <3> QED  BY <2>1, <3>1, <3>2, SlotFacts DEF Age, Clearing
  <2>3. CASE owner[c] \notin Client
    <3>1. idle[c] = 0 /\ c \notin wheel[current]
      BY <2>1, <2>3 DEF LoopInv, Aged, WheelInv, Wheeled
    <3> QED  BY <3>1, SlotFacts
  <2> QED  BY <2>2, <2>3
<1> QED  BY <1>1, LoopInvAlways, PTL
\* Before the loop starts and whenever it waits no channel is queued for deletion.
NothingQueued == phase \in {"init", "wait"} => needDeleted = {}

LEMMA NextNothingQueued == NothingQueued /\ [LoopNext]_loopVars => NothingQueued'
<1> SUFFICES ASSUME NothingQueued, [LoopNext]_loopVars PROVE NothingQueued'
  OBVIOUS
<1> USE DEF NothingQueued
<1>1. CASE UNCHANGED loopVars
  BY <1>1 DEF loopVars
<1>2. CASE Wait
  BY <1>2 DEF Wait, addIntoFactory, loop, epollWait, epollError, registerChannel, objVars, ctlVars
<1>3. CASE Dispatch
  BY <1>3 DEF Dispatch, skipEntry, beginEntry, callStage, endEntry, endBatch,
              cleanNeedDeletedChannels, objVars
<1>4. CASE Return
  BY <1>4 DEF Return, callReturnContinue, returnContinue, returnBreak, returnDropWaited,
              cleanNeedDeletedChannels
<1>5. CASE Timer
  BY <1>5 DEF Timer, clockJump, beginTimeout, endTimeout, endClear
<1>6. CASE Callback
  BY <1>6 DEF Callback, callRegister, callClose, callSetEvents, stay, ctlVars
<1> QED  BY <1>1, <1>2, <1>3, <1>4, <1>5, <1>6 DEF LoopNext

\* No Channel leaks: whenever the loop waits, the channels in memory are those of the
\* open sockets, whatever closed the others (Queued says which the loop must delete).
THEOREM LoopNoChannelLeak == Loop => []NoChannelLeak
<1>1. LoopInit => NothingQueued
  BY DEF LoopInit, NothingQueued
<1>2. LoopInv /\ NothingQueued => NoChannelLeak
  BY DEF LoopInv, ObjInv, Queued, NothingQueued, NoChannelLeak, Allocated, validChannel
<1>3. Loop => []NothingQueued
  BY <1>1, LoopInvAlways, NextNothingQueued, PTL DEF Loop
<1> QED  BY <1>2, <1>3, LoopInvAlways, PTL
=============================================================================
