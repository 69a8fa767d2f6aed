-------------------------- MODULE HttpServerProofs --------------------------
(***************************************************************************)
(* Proofs about HttpServer: it refines the loop of EventsLoop, so all that *)
(* is proved there holds of it, and its connections are reused, accounted  *)
(* for, armed and dispatched correctly for any number of clients.          *)
(***************************************************************************)
EXTENDS HttpServer, EventsLoopProofs

ConnType ==
    /\ state \in [Client -> HttpState]
    /\ ssl \in SUBSET Client
    /\ readcb \in [Client -> Handlers \cup {"none"}]
    /\ writecb \in [Client -> Handlers \cup {"none"}]
    /\ created \in SUBSET Client
    /\ gc \in Seq(Client)
    /\ timedOut \in SUBSET Client
    /\ todo \in Handlers \cup Code \cup {"none", "accept", "listenError", "listenOn"}

\* The handler in hand is one of the socket it runs for, and a connection's handler
\* has an open connection until it decides what to return.
Called ==
    /\ phase # "callback" => todo = "none"
    /\ phase = "callback" => conn \in UserSock
    /\ phase = "callback" /\ todo \in {"accept", "listenError", "listenOn"} => conn \in Listener
    /\ phase = "callback" /\ todo \in Handlers =>
          conn \in Client /\ Open(conn) /\ channelptr[conn] = cnptr
    /\ phase = "timeout" => owner[tmo] \in Client

\* Only open connections have a TLS context, and a connection that was never used
\* starts at the first state.
Fresh == \A s \in Client : /\ s \in ssl => Open(s)
                           /\ s \notin created => state[s] = "TCP_INIT"

Armed == \A s \in Client : Open(s) =>
            \/ events[channelptr[s]] = {"IN"} /\ readcb[s] # "none"
            \/ events[channelptr[s]] = {"OUT"} /\ writecb[s] # "none"

\* What epoll_wait reported is for the entries still to look at, the stage in hand is not
\* followed by another IN, and the timer's entry by nothing.
Reported ==
    /\ \A c \in Chan : c \notin ready => mask[c] = {}
    /\ cnptr \notin ready
    /\ phase \in {"clear", "timeout"} => evs = {}
    /\ phase = "callback" /\ todo \in {"read", "write"} => "IN" \notin evs

\* An IN of connection s that is reported and not yet handled.
PendingIn(s) ==
    \/ channelptr[s] \in ready /\ "IN" \in mask[channelptr[s]]
    \/ phase \in {"dispatch", "callback"} /\ cnptr = channelptr[s] /\ "IN" \in evs

SendStates == {"SEND_RESPONSE", "SEND_RESPONSE_DONE"}
Sending(s) == state[s] \in SendStates

\* While a response is sent readHandle cannot be called: neither event has it as its
\* handler, or reading has, but it is not armed and no IN is on its way.
NoReadWhileSending == \A s \in Client : Open(s) /\ Sending(s) =>
    /\ writecb[s] # "read"
    /\ readcb[s] = "read" => "IN" \notin events[channelptr[s]] /\ ~PendingIn(s)

\* A connection whose write waits for IN has not asked for readHandle on OUT.
NotCrossed ==
    /\ \A s \in Client : Open(s) => ~(readcb[s] = "write" /\ writecb[s] = "read")
    /\ phase = "callback" /\ todo = "read" => readcb[conn] # "write" /\ ~Sending(conn)
    /\ phase = "callback" /\ todo = "write" => writecb[conn] # "read"

Wired == Armed /\ Reported /\ NoReadWhileSending /\ NotCrossed

-----------------------------------------------------------------------------
(* Every step of the server is a step of the loop or leaves it alone.       *)

LEMMA ArmFacts == /\ {"IN"} \in Arm /\ {"OUT"} \in Arm /\ \A e \in IO : {e} \in Arm
                  /\ "CONTINUE" \in Codes /\ "BREAK" \in Codes
BY HttpServerAssumption DEF IO

LEMMA WaitForLoop ==
    ASSUME phase = "callback", NEW s \in UserSock, NEW h, NEW e \in IO, waitFor(s, h, e)
    PROVE  LoopNext
<1>1. callSetEvents(s, {e})
  BY DEF waitFor, callSetEvents
<1> QED  BY <1>1, ArmFacts DEF Callback, LoopNext

LEMMA TcpCloseLoop ==
    ASSUME phase = "callback", NEW s \in UserSock, tcpClose(s), stay
    PROVE  LoopNext
<1>1. callClose(s)
  BY DEF callClose
<1> QED  BY <1>1 DEF Callback, LoopNext

LEMMA RegisterLoop ==
    ASSUME phase = "callback", NEW s \in UserSock, NEW f \in Fd, NEW c \in Chan,
           registerChannel(s, f, c, {"IN"}), stay
    PROVE  LoopNext
<1>1. callRegister(s, f, c, {"IN"})
  BY DEF callRegister
<1> QED  BY <1>1, ArmFacts DEF Callback, LoopNext

LEMMA CloseNowLoop ==
    ASSUME phase = "callback", NEW s \in UserSock, closeNow(s)
    PROVE  [LoopNext]_loopVars
<1>1. CASE Open(s)
  BY <1>1, TcpCloseLoop DEF closeNow
<1>2. CASE ~Open(s)
  BY <1>2 DEF closeNow, stay, objVars, wheelVars, ctlVars, loopVars
<1> QED  BY <1>1, <1>2

LEMMA CloseLaterLoop ==
    ASSUME phase = "callback", NEW s \in UserSock, closeLater(s)
    PROVE  LoopNext
BY WaitForLoop DEF closeLater

LEMMA ReadLoop == ASSUME Called, readHandle PROVE [LoopNext]_loopVars
<1>1. phase = "callback" /\ conn \in UserSock
  BY DEF Called, readHandle, tcpInit, handshake, handshakeDone, recvError, recvMore, badRequest,
         recvDone, respond, inCase
<1>2. "IN" \in IO /\ "OUT" \in IO
  BY DEF IO
<1>3. CASE tcpInit \/ handshakeDone \/ recvDone
  BY <1>3 DEF tcpInit, handshakeDone, recvDone, noCall
<1>4. CASE handshake
  BY <1>1, <1>2, <1>4, WaitForLoop, TcpCloseLoop DEF handshake
<1>5. CASE recvError
  BY <1>1, <1>5, WaitForLoop, CloseNowLoop, CloseLaterLoop DEF recvError
<1>6. CASE recvMore
  BY <1>1, <1>2, <1>6, WaitForLoop DEF recvMore, noCall
<1>7. CASE badRequest \/ respond
  BY <1>1, <1>2, <1>7, WaitForLoop DEF badRequest, respond
<1> QED  BY <1>3, <1>4, <1>5, <1>6, <1>7 DEF readHandle

LEMMA WriteLoop == ASSUME Called, writeHandle PROVE [LoopNext]_loopVars
<1>1. phase = "callback" /\ conn \in UserSock
  BY DEF Called, writeHandle, sendError, sendMore, keepAlive, sendDone, inWrite
<1>2. "IN" \in IO
  BY DEF IO
<1>3. CASE sendError
  BY <1>1, <1>3, WaitForLoop, CloseNowLoop, CloseLaterLoop DEF sendError
<1>4. CASE sendMore
  BY <1>4 DEF sendMore, noCall
<1>5. CASE keepAlive
  BY <1>1, <1>2, <1>5, WaitForLoop DEF keepAlive
<1>6. CASE sendDone
  BY <1>1, <1>6, CloseNowLoop, CloseLaterLoop DEF sendDone
<1> QED  BY <1>3, <1>4, <1>5, <1>6 DEF writeHandle

LEMMA AcceptLoop == ASSUME Called, Accept PROVE [LoopNext]_loopVars
<1>1. ASSUME NEW s \in Client, NEW f \in Fd, NEW c \in Chan, acceptOne(s, f, c)
      PROVE  LoopNext
  BY <1>1, RegisterLoop DEF acceptOne, UserSock
<1>2. ASSUME NEW s \in Client, acceptNone(s) PROVE UNCHANGED loopVars
  BY <1>2 DEF acceptNone, noCall
<1>3. CASE listenerClose
  BY <1>3, TcpCloseLoop DEF listenerClose, Called
<1>4. ASSUME NEW f \in Fd, NEW c \in Chan, listenOn(f, c) PROVE LoopNext
  BY <1>4, RegisterLoop DEF listenOn, Called
<1> QED  BY <1>1, <1>2, <1>3, <1>4 DEF Accept

LEMMA HttpLoop == ASSUME Called, HttpNext PROVE [LoopNext]_loopVars
<1>1. CASE loopStep
  BY <1>1 DEF loopStep, LoopNext, Dispatch, Timer
<1>2. CASE callHandler
  BY <1>2 DEF callHandler, LoopNext, Dispatch
<1>3. CASE handlerReturns
  BY <1>3, ArmFacts DEF handlerReturns, LoopNext, Return
<1>4. CASE closeHandle
  <2>1. phase = "callback" /\ conn \in UserSock
    BY <1>4 DEF closeHandle, Called
  <2> QED  BY <1>4, <2>1, CloseNowLoop, CloseLaterLoop DEF closeHandle
<1>5. CASE timeoutHandle
  BY <1>5 DEF timeoutHandle, LoopNext, Timer
<1> QED  BY <1>1, <1>2, <1>3, <1>4, <1>5, ReadLoop, WriteLoop, AcceptLoop DEF HttpNext, Handler
-----------------------------------------------------------------------------
(* What the calls of the loop do to a connection.                           *)

LEMMA OpenFacts ==
    ASSUME ObjInv, NEW s \in Sock
    PROVE  /\ Open(s) => /\ channelptr[s] \in Chan /\ owner[channelptr[s]] = s
                         /\ chfd[channelptr[s]] # NoFd
           /\ ~Open(s) => channelptr[s] = NoChan
BY SockFacts DEF ObjInv, ObjType, Opened, Closed, Open

\* Socket t is as before, for what its connection sees of it.
Same(t) == /\ sockfd'[t] = sockfd[t] /\ channelptr'[t] = channelptr[t]
           /\ sockfd[t] # NoFd => events'[channelptr[t]] = events[channelptr[t]]

LEMMA CloseEffect ==
    ASSUME ObjInv, NEW s \in Sock, tcpClose(s)
    PROVE  /\ Open(s) /\ ~Open(s)' /\ channelptr'[s] = NoChan
           /\ \A t \in Sock \ {s} : Same(t)
           /\ owner' = owner
<1>1. Open(s) /\ channelptr[s] \in Chan /\ owner[channelptr[s]] = s
  BY OpenFacts DEF tcpClose, Open
<1>2. \A t \in Sock \ {s} : sockfd[t] # NoFd => channelptr[t] # channelptr[s]
  BY <1>1, OpenFacts DEF Open
<1> QED  BY <1>1, <1>2 DEF tcpClose, ObjInv, ObjType, Same, Open

LEMMA SetEffect ==
    ASSUME ObjInv, NEW s \in Sock, NEW E, setEvents(s, E)
    PROVE  /\ Open(s) /\ events'[channelptr[s]] = E
           /\ \A t \in Sock \ {s} : Same(t)
           /\ UNCHANGED <<sockfd, channelptr, owner>>
<1>1. Open(s) /\ channelptr[s] \in Chan /\ owner[channelptr[s]] = s
  BY OpenFacts DEF setEvents, Open
<1>2. \A t \in Sock \ {s} : sockfd[t] # NoFd => channelptr[t] # channelptr[s]
  BY <1>1, OpenFacts DEF Open
<1> QED  BY <1>1, <1>2 DEF setEvents, ObjInv, ObjType, Same, Open

LEMMA RegisterEffect ==
    ASSUME ObjInv, NEW s \in Sock, NEW f \in Fd, NEW c \in Chan, NEW E, registerChannel(s, f, c, E)
    PROVE  /\ ~Open(s) /\ Open(s)' /\ channelptr'[s] = c /\ events'[c] = E
           /\ owner[c] = NoSock /\ \A x \in Chan \ {c} : owner'[x] = owner[x]
           /\ \A t \in Sock \ {s} : Same(t)
<1>1. ~Open(s) /\ owner[c] = NoSock
  BY DEF registerChannel, Open, FreeChan, Allocated
<1>2. \A t \in Sock : sockfd[t] # NoFd => channelptr[t] # c
  BY <1>1, OpenFacts, SockFacts DEF Open
<1> QED  BY <1>1, <1>2, SockFacts DEF registerChannel, ObjInv, ObjType, Same, Open

LEMMA ObjSame == ASSUME UNCHANGED objVars PROVE \A t : Same(t)
BY DEF objVars, Same

LEMMA CleanSame == ASSUME cleanNeedDeletedChannels PROVE \A t : Same(t)
BY DEF cleanNeedDeletedChannels, Same

\* The loop's own steps open and close no connection and arm none.
LEMMA LoopStepSame == ASSUME ObjInv, loopStep PROVE \A t \in Client : Same(t)
<1>0. \A t \in Client : t \in Sock /\ t # TimerFd /\ t \notin Listener
  BY EventsLoopAssumption DEF Sock
<1>1. ASSUME NEW l \in Listener, NEW f \in Fd, NEW c \in Chan, addIntoFactory(l, f, c)
      PROVE  \A t \in Client : Same(t)
  BY <1>0, <1>1, RegisterEffect, SockFacts DEF addIntoFactory
<1>2. ASSUME NEW f \in Fd, NEW c \in Chan, loop(f, c) PROVE \A t \in Client : Same(t)
  BY <1>0, <1>2, RegisterEffect, SockFacts DEF loop
<1>3. CASE endBatch
  BY <1>3, CleanSame DEF endBatch
<1>4. CASE endEntry \/ clockJump \/ endClear \/ epollError
  BY <1>4, ObjSame DEF endEntry, clockJump, endClear, epollError
<1>5. ASSUME NEW R, epollWait(R) PROVE \A t \in Client : Same(t)
  BY <1>5, ObjSame DEF epollWait
<1>6. ASSUME NEW c, NEW E, skipEntry(c) \/ beginTimeout(c) \/ beginEntry(c, E)
      PROVE  \A t \in Client : Same(t)
  BY <1>6, ObjSame DEF skipEntry, beginTimeout, beginEntry
<1> QED  BY <1>1, <1>2, <1>3, <1>4, <1>5, <1>6 DEF loopStep, Wait

-----------------------------------------------------------------------------
(* The reuse queue.                                                         *)

Distinct(q) == \A i, j \in DOMAIN q : q[i] = q[j] => i = j
Members(q) == {q[i] : i \in DOMAIN q}

LEMMA Pushed ==
    ASSUME NEW S, NEW q \in Seq(S), NEW s \in S, Distinct(q), s \notin Members(q)
    PROVE  /\ Append(q, s) \in Seq(S) /\ Distinct(Append(q, s))
           /\ Members(Append(q, s)) = Members(q) \cup {s}
<1>1. /\ Append(q, s) \in Seq(S) /\ DOMAIN q = 1 .. Len(q) /\ Len(q) \in Nat
      /\ DOMAIN Append(q, s) = 1 .. Len(q) + 1
      /\ Append(q, s)[Len(q) + 1] = s /\ \A i \in 1 .. Len(q) : Append(q, s)[i] = q[i]
  OBVIOUS
<1> QED  BY <1>1 DEF Distinct, Members

LEMMA Popped ==
    ASSUME NEW S, NEW q \in Seq(S), q # <<>>, Distinct(q)
    PROVE  /\ Head(q) \in S /\ Head(q) \in Members(q)
           /\ Tail(q) \in Seq(S) /\ Distinct(Tail(q))
           /\ Members(Tail(q)) = Members(q) \ {Head(q)}
<1>1. /\ Tail(q) \in Seq(S) /\ DOMAIN q = 1 .. Len(q) /\ Len(q) \in Nat \ {0}
      /\ DOMAIN Tail(q) = 1 .. Len(q) - 1 /\ Head(q) = q[1] /\ q[1] \in S
      /\ \A i \in 1 .. Len(q) - 1 : Tail(q)[i] = q[i + 1]
  OBVIOUS
<1>2. Distinct(Tail(q)) /\ Head(q) \in Members(q)
  BY <1>1 DEF Distinct, Members
<1>3. Members(Tail(q)) \subseteq Members(q) \ {Head(q)}
  BY <1>1 DEF Distinct, Members
<1>4. ASSUME NEW i \in 2 .. Len(q) PROVE q[i] \in Members(Tail(q))
  <2>1. i - 1 \in 1 .. Len(q) - 1 /\ Tail(q)[i - 1] = q[i]
    BY <1>1
  <2> QED  BY <1>1, <2>1 DEF Members
<1>5. Members(q) \ {Head(q)} \subseteq Members(Tail(q))
  BY <1>1, <1>4 DEF Members
<1> QED  BY <1>1, <1>2, <1>3, <1>5

\* ReuseQueueSound, ConnectionsAccounted and Fresh in the words of the lemmas above.
Books ==
    /\ Distinct(gc)
    /\ \A s \in Client :
         /\ s \in Members(gc) => /\ sockfd[s] = NoFd /\ channelptr[s] = NoChan
                                 /\ s \notin ssl /\ state[s] = "TCP_INIT" /\ s \notin timedOut
         /\ s \in timedOut => sockfd[s] = NoFd
         /\ s \in created <=> sockfd[s] # NoFd \/ s \in Members(gc) \/ s \in timedOut
         /\ s \in ssl => sockfd[s] # NoFd
         /\ s \notin created => state[s] = "TCP_INIT"

LEMMA BooksMean ==
    ASSUME ConnType
    PROVE  Books <=> ReuseQueueSound /\ ConnectionsAccounted /\ Fresh
<1>1. Members(gc) \subseteq Client /\ created \subseteq Client /\ timedOut \subseteq Client
  BY DEF ConnType, Members
<1>2. Recycled = Members(gc)
  BY DEF Recycled, Members
<1>3. ConnectionsAccounted <=>
        \A s \in Client : /\ s \in created <=> sockfd[s] # NoFd \/ s \in Members(gc) \/ s \in timedOut
                          /\ sockfd[s] # NoFd => s \notin Members(gc) /\ s \notin timedOut
                          /\ ~(s \in Members(gc) /\ s \in timedOut)
  BY <1>1, <1>2 DEF ConnectionsAccounted, Open
<1> QED  BY <1>1, <1>2, <1>3 DEF Books, ReuseQueueSound, QueuedOnce, Fresh, Distinct, Open

\* A step that closes and opens none and changes open connections alone.
LEMMA BooksKept ==
    ASSUME Books, UNCHANGED <<gc, created, timedOut>>, ConnType,
           \A t \in Client : sockfd'[t] = sockfd[t] /\ channelptr'[t] = channelptr[t],
           \A t \in Client : sockfd[t] = NoFd => state'[t] = state[t] /\ (t \in ssl' => t \in ssl)
    PROVE  Books'
<1>1. \A t \in Client : Open(t)' <=> Open(t)
  BY DEF Open
<1>2. Members(gc) \subseteq Client
  BY DEF ConnType, Members
<1>3. Members(gc)' = Members(gc) /\ Distinct(gc)' = Distinct(gc)
  BY DEF Members, Distinct
<1> QED  BY <1>1, <1>2, <1>3 DEF Books, Open

\* closeHandle of an open connection.
LEMMA BooksRecycled ==
    ASSUME Books, ObjInv, ConnType, NEW s \in Client, tcpClose(s), recycle(s), ssl' = ssl \ {s},
           UNCHANGED <<created, timedOut>>
    PROVE  Books'
<1>1. s \in Sock /\ \A t \in Client : t \in Sock
  BY SockFacts
<1>2. /\ Open(s) /\ ~Open(s)' /\ channelptr'[s] = NoChan
      /\ \A t \in Client \ {s} : (Open(t)' <=> Open(t)) /\ channelptr'[t] = channelptr[t]
  BY <1>1, CloseEffect DEF Same, Open
<1>3. s \notin Members(gc) /\ s \notin timedOut /\ Distinct(gc) /\ s \in created
  BY <1>2 DEF Books, Open
<1>4. gc \in Seq(Client) /\ gc' = Append(gc, s) /\ Members(gc) \subseteq Client
  BY DEF ConnType, recycle, Members
<1>5. Distinct(gc)' /\ Members(gc)' = Members(gc) \cup {s}
  BY <1>3, <1>4, Pushed DEF Distinct, Members
<1>6. state'[s] = "TCP_INIT" /\ \A t \in Client \ {s} : state'[t] = state[t]
  BY DEF recycle, ConnType
<1> QED  BY <1>2, <1>3, <1>4, <1>5, <1>6 DEF Books, Open

\* timeoutHandle.
LEMMA BooksTimedOut ==
    ASSUME Books, ObjInv, ConnType, NEW s \in Client, tcpClose(s), timedOut' = timedOut \cup {s},
           ssl' = ssl \ {s}, UNCHANGED <<created, gc, state>>
    PROVE  Books'
<1>1. s \in Sock /\ \A t \in Client : t \in Sock
  BY SockFacts
<1>2. /\ Open(s) /\ ~Open(s)'
      /\ \A t \in Client \ {s} : (Open(t)' <=> Open(t)) /\ channelptr'[t] = channelptr[t]
  BY <1>1, CloseEffect DEF Same, Open
<1>3. s \notin Members(gc) /\ Members(gc) \subseteq Client
  BY <1>2 DEF Books, Open, ConnType, Members
<1>4. Members(gc)' = Members(gc) /\ Distinct(gc)' = Distinct(gc)
  BY DEF Members, Distinct
<1> QED  BY <1>2, <1>3, <1>4 DEF Books, Open

\* The connection createConnection returns is closed and at its start.
LEMMA Created ==
    ASSUME Books, ConnType, NEW s \in Client, createConnection(s)
    PROVE  /\ ~Open(s) /\ s \notin ssl /\ s \notin timedOut /\ state[s] = "TCP_INIT"
           /\ gcPopped \in Seq(Client) /\ Distinct(gcPopped) /\ Members(gcPopped) = Members(gc) \ {s}
<1>1. gc \in Seq(Client) /\ Distinct(gc)
  BY DEF Books, ConnType
<1>2. CASE gc # <<>>
  <2>1. s = Head(gc) /\ gcPopped = Tail(gc)
    BY <1>2 DEF createConnection, gcPopped
  <2> QED  BY <1>1, <1>2, <2>1, Popped DEF Books, Open
<1>3. CASE gc = <<>>
  <2>1. s \notin created /\ gcPopped = gc
    BY <1>3 DEF createConnection, gcPopped
  <2> QED  BY <1>1, <2>1 DEF Books, Open
<1> QED  BY <1>2, <1>3

LEMMA BooksAccepted ==
    ASSUME Books, ObjInv, ConnType, NEW s \in Client, NEW f \in Fd, NEW c \in Chan, acceptOne(s, f, c)
    PROVE  Books'
<1>1. s \in Sock /\ \A t \in Client : t \in Sock
  BY SockFacts
<1>2. /\ registerChannel(s, f, c, {"IN"}) /\ createConnection(s) /\ created' = created \cup {s}
      /\ gc' = gcPopped /\ UNCHANGED <<state, ssl, timedOut>>
  BY DEF acceptOne
<1>3. /\ Open(s)'
      /\ \A t \in Client \ {s} : (Open(t)' <=> Open(t)) /\ channelptr'[t] = channelptr[t]
  BY <1>1, <1>2, RegisterEffect DEF Same, Open
<1>4. Distinct(gc)' /\ Members(gc)' = Members(gc) \ {s}
  <2>1. Distinct(gc)' = Distinct(gcPopped) /\ Members(gc)' = Members(gcPopped)
    BY <1>2 DEF Distinct, Members
  <2> QED  BY <1>2, <2>1, Created
<1>5. Members(gc) \subseteq Client
  BY DEF ConnType, Members
<1> QED  BY <1>2, <1>3, <1>4, <1>5, Created DEF Books, Open

LEMMA BooksRefused ==
    ASSUME Books, ObjInv, ConnType, NEW s \in Client, acceptNone(s)
    PROVE  Books'
<1>1. /\ createConnection(s) /\ created' = created \cup {s} /\ gc' = Append(gcPopped, s)
      /\ state' = [state EXCEPT ![s] = "TCP_INIT"] /\ UNCHANGED <<ssl, timedOut, sockfd, channelptr>>
  BY DEF acceptNone, noCall, loopVars
<1>2. \A t \in Client : Open(t)' <=> Open(t)
  BY <1>1 DEF Open
<1>3. Distinct(gc)' /\ Members(gc)' = Members(gc) \cup {s}
  <2>1. /\ Distinct(gc)' = Distinct(Append(gcPopped, s))
        /\ Members(gc)' = Members(Append(gcPopped, s))
    BY <1>1 DEF Distinct, Members
  <2>2. gcPopped \in Seq(Client) /\ Distinct(gcPopped) /\ Members(gcPopped) = Members(gc) \ {s}
    BY <1>1, Created
  <2>3. Distinct(Append(gcPopped, s)) /\ Members(Append(gcPopped, s)) = Members(gcPopped) \cup {s}
    BY <2>2, Pushed
  <2> QED  BY <2>1, <2>2, <2>3
<1>4. Members(gc) \subseteq Client
  BY DEF ConnType, Members
<1>5. state'[s] = "TCP_INIT" /\ \A t \in Client \ {s} : state'[t] = state[t]
  BY <1>1 DEF ConnType
<1>6. channelptr[s] = NoChan
  BY <1>1, Created, OpenFacts, SockFacts
<1> QED  BY <1>1, <1>2, <1>3, <1>4, <1>5, <1>6, Created DEF Books, Open
-----------------------------------------------------------------------------
(* The handlers and the events they are installed for.                      *)

HttpInv == LoopInv /\ ConnType /\ Called /\ Books /\ Wired

\* A step of the handler in hand changes its own connection s only, leaves it armed
\* for what it waits for or closed, and goes on in readHandle or decides on a code.
LEMMA HandlerWired ==
    ASSUME HttpInv, NEW s \in Client, s = conn, phase = "callback", todo \in Handlers,
           UNCHANGED ctlVars, owner' = owner,
           \A t \in Client \ {s} : /\ Same(t) /\ readcb'[t] = readcb[t]
                                   /\ writecb'[t] = writecb[t] /\ state'[t] = state[t],
           sockfd'[s] # NoFd =>
             /\ channelptr'[s] = channelptr[s]
             /\ \/ events'[cnptr] = {"IN"} /\ readcb'[s] # "none"
                \/ events'[cnptr] = {"OUT"} /\ writecb'[s] # "none"
             /\ ~(readcb'[s] = "write" /\ writecb'[s] = "read")
             /\ state'[s] \in SendStates => /\ writecb'[s] # "read"
                                            /\ readcb'[s] = "read" => "IN" \notin events'[cnptr] /\ "IN" \notin evs,
           \/ todo' \in Code
           \/ /\ todo = "read" /\ todo' = "read" /\ sockfd'[s] # NoFd
              /\ readcb'[s] # "write" /\ state'[s] \notin SendStates
    PROVE  Called' /\ Wired'
<1>1. /\ Open(s) /\ channelptr[s] = cnptr /\ cnptr \in Chan /\ owner[cnptr] = s
      /\ conn' = conn /\ s \in Sock
  BY OpenFacts, SockFacts DEF HttpInv, LoopInv, Called, conn, ctlVars
<1>2. UNCHANGED <<phase, ready, mask, cnptr, evs, tmo>>
  BY DEF ctlVars
<1>3. Called'
  BY <1>1, <1>2 DEF HttpInv, Called, Handlers, Code, Open, UserSock, conn
<1>4. Armed'
  BY <1>1 DEF HttpInv, Wired, Armed, Same, Open
<1>5. Reported'
  BY <1>2 DEF HttpInv, Wired, Reported, Code
<1>6. \A t \in Client \ {s} : sockfd[t] # NoFd => PendingIn(t)' = PendingIn(t)
  BY <1>2 DEF PendingIn, Same
<1>7. "IN" \notin evs /\ sockfd'[s] # NoFd => ~PendingIn(s)'
  BY <1>1, <1>2 DEF PendingIn, HttpInv, Wired, Reported
<1>8. NoReadWhileSending'
  BY <1>1, <1>6, <1>7 DEF HttpInv, Wired, NoReadWhileSending, Same, Open, Sending
<1>9. NotCrossed'
  BY <1>1, <1>2 DEF HttpInv, Wired, NotCrossed, Same, Open, Sending, Code
<1> QED  BY <1>3, <1>4, <1>5, <1>8, <1>9 DEF Wired

\* What a step does not touch stays wired: the connections are as before and no IN is
\* on its way that was not before and was not armed.
LEMMA KeepWired ==
    ASSUME HttpInv, UNCHANGED <<state, readcb, writecb>>,
           \A t \in Client : sockfd'[t] # NoFd =>
               Same(t) /\ (PendingIn(t)' => PendingIn(t) \/ "IN" \in events[channelptr[t]]),
           Reported', NotCrossed'
    PROVE  Wired'
<1>1. Armed'
  BY DEF HttpInv, Wired, Armed, Same, Open
<1>2. NoReadWhileSending'
  BY DEF HttpInv, Wired, NoReadWhileSending, Same, Open, Sending
<1> QED  BY <1>1, <1>2 DEF Wired

ConnInv == ConnType /\ Called /\ Books /\ Wired

\* The connection whose handler runs.
LEMMA InHand ==
    ASSUME HttpInv, phase = "callback", todo \in Handlers
    PROVE  /\ conn \in Client /\ conn \in Sock /\ conn \in UserSock /\ Open(conn)
           /\ channelptr[conn] = cnptr /\ cnptr \in Chan /\ owner[cnptr] = conn
           /\ todo = "read" => /\ readcb[conn] # "write" /\ ~Sending(conn)
           /\ todo = "write" => writecb[conn] # "read"
           /\ todo \in {"read", "write"} \/ (Sending(conn) /\ readcb[conn] = "read") => "IN" \notin evs
<1>1. /\ conn \in Client /\ conn \in Sock /\ conn \in UserSock /\ Open(conn)
      /\ channelptr[conn] = cnptr /\ cnptr \in Chan /\ owner[cnptr] = conn
  BY OpenFacts, SockFacts DEF HttpInv, LoopInv, Called, UserSock
<1>2. PendingIn(conn) <=> "IN" \in evs
  BY <1>1 DEF PendingIn, HttpInv, Wired, Reported
<1> QED  BY <1>1, <1>2 DEF HttpInv, Wired, Reported, NotCrossed, NoReadWhileSending

LEMMA WaitForStep ==
    ASSUME HttpInv, phase = "callback", todo \in Handlers, NEW h \in Handlers, NEW e \in IO,
           waitFor(conn, h, e), UNCHANGED <<created, gc, timedOut, ssl>>,
           NEW x \in HttpState, state' = [state EXCEPT ![conn] = x],
           \/ todo' \in Code
           \/ todo = "read" /\ todo' = "read" /\ h = "read" /\ e = "IN",
           h = "read" => todo \in {"read", "write"} /\ x \notin SendStates,
           h = "read" /\ e = "OUT" => todo = "read",
           h = "write" /\ e = "IN" => todo = "write",
           x \in SendStates => Sending(conn) \/ todo = "write" \/ (todo = "read" /\ e = "OUT")
    PROVE  ConnInv'
<1> DEFINE s == conn
<1>1. /\ s \in Client /\ s \in Sock /\ Open(s) /\ channelptr[s] = cnptr /\ cnptr \in Chan
      /\ todo = "read" => readcb[s] # "write" /\ ~Sending(s)
      /\ todo = "write" => writecb[s] # "read"
      /\ todo \in {"read", "write"} \/ (Sending(s) /\ readcb[s] = "read") => "IN" \notin evs
  BY InHand
<1>2. setEvents(s, {e}) /\ UNCHANGED ctlVars
  BY DEF waitFor, stay
<1>3. /\ events'[channelptr[s]] = {e} /\ \A t \in Sock \ {s} : Same(t)
      /\ UNCHANGED <<sockfd, channelptr, owner>>
  BY <1>1, <1>2, SetEffect DEF HttpInv, LoopInv
<1>4. /\ readcb'[s] = (IF e = "IN" THEN h ELSE readcb[s])
      /\ writecb'[s] = (IF e = "OUT" THEN h ELSE writecb[s]) /\ state'[s] = x
      /\ \A t \in Client \ {s} : /\ readcb'[t] = readcb[t] /\ writecb'[t] = writecb[t]
                                 /\ state'[t] = state[t]
  BY <1>1 DEF waitFor, HttpInv, ConnType
<1>5. ConnType'
  BY DEF waitFor, HttpInv, ConnType
<1>6. Books'
  BY <1>1, <1>3, <1>4, BooksKept DEF HttpInv, Open
<1>7. e = "IN" \/ e = "OUT"
  BY DEF IO
<1>8. h \in {"read", "write", "close"} /\ Sock \subseteq Sock /\ Client \subseteq Sock
  BY SockFacts DEF Handlers
<1>9. ~(readcb[s] = "write" /\ writecb[s] = "read") /\ (Sending(s) => writecb[s] # "read")
  BY <1>1 DEF HttpInv, Wired, NotCrossed, NoReadWhileSending
<1>10. x \in SendStates => writecb'[s] # "read"
  BY <1>1, <1>4, <1>7, <1>8, <1>9
<1>11. x \in SendStates /\ readcb'[s] = "read" => "IN" \notin events'[cnptr] /\ "IN" \notin evs
  BY <1>1, <1>3, <1>4, <1>7
<1>12. ~(readcb'[s] = "write" /\ writecb'[s] = "read")
  BY <1>1, <1>4, <1>7, <1>9
<1>13. \/ events'[cnptr] = {"IN"} /\ readcb'[s] # "none"
       \/ events'[cnptr] = {"OUT"} /\ writecb'[s] # "none"
  BY <1>1, <1>3, <1>4, <1>7, <1>8
<1>14. todo' \in Code \/ (todo = "read" /\ todo' = "read" /\ readcb'[s] # "write" /\ x \notin SendStates)
  BY <1>4
<1>15. Called' /\ Wired'
  <2> HIDE DEF s
  <2>1. s = conn
    BY DEF s
  <2> QED  BY <2>1, <1>1, <1>2, <1>3, <1>4, <1>8, <1>10, <1>11, <1>12, <1>13, <1>14, HandlerWired DEF Open
<1> QED  BY <1>5, <1>6, <1>15 DEF ConnInv

LEMMA CloseLaterStep ==
    ASSUME HttpInv, phase = "callback", todo \in Handlers, closeLater(conn),
           state' = state \/ (todo = "write" /\ state' = [state EXCEPT ![conn] = "SEND_RESPONSE_DONE"])
    PROVE  ConnInv'
<1>1. PICK e \in IO : waitFor(conn, "close", e)
  BY DEF closeLater
<1>2. UNCHANGED <<created, gc, timedOut, ssl>> /\ todo' = "CONTINUE"
  BY DEF closeLater
<1>3. PICK x \in HttpState : /\ state' = [state EXCEPT ![conn] = x]
                             /\ x \in SendStates => Sending(conn) \/ todo = "write"
  <2>1. state \in [Client -> HttpState] /\ conn \in Client
    BY InHand DEF HttpInv, ConnType
  <2>2. CASE state' = state
    <3>1. state[conn] \in HttpState /\ state' = [state EXCEPT ![conn] = state[conn]]
      BY <2>1, <2>2
    <3> QED  BY <3>1 DEF Sending
  <2>3. CASE state' # state
    BY <2>3 DEF HttpState
  <2> QED  BY <2>2, <2>3
<1>4. "close" \in Handlers /\ todo' \in Code
  BY <1>2 DEF Handlers, Code
<1> QED  BY <1>1, <1>2, <1>3, <1>4, WaitForStep

LEMMA CloseStepConn ==
    ASSUME HttpInv, phase = "callback", todo \in Handlers, tcpClose(conn), stay, recycle(conn),
           ssl' = ssl \ {conn}, todo' \in Code, UNCHANGED <<readcb, writecb, created, timedOut>>
    PROVE  ConnInv'
<1>1. conn \in Client /\ conn \in Sock /\ Open(conn) /\ channelptr[conn] = cnptr
  BY InHand
<1>2. /\ sockfd'[conn] = NoFd /\ owner' = owner /\ \A t \in Sock \ {conn} : Same(t)
  BY <1>1, CloseEffect DEF HttpInv, LoopInv, tcpClose, ObjInv, ObjType
<1>3. state' \in [Client -> HttpState] /\ gc' \in Seq(Client)
      /\ \A t \in Client \ {conn} : state'[t] = state[t]
  BY <1>1 DEF recycle, HttpInv, ConnType, HttpState
<1>4. ConnType'
  BY <1>3 DEF HttpInv, ConnType
<1>5. Books'
  BY <1>1, BooksRecycled DEF HttpInv, LoopInv
<1>6. UNCHANGED ctlVars /\ \A t \in Client \ {conn} : Same(t)
  BY <1>2, SockFacts DEF stay
<1>7. Called' /\ Wired'
  BY <1>1, <1>2, <1>3, <1>6, HandlerWired
<1> QED  BY <1>4, <1>5, <1>7 DEF ConnInv

LEMMA CloseNowStep ==
    ASSUME HttpInv, phase = "callback", todo \in Handlers, closeNow(conn)
    PROVE  ConnInv'
<1>1. Open(conn)
  BY InHand
<1> QED  BY <1>1, CloseStepConn DEF closeNow, Code

\* A step of a handler that calls nothing of the loop: it moves its connection to state x.
LEMMA NoCallStep ==
    ASSUME HttpInv, phase = "callback", todo \in {"read", "write"}, noCall,
           UNCHANGED <<readcb, writecb, created, gc, timedOut>>,
           NEW x \in HttpState, state' = [state EXCEPT ![conn] = x],
           x \in SendStates => state[conn] = x,
           ssl' \in SUBSET Client, \A t \in Client \ {conn} : t \in ssl' => t \in ssl,
           todo' \in Code \/ (todo = "read" /\ todo' = "read")
    PROVE  ConnInv'
<1>1. /\ conn \in Client /\ Open(conn) /\ channelptr[conn] = cnptr
      /\ todo = "read" => readcb[conn] # "write" /\ ~Sending(conn)
      /\ "IN" \notin evs
  BY InHand DEF Handlers
<1>2. /\ UNCHANGED ctlVars /\ UNCHANGED <<owner, sockfd, channelptr, events>>
      /\ \A t \in Client : Same(t)
  BY DEF noCall, loopVars, ctlVars, Same
<1>3. ConnType'
  BY DEF HttpInv, ConnType, Handlers, Code
<1>4. state'[conn] = x /\ \A t \in Client \ {conn} : state'[t] = state[t]
  BY <1>1 DEF HttpInv, ConnType
<1>5. Books'
  BY <1>1, <1>2, <1>4, BooksKept DEF HttpInv, Open
<1>6. /\ \/ events[cnptr] = {"IN"} /\ readcb[conn] # "none"
         \/ events[cnptr] = {"OUT"} /\ writecb[conn] # "none"
      /\ ~(readcb[conn] = "write" /\ writecb[conn] = "read")
      /\ Sending(conn) => /\ writecb[conn] # "read"
                          /\ readcb[conn] = "read" => "IN" \notin events[cnptr]
  BY <1>1 DEF HttpInv, Wired, Armed, NotCrossed, NoReadWhileSending
<1>7. x \in SendStates => Sending(conn)
  BY DEF Sending
<1>8. todo \in Handlers
  BY DEF Handlers
<1>9. Called' /\ Wired'
  BY <1>1, <1>2, <1>4, <1>6, <1>7, <1>8, HandlerWired DEF Open
<1> QED  BY <1>3, <1>5, <1>9 DEF ConnInv
-----------------------------------------------------------------------------
(* The actions.                                                             *)

LEMMA ReadStep == ASSUME HttpInv, readHandle PROVE ConnInv'
<1>1. phase = "callback" /\ todo = "read"
  BY DEF readHandle, tcpInit, handshake, handshakeDone, recvError, recvMore, badRequest,
         recvDone, respond, inCase
<1>2. /\ todo \in Handlers /\ "read" \in Handlers /\ "write" \in Handlers
      /\ "IN" \in IO /\ "OUT" \in IO /\ "CONTINUE" \in Code /\ "BREAK" \in Code
  BY <1>1 DEF Handlers, IO, Code
<1>3. /\ conn \in Client /\ Open(conn) /\ ~Sending(conn) /\ state[conn] \in HttpState
      /\ state = [state EXCEPT ![conn] = state[conn]] /\ ssl \in SUBSET Client
  BY <1>1, <1>2, InHand DEF HttpInv, ConnType
<1>4. /\ \A x \in {"RECV_REQUEST", "HTTPS_HANDSHAKE", "HTTPS_HANDSHAKE_DONE", "RECV_REQUEST_DONE"} :
             x \in HttpState /\ x \notin SendStates
      /\ "SEND_RESPONSE" \in HttpState /\ state[conn] \notin SendStates
  BY <1>3 DEF HttpState, SendStates, Sending
<1>5. CASE tcpInit
  <2>1. PICK x \in {"RECV_REQUEST", "HTTPS_HANDSHAKE"} : state' = [state EXCEPT ![conn] = x]
    BY <1>5 DEF tcpInit
  <2>2. ssl' \in SUBSET Client /\ \A t \in Client \ {conn} : t \in ssl' => t \in ssl
    BY <1>3, <1>5 DEF tcpInit
  <2> QED  BY <1>1, <1>4, <1>5, <2>1, <2>2, NoCallStep DEF tcpInit
<1>6. CASE handshakeDone
  BY <1>1, <1>3, <1>4, <1>6, NoCallStep DEF handshakeDone
<1>7. CASE recvDone
  BY <1>1, <1>3, <1>4, <1>7, NoCallStep DEF recvDone
<1>8. CASE handshake
  <2>1. CASE waitFor(conn, "read", "IN") /\ state' = [state EXCEPT ![conn] = "HTTPS_HANDSHAKE_DONE"]
             /\ UNCHANGED <<ssl, created, gc, timedOut, todo>>
    BY <1>1, <1>2, <1>4, <2>1, WaitForStep
  <2>2. ASSUME NEW e \in IO, waitFor(conn, "read", e), todo' = "CONTINUE",
               UNCHANGED <<state, ssl, created, gc, timedOut>>
        PROVE  ConnInv'
    BY <1>1, <1>2, <1>3, <1>4, <2>2, WaitForStep
  <2>3. CASE /\ tcpClose(conn) /\ stay /\ recycle(conn) /\ ssl' = ssl \ {conn}
             /\ todo' = "CONTINUE" /\ UNCHANGED <<readcb, writecb, created, timedOut>>
    BY <1>1, <1>2, <2>3, CloseStepConn
  <2> QED  BY <1>8, <2>1, <2>2, <2>3 DEF handshake
<1>9. CASE recvError
  <2>1. ASSUME NEW e \in IO, waitFor(conn, "read", e), todo' = "CONTINUE",
               UNCHANGED <<state, ssl, created, gc, timedOut>>
        PROVE  ConnInv'
    BY <1>1, <1>2, <1>3, <1>4, <2>1, WaitForStep
  <2> QED  BY <1>1, <1>2, <1>9, <2>1, CloseNowStep, CloseLaterStep DEF recvError
<1>10. CASE recvMore
  <2>1. CASE waitFor(conn, "read", "IN") /\ UNCHANGED <<state, ssl, created, gc, timedOut>>
    BY <1>1, <1>2, <1>3, <1>4, <1>10, <2>1, WaitForStep DEF recvMore
  <2>2. CASE noCall /\ UNCHANGED <<state, ssl, readcb, writecb, created, gc, timedOut>>
    BY <1>1, <1>2, <1>3, <1>4, <1>10, <2>2, NoCallStep DEF recvMore
  <2> QED  BY <1>10, <2>1, <2>2 DEF recvMore
<1>11. CASE badRequest
  BY <1>1, <1>2, <1>3, <1>4, <1>11, WaitForStep DEF badRequest
<1>12. CASE respond
  BY <1>1, <1>2, <1>3, <1>4, <1>12, WaitForStep DEF respond
<1> QED  BY <1>5, <1>6, <1>7, <1>8, <1>9, <1>10, <1>11, <1>12 DEF readHandle

LEMMA WriteStep == ASSUME HttpInv, writeHandle PROVE ConnInv'
<1>1. phase = "callback" /\ todo = "write"
  BY DEF writeHandle, sendError, sendMore, keepAlive, sendDone, inWrite
<1>2. /\ todo \in Handlers /\ "read" \in Handlers /\ "write" \in Handlers
      /\ "IN" \in IO /\ "OUT" \in IO /\ "CONTINUE" \in Code /\ "BREAK" \in Code
  BY <1>1 DEF Handlers, IO, Code
<1>3. /\ conn \in Client /\ state[conn] \in HttpState /\ state = [state EXCEPT ![conn] = state[conn]]
      /\ ssl \in SUBSET Client /\ "RECV_REQUEST" \in HttpState /\ "RECV_REQUEST" \notin SendStates
  BY <1>1, <1>2, InHand DEF HttpInv, ConnType, HttpState, SendStates
<1>4. CASE sendError
  <2>1. ASSUME NEW e \in IO, waitFor(conn, "write", e), todo' = "CONTINUE",
               UNCHANGED <<state, ssl, created, gc, timedOut>>
        PROVE  ConnInv'
    BY <1>1, <1>2, <1>3, <2>1, WaitForStep
  <2> QED  BY <1>1, <1>2, <1>4, <2>1, CloseNowStep, CloseLaterStep DEF sendError
<1>5. CASE sendMore
  <2>1. ssl' \in SUBSET Client /\ \A t \in Client \ {conn} : t \in ssl' => t \in ssl
    BY <1>3, <1>5 DEF sendMore
  <2> QED  BY <1>1, <1>2, <1>3, <1>5, <2>1, NoCallStep DEF sendMore
<1>6. CASE keepAlive
  BY <1>1, <1>2, <1>3, <1>6, WaitForStep DEF keepAlive
<1>7. CASE sendDone
  BY <1>1, <1>2, <1>7, CloseNowStep, CloseLaterStep DEF sendDone
<1> QED  BY <1>4, <1>5, <1>6, <1>7 DEF writeHandle

LEMMA CloseHandleStep == ASSUME HttpInv, closeHandle PROVE ConnInv'
BY CloseNowStep, CloseLaterStep DEF closeHandle, Handlers

\* A step of the listener's handler: the loop is where it was and the other connections
\* are as they were.
LEMMA ListenerStep ==
    ASSUME HttpInv, phase = "callback", todo \in {"accept", "listenError", "listenOn"},
           UNCHANGED ctlVars, \A x \in Chan : owner[x] # NoSock => owner'[x] = owner[x],
           todo' \in {"accept", "listenError", "listenOn", "CONTINUE"},
           NEW S \in SUBSET Client,
           \A t \in Client \ S : /\ Same(t) /\ readcb'[t] = readcb[t]
                                 /\ writecb'[t] = writecb[t] /\ state'[t] = state[t],
           \A t \in S : /\ sockfd'[t] # NoFd => /\ channelptr'[t] \in Chan
                                                /\ owner[channelptr'[t]] = NoSock
                                                /\ events'[channelptr'[t]] = {"IN"}
                                                /\ readcb'[t] = "read" /\ writecb'[t] = "none"
                        /\ state'[t] = "TCP_INIT"
    PROVE  Called' /\ Wired'
<1>1. UNCHANGED <<phase, ready, mask, cnptr, evs, tmo>>
  BY DEF ctlVars
<1>2. cnptr \in Chan /\ owner[cnptr] # NoSock /\ conn' = conn /\ conn \in Listener
  BY <1>1, SockFacts DEF HttpInv, LoopInv, CtlInv, CtlType, PhaseOK, Held, Called, conn
<1>3. Called'
  BY <1>1, <1>2 DEF HttpInv, Called, Handlers, Code, UserSock
<1>4. Armed'
  BY DEF HttpInv, Wired, Armed, Same, Open
<1>5. Reported'
  BY <1>1 DEF HttpInv, Wired, Reported
<1>6. \A t \in Client \ S : sockfd[t] # NoFd => PendingIn(t)' = PendingIn(t)
  BY <1>1 DEF PendingIn, Same
<1>7. NoReadWhileSending'
  BY <1>6 DEF HttpInv, Wired, NoReadWhileSending, Same, Open, Sending, SendStates
<1>8. NotCrossed'
  BY <1>1, <1>2 DEF HttpInv, Wired, NotCrossed, Same, Open, Sending
<1> QED  BY <1>3, <1>4, <1>5, <1>7, <1>8 DEF Wired

LEMMA AcceptStep == ASSUME HttpInv, Accept PROVE ConnInv'
<1>0. \A t \in Client : t \in Sock /\ t \notin Listener
  BY EventsLoopAssumption DEF Sock
<1>1. ASSUME NEW s \in Client, NEW f \in Fd, NEW c \in Chan, acceptOne(s, f, c)
      PROVE  ConnInv'
  <2>1. /\ phase = "callback" /\ todo = "accept" /\ todo' = todo /\ UNCHANGED ctlVars
        /\ registerChannel(s, f, c, {"IN"}) /\ createConnection(s) /\ gc' = gcPopped
        /\ created' = created \cup {s} /\ UNCHANGED <<state, ssl, timedOut>>
        /\ readcb' = [readcb EXCEPT ![s] = "read"] /\ writecb' = [writecb EXCEPT ![s] = "none"]
    BY <1>1 DEF acceptOne, stay
  <2>2. Books'
    BY <1>1, BooksAccepted DEF HttpInv, LoopInv
  <2>3. state[s] = "TCP_INIT" /\ gcPopped \in Seq(Client)
    BY <2>1, Created DEF HttpInv
  <2>4. ConnType'
    BY <2>1, <2>3 DEF HttpInv, ConnType, Handlers
  <2>5. /\ channelptr'[s] = c /\ events'[c] = {"IN"} /\ owner[c] = NoSock
        /\ \A x \in Chan \ {c} : owner'[x] = owner[x]
    BY <1>0, <2>1, RegisterEffect DEF HttpInv, LoopInv
  <2>6. /\ \A t \in Client \ {s} : Same(t) /\ readcb'[t] = readcb[t] /\ writecb'[t] = writecb[t]
        /\ readcb'[s] = "read" /\ writecb'[s] = "none"
    BY <1>0, <2>1, <2>5, RegisterEffect DEF HttpInv, LoopInv, ConnType
  <2>7. \A x \in Chan : owner[x] # NoSock => owner'[x] = owner[x]
    BY <1>0, <2>1, RegisterEffect DEF HttpInv, LoopInv
  <2> DEFINE S == {s}
  <2>8. S \in SUBSET Client
    OBVIOUS
  <2>9. \A t \in Client \ S : /\ Same(t) /\ readcb'[t] = readcb[t]
                              /\ writecb'[t] = writecb[t] /\ state'[t] = state[t]
    BY <2>1, <2>6
  <2>10. \A t \in S : /\ sockfd'[t] # NoFd => /\ channelptr'[t] \in Chan
                                              /\ owner[channelptr'[t]] = NoSock
                                              /\ events'[channelptr'[t]] = {"IN"}
                                              /\ readcb'[t] = "read" /\ writecb'[t] = "none"
                      /\ state'[t] = "TCP_INIT"
    BY <2>1, <2>3, <2>5, <2>6
  <2> HIDE DEF S
  <2>11. Called' /\ Wired'
    BY <2>1, <2>7, <2>8, <2>9, <2>10, ListenerStep
  <2> QED  BY <2>2, <2>4, <2>11 DEF ConnInv
<1>2. ASSUME NEW s \in Client, acceptNone(s) PROVE ConnInv'
  <2>1. /\ phase = "callback" /\ todo = "accept" /\ todo' \in {"listenError", "CONTINUE"}
        /\ UNCHANGED loopVars /\ createConnection(s) /\ gc' = Append(gcPopped, s)
        /\ created' = created \cup {s} /\ UNCHANGED <<ssl, timedOut, readcb, writecb>>
        /\ state' = [state EXCEPT ![s] = "TCP_INIT"]
    BY <1>2 DEF acceptNone, noCall
  <2>2. Books'
    BY <1>2, BooksRefused DEF HttpInv, LoopInv
  <2>3. state[s] = "TCP_INIT" /\ gcPopped \in Seq(Client)
    BY <2>1, Created DEF HttpInv
  <2>4. ConnType' /\ state' = state
    BY <2>1, <2>3 DEF HttpInv, ConnType, Handlers, Code, HttpState
  <2>5. UNCHANGED ctlVars /\ owner' = owner /\ \A t \in Client : Same(t)
    BY <2>1 DEF loopVars, ctlVars, Same
  <2>6. Called' /\ Wired'
    <3>1. {} \in SUBSET Client
      OBVIOUS
    <3> QED  BY <2>1, <2>4, <2>5, <3>1, ListenerStep
  <2> QED  BY <2>2, <2>4, <2>6 DEF ConnInv
<1>3. ASSUME phase = "callback", todo \in {"listenError", "listenOn"}, UNCHANGED ctlVars,
             \A x \in Chan : owner[x] # NoSock => owner'[x] = owner[x],
             todo' \in {"listenOn", "CONTINUE"}, \A t \in Client : Same(t),
             UNCHANGED <<state, ssl, readcb, writecb, created, gc, timedOut>>
      PROVE  ConnInv'
  <2>1. ConnType'
    BY <1>3 DEF HttpInv, ConnType, Code
  <2>2. Books'
    BY <1>3, BooksKept DEF HttpInv, Same
  <2>3. Called' /\ Wired'
    <3>1. {} \in SUBSET Client
      OBVIOUS
    <3> QED  BY <1>3, <3>1, ListenerStep
  <2> QED  BY <2>1, <2>2, <2>3 DEF ConnInv
<1>4. CASE listenerClose
  <2>1. conn \in Listener /\ conn \in Sock
    BY <1>4, SockFacts DEF listenerClose, HttpInv, Called
  <2>2. owner' = owner /\ \A t \in Client : Same(t)
    BY <1>0, <1>4, <2>1, CloseEffect DEF listenerClose, HttpInv, LoopInv
  <2> QED  BY <1>3, <1>4, <2>2 DEF listenerClose, stay
<1>5. ASSUME NEW f \in Fd, NEW c \in Chan, listenOn(f, c) PROVE ConnInv'
  <2>1. conn \in Listener /\ conn \in Sock
    BY <1>5, SockFacts DEF listenOn, HttpInv, Called
  <2>2. /\ \A x \in Chan : owner[x] # NoSock => owner'[x] = owner[x]
        /\ \A t \in Client : Same(t)
    <3>1. registerChannel(conn, f, c, {"IN"}) /\ ObjInv
      BY <1>5 DEF listenOn, HttpInv, LoopInv
    <3>2. /\ owner[c] = NoSock /\ \A x \in Chan \ {c} : owner'[x] = owner[x]
          /\ \A t \in Sock \ {conn} : Same(t)
      BY <2>1, <3>1, RegisterEffect
    <3> QED  BY <1>0, <2>1, <3>2
  <2> QED  BY <1>3, <1>5, <2>2 DEF listenOn, stay
<1> QED  BY <1>1, <1>2, <1>4, <1>5 DEF Accept

\* A step of the loop itself: no handler runs before or after it.
LEMMA LoopStepConn == ASSUME HttpInv, LoopInv', loopStep PROVE ConnInv'
<1>1. UNCHANGED <<state, ssl, readcb, writecb, created, gc, timedOut, todo>> /\ \A t \in Client : Same(t)
  BY LoopStepSame DEF loopStep, connVars, HttpInv, LoopInv
<1>2. ConnType' /\ Books'
  BY <1>1, BooksKept DEF HttpInv, ConnType, Same
<1>3. /\ phase # "callback" /\ phase' # "callback"
      /\ phase' = "timeout" => owner'[tmo'] \in Client
      /\ Reported'
      /\ \A t \in Client : sockfd[t] # NoFd /\ PendingIn(t)' =>
             PendingIn(t) \/ "IN" \in events[channelptr[t]]
  <2> DEFINE P == /\ phase # "callback" /\ phase' # "callback"
                  /\ phase' = "timeout" => owner'[tmo'] \in Client
                  /\ Reported'
                  /\ \A t \in Client : sockfd[t] # NoFd /\ PendingIn(t)' =>
                         PendingIn(t) \/ "IN" \in events[channelptr[t]]
  <2>0. /\ Reported /\ \A t \in Client : channelptr'[t] = channelptr[t]
        /\ \A t \in Client : sockfd[t] # NoFd => channelptr[t] \in Chan
        /\ mask \in [Chan -> SUBSET IO] /\ ready \subseteq Chan /\ NoChan \notin Chan
        /\ cnptr # NoChan <=> phase \in {"dispatch", "callback", "clear", "timeout"}
    BY <1>1, OpenFacts, SockFacts
       DEF HttpInv, LoopInv, CtlInv, CtlType, PhaseOK, Wired, Same, Open
  <2>1. ASSUME NEW l, NEW f, NEW c, addIntoFactory(l, f, c) PROVE P
    BY <2>0, <2>1 DEF addIntoFactory, ctlVars, Reported, PendingIn
  <2>2. ASSUME NEW f, NEW c, loop(f, c) PROVE P
    BY <2>0, <2>2 DEF loop, Reported, PendingIn
  <2>3. ASSUME NEW R \in SUBSET Chan, epollWait(R) PROVE P
    <3>1. ready' = R /\ phase = "wait" /\ phase' = "batch" /\ cnptr' = cnptr /\ evs' = evs
          /\ \A c \in Chan : mask'[c] = IF c \in R THEN events[c] ELSE {}
      BY <2>3 DEF epollWait
    <3> QED  BY <2>0, <3>1 DEF Reported, PendingIn
  <2>4. CASE epollError
    BY <2>0, <2>4 DEF epollError, Reported, PendingIn
  <2>5. ASSUME NEW c \in Chan, skipEntry(c) PROVE P
    <3>1. ready' = ready \ {c} /\ phase = "batch" /\ phase' = "batch" /\ cnptr' = cnptr /\ evs' = evs
          /\ \A x \in Chan : mask'[x] = IF x = c THEN {} ELSE mask[x]
      BY <2>0, <2>5 DEF skipEntry
    <3> QED  BY <2>0, <3>1 DEF Reported, PendingIn
  <2>6. ASSUME NEW c \in Chan, NEW E, beginEntry(c, E) PROVE P
    <3>1. /\ c \in ready /\ ready' = ready \ {c} /\ phase = "batch" /\ phase' = "dispatch"
          /\ cnptr' = c /\ evs' = E /\ E \subseteq reportable(c)
          /\ \A x \in Chan : mask'[x] = IF x = c THEN {} ELSE mask[x]
      BY <2>0, <2>6 DEF beginEntry
    <3>2. "IN" \in E => "IN" \in mask[c]
      BY <3>1 DEF reportable, Stages, IO
    <3> QED  BY <2>0, <3>1, <3>2 DEF Reported, PendingIn
  <2>7. CASE endEntry \/ endBatch
    BY <2>0, <2>7 DEF endEntry, endBatch, Reported, PendingIn
  <2>8. CASE clockJump \/ endClear
    BY <2>0, <2>8 DEF clockJump, endClear, Reported, PendingIn
  <2>9. ASSUME NEW c \in Chan, beginTimeout(c) PROVE P
    <3>1. owner'[tmo'] \in Client
      BY <2>9 DEF beginTimeout, objVars, HttpInv, LoopInv, WheelInv, WheelType, Wheeled
    <3> QED  BY <2>0, <2>9, <3>1 DEF beginTimeout, Reported, PendingIn
  <2> QED  BY <2>1, <2>2, <2>3, <2>4, <2>5, <2>6, <2>7, <2>8, <2>9 DEF loopStep, Wait
<1>4. Called'
  BY <1>1, <1>3 DEF HttpInv, Called
<1>5. NotCrossed'
  BY <1>1, <1>3 DEF HttpInv, Wired, NotCrossed, Same, Open
<1>6. Wired'
  BY <1>1, <1>3, <1>5, KeepWired DEF Same
<1> QED  BY <1>2, <1>4, <1>6 DEF ConnInv

\* The first stage of an entry is the one waitChannel looks at first.
LEMMA FirstIsIn ==
    ASSUME NEW E \in SUBSET Stages, E # {}
    PROVE  FirstStage(E) \in E /\ (FirstStage(E) = "OUT" => "IN" \notin E)
<1>1. \A e \in Stages : Rank(e) \in 1 .. 5
  BY DEF Rank, Stages, IO
<1>2. \E e \in E : \A x \in E : Rank(e) <= Rank(x)
  <2>1. CASE "RDHUP" \in E
    BY <1>1, <2>1 DEF Rank
  <2>2. CASE "RDHUP" \notin E /\ "HUP" \in E
    BY <1>1, <2>2 DEF Rank, Stages, IO
  <2>3. CASE "RDHUP" \notin E /\ "HUP" \notin E /\ "ERR" \in E
    BY <1>1, <2>3 DEF Rank, Stages, IO
  <2>4. CASE E \subseteq IO /\ "IN" \in E
    BY <1>1, <2>4 DEF Rank, Stages, IO
  <2>5. CASE E \subseteq IO /\ "IN" \notin E
    BY <1>1, <2>5 DEF Rank, Stages, IO
  <2> QED  BY <2>1, <2>2, <2>3, <2>4, <2>5 DEF Stages, IO
<1>3. FirstStage(E) \in E /\ \A x \in E : Rank(FirstStage(E)) <= Rank(x)
  BY <1>2 DEF FirstStage
<1>4. Rank("OUT") = 5 /\ Rank("IN") = 4
  BY DEF Rank
<1> QED  BY <1>3, <1>4

\* callHandler finds a handler of the socket, and readHandle only while no response is sent.
LEMMA CallHandlerStep == ASSUME HttpInv, callHandler PROVE ConnInv'
<1> DEFINE e == FirstStage(evs)
<1>1. /\ phase = "dispatch" /\ phase' = "callback" /\ evs' = evs \ {e} /\ chfd[cnptr] # NoFd
      /\ owner[cnptr] # TimerFd /\ UNCHANGED <<ready, mask, cnptr, tmo>> /\ UNCHANGED objVars
      /\ UNCHANGED <<state, ssl, readcb, writecb, created, gc, timedOut>>
      /\ todo' = handlerOf(conn, e) /\ evs # {} /\ evs \in SUBSET Stages
  BY DEF callHandler, callStage, validChannel, HttpInv, LoopInv, CtlInv, CtlType
<1>2. /\ cnptr \in Chan /\ conn \in UserSock /\ conn' = conn /\ channelptr[conn] = cnptr /\ Open(conn)
      /\ conn \in Client => conn \notin Listener
  BY <1>1, EventsLoopAssumption
     DEF HttpInv, LoopInv, ObjInv, ObjType, Agree, CtlInv, CtlType, PhaseOK, Open, objVars, conn,
         UserSock, Sock
<1>3. e \in evs /\ (e = "OUT" => "IN" \notin evs) /\ UNCHANGED <<sockfd, channelptr, owner, events>>
  BY <1>1, FirstIsIn DEF objVars
<1> HIDE DEF e
<1>4. /\ conn \in Listener => todo' \in {"accept", "listenError"}
      /\ conn \in Client => todo' = CASE e = "IN" -> readcb[conn] [] e = "OUT" -> writecb[conn]
                                      [] OTHER -> "close"
  BY <1>1, <1>2 DEF handlerOf, UserSock
<1>5. todo' \in Handlers \cup {"none", "accept", "listenError"}
      /\ (todo' \in Handlers => conn \in Client)
      /\ (todo' \in {"accept", "listenError", "listenOn"} => conn \in Listener)
  BY <1>2, <1>4 DEF HttpInv, ConnType, Handlers, UserSock
<1>6. ConnType'
  BY <1>1, <1>5 DEF HttpInv, ConnType
<1>7. \A t \in Client : Same(t)
  BY <1>1, ObjSame
<1>8. Books'
  BY <1>1, <1>7, BooksKept DEF HttpInv, Same
<1>9. Called'
  BY <1>1, <1>2, <1>3, <1>5 DEF HttpInv, Called, Open
<1>10. todo' \in {"read", "write"} => e \in {"IN", "OUT"} /\ conn \in Client /\ "IN" \notin evs'
  BY <1>1, <1>2, <1>3, <1>4, <1>5 DEF Handlers
<1>11. Reported'
  BY <1>1, <1>10 DEF HttpInv, Wired, Reported
<1>12. \A t \in Client : PendingIn(t)' => PendingIn(t)
  BY <1>1, <1>3 DEF PendingIn
<1>13. e = "IN" => PendingIn(conn)
  BY <1>1, <1>2, <1>3 DEF PendingIn
<1>14. conn \in Client =>
         /\ ~(readcb[conn] = "write" /\ writecb[conn] = "read")
         /\ Sending(conn) => writecb[conn] # "read" /\ (e = "IN" => readcb[conn] # "read")
  BY <1>2, <1>13 DEF HttpInv, Wired, NotCrossed, NoReadWhileSending
<1>15. /\ todo' = "read" => readcb[conn] # "write" /\ ~Sending(conn)
       /\ todo' = "write" => writecb[conn] # "read"
  BY <1>4, <1>10, <1>14
<1>16. NotCrossed'
  BY <1>1, <1>2, <1>3, <1>15 DEF HttpInv, Wired, NotCrossed, Open, Sending
<1>17. Wired'
  BY <1>1, <1>7, <1>11, <1>12, <1>16, KeepWired
<1> QED  BY <1>6, <1>8, <1>9, <1>17 DEF ConnInv

LEMMA HandlerReturnsStep == ASSUME HttpInv, handlerReturns PROVE ConnInv'
<1>1. /\ phase = "callback" /\ phase' \in {"dispatch", "batch"} /\ todo' = "none"
      /\ UNCHANGED objVars /\ UNCHANGED <<ready, mask, tmo>>
      /\ UNCHANGED <<state, ssl, readcb, writecb, created, gc, timedOut>>
      /\ cnptr' = NoChan \/ (cnptr' = cnptr /\ evs' = evs)
      /\ phase' = "dispatch" => cnptr' = cnptr /\ evs' = evs
  BY DEF handlerReturns, callReturnContinue, returnContinue, returnBreak
<1>2. ConnType'
  BY <1>1 DEF HttpInv, ConnType
<1>3. \A t \in Client : Same(t)
  BY <1>1, ObjSame
<1>4. Books'
  BY <1>1, <1>3, BooksKept DEF HttpInv, Same
<1>5. Called'
  BY <1>1 DEF Called
<1>6. Reported'
  BY <1>1, SockFacts DEF HttpInv, LoopInv, CtlInv, CtlType, Wired, Reported
<1>7. \A t \in Client : PendingIn(t)' => PendingIn(t)
  BY <1>1 DEF PendingIn, objVars
<1>8. NotCrossed'
  BY <1>1 DEF HttpInv, Wired, NotCrossed, Open, objVars
<1>9. Wired'
  BY <1>1, <1>3, <1>6, <1>7, <1>8, KeepWired
<1> QED  BY <1>2, <1>4, <1>5, <1>9 DEF ConnInv

LEMMA TimeoutHandleStep == ASSUME HttpInv, timeoutHandle PROVE ConnInv'
<1> DEFINE s == owner[tmo]
<1>1. /\ phase = "timeout" /\ phase' = "clear" /\ ssl' = ssl \ {s} /\ timedOut' = timedOut \cup {s}
      /\ tcpClose(s) /\ UNCHANGED <<ready, mask, cnptr, evs>>
      /\ UNCHANGED <<state, readcb, writecb, created, gc, todo>>
  BY DEF timeoutHandle, endTimeout
<1>2. s \in Client /\ s \in Sock
  BY <1>1, SockFacts DEF HttpInv, Called
<1> HIDE DEF s
<1>3. /\ sockfd'[s] = NoFd /\ \A t \in Client \ {s} : Same(t)
  BY <1>1, <1>2, CloseEffect, SockFacts DEF HttpInv, LoopInv, Open
<1>4. ConnType'
  BY <1>1, <1>2 DEF HttpInv, ConnType
<1>5. Books'
  BY <1>1, <1>2, BooksTimedOut DEF HttpInv, LoopInv
<1>6. Called'
  BY <1>1 DEF HttpInv, Called
<1>7. Reported'
  BY <1>1 DEF HttpInv, Wired, Reported
<1>8. \A t \in Client : sockfd'[t] # NoFd => Same(t) /\ (PendingIn(t)' => PendingIn(t))
  BY <1>1, <1>3 DEF PendingIn, Same
<1>9. NotCrossed'
  BY <1>1, <1>3 DEF HttpInv, Wired, NotCrossed, Open, Same
<1>10. Wired'
  BY <1>1, <1>7, <1>8, <1>9, KeepWired
<1> QED  BY <1>4, <1>5, <1>6, <1>10 DEF ConnInv

LEMMA InitHttpInv == HttpInit => HttpInv
<1> SUFFICES ASSUME HttpInit PROVE HttpInv
  OBVIOUS
<1>1. LoopInv
  BY InitLoopInv DEF HttpInit
<1>2. ConnType
  BY DEF HttpInit, ConnType, HttpState, Handlers
<1>3. phase = "init" /\ \A s \in Client : sockfd[s] = NoFd
  BY SockFacts DEF HttpInit, LoopInit
<1>4. Called
  BY <1>3 DEF HttpInit, Called
<1>5. Books
  BY <1>3 DEF HttpInit, Books, Distinct, Members
<1>6. Wired
  BY <1>3, SockFacts DEF HttpInit, LoopInit, Wired, Armed, Reported, NoReadWhileSending, NotCrossed, Open
<1> QED  BY <1>1, <1>2, <1>4, <1>5, <1>6 DEF HttpInv

\* Every step of the server, the loop's and the handlers', keeps the inductive invariant.
LEMMA NextHttpInv == HttpInv /\ [HttpNext]_serverVars => HttpInv'
<1> SUFFICES ASSUME HttpInv, [HttpNext]_serverVars PROVE HttpInv'
  OBVIOUS
<1>1. CASE UNCHANGED serverVars
  <2>1. LoopInv'
    BY <1>1, NextLoopInv DEF serverVars, loopVars, HttpInv
  <2>2. ConnType' /\ Called'
    BY <1>1 DEF serverVars, HttpInv, ConnType, Called, Open, conn
  <2>3. Books'
    BY <1>1, BooksKept DEF serverVars, HttpInv
  <2>4. Wired'
    BY <1>1 DEF serverVars, HttpInv, Wired, Armed, Reported, NoReadWhileSending, NotCrossed, Open,
                PendingIn, Sending, conn
  <2> QED  BY <2>1, <2>2, <2>3, <2>4 DEF HttpInv
<1>2. CASE HttpNext
  <2>1. LoopInv'
    BY <1>2, HttpLoop, NextLoopInv DEF HttpInv
  <2>2. ConnInv'
    BY <1>2, <2>1, LoopStepConn, CallHandlerStep, HandlerReturnsStep, AcceptStep, ReadStep,
       WriteStep, CloseHandleStep, TimeoutHandleStep DEF HttpNext, Handler
  <2> QED  BY <2>1, <2>2 DEF HttpInv, ConnInv
<1> QED  BY <1>1, <1>2

LEMMA HttpInvAlways == Http => []HttpInv
BY InitHttpInv, NextHttpInv, PTL DEF Http

-----------------------------------------------------------------------------

\* The HTTP server is an instance of the loop with arbitrary callbacks: acceptHandle,
\* readHandle, writeHandle, closeHandle and timeoutHandle do to sockets, channels and the
\* time wheel only what EventsLoop allows a callback, so its theorems hold of the server.
THEOREM HttpRefinesLoop == Http => Loop
<1>1. HttpInit => LoopInit
  BY DEF HttpInit
<1>2. HttpInv /\ [HttpNext]_serverVars => [LoopNext]_loopVars
  BY HttpLoop DEF HttpInv, serverVars, loopVars
<1> QED  BY <1>1, <1>2, HttpInvAlways, PTL DEF Http, Loop

\* The state of the loop and of the connections keeps its type.
THEOREM HttpTypeCorrect == Http => []HttpTypeOK
<1>1. HttpInv => HttpTypeOK
  BY DEF HttpInv, LoopInv, ObjInv, WheelInv, CtlInv, ObjType, WheelType, CtlType, TypeOK,
         ConnType, HttpTypeOK
<1> QED  BY <1>1, HttpInvAlways, PTL

\* The reuse queue never holds a connection twice or one that is still in use: two
\* clients never share a connection.
THEOREM HttpReuseQueueSound == Http => []ReuseQueueSound
<1>1. HttpInv => ReuseQueueSound
  BY BooksMean DEF HttpInv
<1> QED  BY <1>1, HttpInvAlways, PTL

\* Every connection ever created is open, waits for reuse or was timed out, and is only one
\* of them.
THEOREM HttpConnectionsAccounted == Http => []ConnectionsAccounted
<1>1. HttpInv => ConnectionsAccounted
  BY BooksMean DEF HttpInv
<1> QED  BY <1>1, HttpInvAlways, PTL

\* readHandle is never called while a response is sent or closed, where its while(1) has
\* no case: reading is then not armed or has another handler, and no IN is on its way.
THEOREM HttpReadHandleHasCase == Http => []ReadHandleHasCase
<1>1. HttpInv => ReadHandleHasCase
  BY DEF HttpInv, Wired, NotCrossed, Sending, SendStates, ReadHandleHasCase
<1> QED  BY <1>1, HttpInvAlways, PTL

\* An open connection always waits for exactly one event and has a handler for it.
THEOREM HttpArmedForOneEvent == Http => []ArmedForOneEvent
<1>1. HttpInv => ArmedForOneEvent
  BY DEF HttpInv, Wired, Armed, ArmedForOneEvent
<1> QED  BY <1>1, HttpInvAlways, PTL

\* What the loop promises for any callbacks the server keeps: its handlers never leave a pointer
\* to a deleted channel or a channel without its socket, every open connection is on the wheel
\* once and closed only after a full idle turn, and no channel is leaked.
THEOREM HttpKeepsLoopPromises ==
    Http => []( /\ NoDanglingChannel /\ ChannelMatchesSocket /\ TimedOnce
                /\ TimeoutAfterFullTurn /\ NoChannelLeak )
BY HttpRefinesLoop, LoopNoDanglingChannel, LoopChannelMatchesSocket, LoopTimedOnce,
   LoopTimeoutAfterFullTurn, LoopNoChannelLeak, PTL
=============================================================================
