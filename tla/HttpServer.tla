----------------------------- MODULE HttpServer -----------------------------
(***************************************************************************)
(* The HTTP server built on the loop: net/Acceptor.cpp (accept and         *)
(* re-listen), net/ConnectionFactory.cpp (connection objects and their     *)
(* reuse queue gc_) and http/HttpConnection.cpp (the connection's state    *)
(* machine, with and without TLS).                                         *)
(*                                                                         *)
(* A Connection owns one Socket for its whole life, so a connection is     *)
(* named by its Socket object.  The loop's callback is refined: callStage  *)
(* chooses the handler that is installed for the stage, and each case of   *)
(* the handler's code is one step made of at most one call of EventsLoop.  *)
(* What the peer sends and what OpenSSL and the parser answer is a choice. *)
(***************************************************************************)
EXTENDS EventsLoop, Sequences

SocketUtil == INSTANCE SocketUtil

CONSTANT SSL      \* Acceptor::SSLProtocol(), service_.sslEnabled

\* The loop is instantiated with what the handlers of this module arm and return.
ASSUME HttpServerAssumption ==
    /\ SSL \in BOOLEAN
    /\ {"IN"} \in Arm /\ {"OUT"} \in Arm
    /\ {"CONTINUE", "BREAK"} \subseteq Codes

VARIABLES
    state,     \* HttpConnection::state_
    ssl,       \* connections whose SSLContext is active()
    readcb,    \* the handler in the channel's readable_cb
    writecb,   \* the handler in the channel's writeable_cb, "none" for null
    created,   \* connections_
    gc,        \* gc_[HTTP_CONNECTION], ids of connections to reuse
    timedOut,  \* history: connections closed by timeoutHandle
    todo       \* the handler the loop called, or the code it returned

connVars == <<state, ssl, readcb, writecb, created, gc, timedOut, todo>>
serverVars == <<sockfd, channelptr, owner, chfd, events, epoll, needDeleted,
                wheel, current, idle, phase, ready, mask, cnptr, evs, tmo,
                state, ssl, readcb, writecb, created, gc, timedOut, todo>>

HttpState == {"TCP_INIT", "HTTPS_HANDSHAKE", "HTTPS_HANDSHAKE_DONE", "RECV_REQUEST",
              "RECV_REQUEST_DONE", "SEND_RESPONSE", "SEND_RESPONSE_DONE"}
Handlers == {"read", "write", "close"}
Code == {"CONTINUE", "BREAK"}

conn == owner[cnptr]      \* the Socket the callback runs for
Open(s) == sockfd[s] # NoFd

HttpInit ==
    /\ LoopInit
    /\ state = [s \in Client |-> "TCP_INIT"]
    /\ ssl = {}
    /\ readcb = [s \in Client |-> "none"]
    /\ writecb = [s \in Client |-> "none"]
    /\ created = {} /\ gc = <<>> /\ timedOut = {}
    /\ todo = "none"

\* The loop's own steps.
loopStep ==
    /\ \/ Wait
       \/ \E c \in Chan : skipEntry(c)
       \/ \E c \in Chan, E \in SUBSET Stages : E # {} /\ beginEntry(c, E)
       \/ endEntry \/ endBatch
       \/ clockJump \/ (\E c \in Chan : beginTimeout(c)) \/ endClear
    /\ UNCHANGED connVars

\* The handler installed for stage e of socket s: acceptHandle and errorHandle on a
\* listener; on a connection errorHandle and rdhupHandle are closeHandle.
handlerOf(s, e) ==
    CASE s \in Listener /\ e = "IN" -> "accept"
      [] s \in Listener /\ e # "IN" -> "listenError"
      [] s \in Client /\ e = "IN" -> readcb[s]
      [] s \in Client /\ e = "OUT" -> writecb[s]
      [] OTHER -> "close"

callHandler ==
    /\ callStage
    /\ todo' = handlerOf(conn, FirstStage(evs))
    /\ UNCHANGED <<state, ssl, readcb, writecb, created, gc, timedOut>>

handlerReturns ==
    /\ \/ todo = "CONTINUE" /\ callReturnContinue
       \/ todo = "BREAK" /\ returnBreak
    /\ todo' = "none"
    /\ UNCHANGED <<state, ssl, readcb, writecb, created, gc, timedOut>>

\* A handler step that calls nothing of the loop.
noCall == UNCHANGED loopVars

-----------------------------------------------------------------------------
(* ConnectionFactory and Acceptor.                                          *)

\* createConnection: the oldest recycled connection, or a new one.
createConnection(s) == IF gc # <<>> THEN s = Head(gc) ELSE s \in Client \ created
gcPopped == IF gc # <<>> THEN Tail(gc) ELSE gc
Available == (Client \ created) \cup {gc[i] : i \in DOMAIN gc}

\* acceptHandle, accept succeeded: register, install the handlers, enable reading,
\* loop.  (The next turn needs one more connection object: a bound of the instance.)
acceptOne(s, f, c) ==
    /\ phase = "callback" /\ todo = "accept"
    /\ Cardinality(Available) > 1
    /\ createConnection(s)
    /\ \E o \in SocketUtil!Accept(SocketUtil!NewSocket) : o.ret = 0 /\ o.sock.exist
    /\ registerChannel(s, f, c, {"IN"}) /\ stay
    /\ created' = created \cup {s} /\ gc' = gcPopped
    /\ readcb' = [readcb EXCEPT ![s] = "read"]
    /\ writecb' = [writecb EXCEPT ![s] = "none"]
    /\ UNCHANGED <<state, ssl, timedOut, todo>>

\* accept failed: the connection taken for it is recycled; EAGAIN ends the
\* callback, any other error goes on to errorHandle.
acceptNone(s) ==
    /\ phase = "callback" /\ todo = "accept"
    /\ createConnection(s)
    /\ created' = created \cup {s} /\ gc' = Append(gcPopped, s)
    /\ state' = [state EXCEPT ![s] = "TCP_INIT"]
    /\ \E o \in SocketUtil!Accept(SocketUtil!NewSocket) :
         o.ret # 0 /\ todo' = IF o.ret < 0 THEN "listenError" ELSE "CONTINUE"
    /\ noCall
    /\ UNCHANGED <<ssl, readcb, writecb, timedOut>>

\* Acceptor::errorHandle: close the listener ...
listenerClose ==
    /\ phase = "callback" /\ todo = "listenError"
    /\ tcpClose(conn) /\ stay
    /\ todo' = "listenOn"
    /\ UNCHANGED <<state, ssl, readcb, writecb, created, gc, timedOut>>

\* ... then listenOn and addIntoFactory (exit(EXIT_FAILURE) if that fails).
listenOn(f, c) ==
    /\ phase = "callback" /\ todo = "listenOn"
    /\ \E o \in SocketUtil!CreateListenSocket(SocketUtil!NewSocket) : o.ret = 0
    /\ registerChannel(conn, f, c, {"IN"}) /\ stay
    /\ todo' = "CONTINUE"
    /\ UNCHANGED <<state, ssl, readcb, writecb, created, gc, timedOut>>

-----------------------------------------------------------------------------
(* HttpConnection: closing.                                                 *)

\* recycle: reset, state_ = TCP_INIT, push the id on gc_.
recycle(s) ==
    /\ gc' = Append(gc, s)
    /\ state' = [state EXCEPT ![s] = "TCP_INIT"]

\* install handler h for event e and wait for that event alone
waitFor(s, h, e) ==
    /\ setEvents(s, {e}) /\ stay
    /\ readcb' = IF e = "IN" THEN [readcb EXCEPT ![s] = h] ELSE readcb
    /\ writecb' = IF e = "OUT" THEN [writecb EXCEPT ![s] = h] ELSE writecb

\* Faulty variant: both events are disabled and none is enabled again.
closeLaterDeaf(s) ==
    /\ s \in ssl
    /\ setEvents(s, {}) /\ stay
    /\ todo' = "CONTINUE"
    /\ UNCHANGED <<ssl, readcb, writecb, created, gc, timedOut>>

\* closeHandle when SSL_shutdown wants more I/O: come back on that event.
closeLater(s) ==
    /\ s \in ssl
    /\ \E e \in IO : waitFor(s, "close", e)
    /\ todo' = "CONTINUE"
    /\ UNCHANGED <<ssl, created, gc, timedOut>>

\* Faulty variants of the successful close: the connection is not recycled; the TLS
\* context survives; Socket::reset forgets the descriptor instead of closing it.
closeNowNoRecycle(s) ==
    /\ IF Open(s) THEN tcpClose(s) ELSE UNCHANGED objVars /\ UNCHANGED wheelVars
    /\ stay
    /\ ssl' = ssl \ {s}
    /\ todo' = "BREAK"
    /\ UNCHANGED <<state, gc, readcb, writecb, created, timedOut>>
closeNowKeepsContext(s) ==
    /\ IF Open(s) THEN tcpClose(s) ELSE UNCHANGED objVars /\ UNCHANGED wheelVars
    /\ stay
    /\ recycle(s)
    /\ todo' = "BREAK"
    /\ UNCHANGED <<ssl, readcb, writecb, created, timedOut>>
closeNowResetOnly(s) ==
    /\ sockfd' = [sockfd EXCEPT ![s] = NoFd]
    /\ channelptr' = [channelptr EXCEPT ![s] = NoChan]
    /\ UNCHANGED <<owner, chfd, events, epoll, needDeleted>> /\ UNCHANGED wheelVars
    /\ stay
    /\ ssl' = ssl \ {s}
    /\ recycle(s)
    /\ todo' = "BREAK"
    /\ UNCHANGED <<readcb, writecb, created, timedOut>>

\* closeHandle when the socket closes (or is closed already): recycle.
closeNow(s) ==
    /\ IF Open(s) THEN tcpClose(s) ELSE UNCHANGED objVars /\ UNCHANGED wheelVars
    /\ stay
    /\ ssl' = ssl \ {s}
    /\ recycle(s)
    /\ todo' = "BREAK"
    /\ UNCHANGED <<readcb, writecb, created, timedOut>>

closeHandle ==
    /\ phase = "callback" /\ todo = "close"
    /\ \/ closeLater(conn) /\ UNCHANGED state
       \/ closeNow(conn)

\* timeoutHandle: tcpClose, and no recycle.
timeoutHandle ==
    /\ phase = "timeout"
    /\ ssl' = ssl \ {owner[tmo]}
    /\ timedOut' = timedOut \cup {owner[tmo]}
    /\ endTimeout
    /\ UNCHANGED <<state, readcb, writecb, created, gc, todo>>

-----------------------------------------------------------------------------
(* HttpConnection::readHandle: one action per case of its while(1) switch.   *)

inCase(x) == phase = "callback" /\ todo = "read" /\ state[conn] = x

tcpInit ==
    /\ inCase("TCP_INIT")
    /\ state' = [state EXCEPT ![conn] = IF SSL THEN "HTTPS_HANDSHAKE" ELSE "RECV_REQUEST"]
    /\ ssl' = IF SSL THEN ssl \cup {conn} ELSE ssl
    /\ noCall
    /\ UNCHANGED <<readcb, writecb, created, gc, timedOut, todo>>

\* The same case when prepareSSLContext fails (SSL_new has no SSL_CTX because no
\* certificate is configured): its result is not looked at.
tcpInitNoContext ==
    /\ inCase("TCP_INIT") /\ SSL
    /\ state' = [state EXCEPT ![conn] = "HTTPS_HANDSHAKE"]
    /\ noCall
    /\ UNCHANGED <<ssl, readcb, writecb, created, gc, timedOut, todo>>

\* SSLHandShake with an active context: SSL_accept succeeds, wants I/O, or fails.
handshake ==
    /\ inCase("HTTPS_HANDSHAKE") /\ conn \in ssl
    /\ \/ /\ waitFor(conn, "read", "IN")
          /\ state' = [state EXCEPT ![conn] = "HTTPS_HANDSHAKE_DONE"]
          /\ UNCHANGED <<ssl, created, gc, timedOut, todo>>
       \/ /\ \E e \in IO : waitFor(conn, "read", e)
          /\ todo' = "CONTINUE"
          /\ UNCHANGED <<state, ssl, created, gc, timedOut>>
       \/ /\ tcpClose(conn) /\ stay
          /\ recycle(conn)
          /\ ssl' = ssl \ {conn}
          /\ todo' = "CONTINUE"
          /\ UNCHANGED <<readcb, writecb, created, timedOut>>

\* SSLHandShake without one returns closeHandle's EVENT_CALLBACK_BREAK, which has
\* the value of TIGERSO_IO_OK: readHandle goes on as after a finished handshake.
handshakeNoContext ==
    /\ inCase("HTTPS_HANDSHAKE") /\ conn \notin ssl
    /\ tcpClose(conn) /\ stay
    /\ gc' = Append(gc, conn)
    /\ state' = [state EXCEPT ![conn] = "HTTPS_HANDSHAKE_DONE"]
    /\ UNCHANGED <<ssl, readcb, writecb, created, timedOut, todo>>

handshakeDone ==
    /\ inCase("HTTPS_HANDSHAKE_DONE")
    /\ state' = [state EXCEPT ![conn] = "RECV_REQUEST"]
    /\ noCall
    /\ UNCHANGED <<ssl, readcb, writecb, created, gc, timedOut, todo>>

\* recvNIO fails: with an active context that wants I/O come back on that event,
\* else closeHandle (SSLContext::recv has destroyed the context, or there is none).
recvError ==
    /\ inCase("RECV_REQUEST")
    /\ \/ /\ conn \in ssl
          /\ \E e \in IO : waitFor(conn, "read", e)
          /\ todo' = "CONTINUE"
          /\ UNCHANGED <<state, ssl, created, gc, timedOut>>
       \/ closeNow(conn)
       \/ closeLater(conn) /\ UNCHANGED state

\* recvNIO has nothing yet, or a part of the request: wait for more.
recvMore ==
    /\ inCase("RECV_REQUEST") /\ Open(conn)
    /\ todo' = "CONTINUE"
    /\ \/ /\ waitFor(conn, "read", "IN")
          /\ UNCHANGED <<state, ssl, created, gc, timedOut>>
       \/ noCall /\ UNCHANGED <<state, ssl, readcb, writecb, created, gc, timedOut>>

\* The parser rejects the request: a 400 response is attached; state_ stays.
badRequest ==
    /\ inCase("RECV_REQUEST") /\ Open(conn)
    /\ waitFor(conn, "write", "OUT")
    /\ todo' = "BREAK"
    /\ UNCHANGED <<state, ssl, created, gc, timedOut>>

recvDone ==
    /\ inCase("RECV_REQUEST") /\ Open(conn)
    /\ state' = [state EXCEPT ![conn] = "RECV_REQUEST_DONE"]
    /\ noCall
    /\ UNCHANGED <<ssl, readcb, writecb, created, gc, timedOut, todo>>

\* RECV_REQUEST_DONE: doGet prepares the response, writeHandle will send it.
respond ==
    /\ inCase("RECV_REQUEST_DONE")
    /\ waitFor(conn, "write", "OUT")
    /\ state' = [state EXCEPT ![conn] = "SEND_RESPONSE"]
    /\ todo' = "CONTINUE"
    /\ UNCHANGED <<ssl, created, gc, timedOut>>

readHandle ==
    \/ tcpInit \/ handshake \/ handshakeDone
    \/ recvError \/ recvMore \/ badRequest \/ recvDone \/ respond

-----------------------------------------------------------------------------
(* HttpConnection::writeHandle.                                             *)

inWrite == phase = "callback" /\ todo = "write"

\* Faulty variant: while a write waits for the socket to be readable, the read
\* event still calls readHandle.
sendErrorReads ==
    /\ inWrite
    /\ \/ /\ conn \in ssl
          /\ \E e \in IO : waitFor(conn, IF e = "IN" THEN "read" ELSE "write", e)
          /\ todo' = "CONTINUE"
          /\ UNCHANGED <<state, ssl, created, gc, timedOut>>
       \/ closeNow(conn)
       \/ closeLater(conn) /\ UNCHANGED state

\* sendNIO fails: as in recvError.
sendError ==
    /\ inWrite
    /\ \/ /\ conn \in ssl
          /\ \E e \in IO : waitFor(conn, "write", e)
          /\ todo' = "CONTINUE"
          /\ UNCHANGED <<state, ssl, created, gc, timedOut>>
       \/ closeNow(conn)
       \/ closeLater(conn) /\ UNCHANGED state

\* Not everything sent.  Buffer::sendToSocket also comes here when Send failed, and
\* SSLContext::send has then destroyed the context.
sendMore ==
    /\ inWrite
    /\ ssl' \in {ssl, ssl \ {conn}}
    /\ todo' = "CONTINUE"
    /\ noCall
    /\ UNCHANGED <<state, readcb, writecb, created, gc, timedOut>>

\* Faulty variant: resetResources without state_ = RECV_REQUEST.
keepAliveKeepsState ==
    /\ inWrite
    /\ waitFor(conn, "read", "IN")
    /\ state' = [state EXCEPT ![conn] = "SEND_RESPONSE_DONE"]
    /\ todo' = "CONTINUE"
    /\ UNCHANGED <<ssl, created, gc, timedOut>>

\* The response is sent and the connection is kept: resetResources, read again.
keepAlive ==
    /\ inWrite
    /\ waitFor(conn, "read", "IN")
    /\ state' = [state EXCEPT ![conn] = "RECV_REQUEST"]
    /\ todo' = "CONTINUE"
    /\ UNCHANGED <<ssl, created, gc, timedOut>>

\* The response is sent and the connection is not kept: closeHandle.
sendDone ==
    /\ inWrite
    /\ \/ closeLater(conn) /\ state' = [state EXCEPT ![conn] = "SEND_RESPONSE_DONE"]
       \/ closeNow(conn)

writeHandle == sendError \/ sendMore \/ keepAlive \/ sendDone

-----------------------------------------------------------------------------
Accept ==
    \/ \E s \in Client, f \in Fd, c \in Chan : acceptOne(s, f, c)
    \/ \E s \in Client : acceptNone(s)
    \/ listenerClose
    \/ \E f \in Fd, c \in Chan : listenOn(f, c)

Handler == Accept \/ readHandle \/ writeHandle \/ closeHandle

HttpNext == loopStep \/ callHandler \/ handlerReturns \/ Handler \/ timeoutHandle

Http == HttpInit /\ [][HttpNext]_serverVars

\* The thread keeps running: it takes its next step whenever it has one, and epoll
\* reports the timer that expires every second.
FairHttp ==
    /\ Http
    /\ WF_serverVars(loopStep /\ phase \notin {"init", "wait"})
    /\ WF_serverVars(callHandler \/ handlerReturns \/ timeoutHandle)
    /\ WF_serverVars(Handler)
    /\ SF_serverVars(\E R \in SUBSET Chan : channelptr[TimerFd] \in R /\ epollWait(R)
                                             /\ UNCHANGED connVars)

\* The same server when no certificate is configured.
HttpNoContext ==
    HttpInit /\ [][HttpNext \/ tcpInitNoContext \/ handshakeNoContext]_serverVars

-----------------------------------------------------------------------------
(* Properties.                                                              *)

HttpTypeOK ==
    /\ TypeOK
    /\ state \in [Client -> HttpState]
    /\ ssl \in SUBSET Client
    /\ readcb \in [Client -> Handlers \cup {"none"}]
    /\ writecb \in [Client -> Handlers \cup {"none"}]
    /\ created \in SUBSET Client
    /\ gc \in Seq(Client)
    /\ timedOut \in SUBSET Client
    /\ todo \in Handlers \cup Code \cup {"none", "accept", "listenError", "listenOn"}

Recycled == {gc[i] : i \in DOMAIN gc}

\* No id is in the factory's reuse queue twice (recycle pushes it without a look): two
\* accepted clients would be given the same connection object.
QueuedOnce == \A i, j \in DOMAIN gc : gc[i] = gc[j] => i = j

\* A connection waits for reuse at most once, and only when it is really free: its
\* socket is closed, has no channel and no TLS context, and its state machine is at
\* its start.  Otherwise two clients would share one connection.
ReuseQueueSound ==
    /\ QueuedOnce
    /\ \A s \in Recycled : /\ ~Open(s) /\ channelptr[s] = NoChan
                           /\ s \notin ssl /\ state[s] = "TCP_INIT"

\* Every connection the factory created is open, waiting for reuse, or was closed by
\* the idle timeout (which does not recycle): no other path loses one.
ConnectionsAccounted ==
    /\ created = {s \in Client : Open(s)} \cup Recycled \cup timedOut
    /\ {s \in Client : Open(s)} \cap (Recycled \cup timedOut) = {}
    /\ Recycled \cap timedOut = {}

\* readHandle's while(1) always finds a case for its state: entered while a response
\* is being sent or closed it would spin and freeze the whole server.
ReadHandleHasCase ==
    phase = "callback" /\ todo = "read" =>
        state[conn] \notin {"SEND_RESPONSE", "SEND_RESPONSE_DONE"}

\* Between callbacks an open connection waits for exactly one of reading and writing
\* and has a handler for it: it is never deaf, and no event finds a null callback.
ArmedForOneEvent ==
    \A s \in Client : Open(s) /\ ~(phase = "callback" /\ conn = s) =>
        \/ events[channelptr[s]] = {"IN"} /\ readcb[s] # "none"
        \/ events[channelptr[s]] = {"OUT"} /\ writecb[s] # "none"

\* Every handler returns to the loop (readHandle and acceptHandle are infinite loops
\* left only by return).
HandlerReturns == (phase = "callback") ~> (phase # "callback")

\* An idle connection is closed: the peer cannot hold it by staying silent.
SilentPeerClosed ==
    \A s \in Client : []<>(~Open(s) \/ idle[channelptr[s]] = 0 \/ phase = "stopped")

=============================================================================
