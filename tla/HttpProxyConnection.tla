------------------------- MODULE HttpProxyConnection -------------------------
(***************************************************************************)
(* http/HttpProxyConnection.cpp with its dns/DNSResolver.cpp: one          *)
(* connection object, its client and server socket, the resolver's UDP     *)
(* socket, and the factory that takes the object back and hands it out     *)
(* again.                                                                  *)
(*                                                                         *)
(* The object is one record, conn, and a called function is an operator    *)
(* from the record before the call to the record, or the set of records,   *)
(* after it.  A step is an event callback, or one turn of the while(1) in  *)
(* RWEventHandle, or one callback of the parser in it: a read may hold     *)
(* several messages.  What a socket call, OpenSSL or the parser returns is *)
(* any of the results they can return in that state.                       *)
(***************************************************************************)
EXTENDS Integers, FiniteSets, HttpParser, SocketIO, SocketUtil, DNSMessage

CONSTANTS
    Host,        \* the hosts clients ask for
    NoHost       \* host_ of an object without a request

ASSUME ProxyAssumption == NoHost \notin Host

VARIABLES
    conn,        \* the connection object
    running,     \* RWEventHandle is in its loop
    parsing,     \* HttpMessage::parse goes through what it received
    nested,      \* it was called by the resolver's callback, from callHandle
    silent       \* the peers send nothing any more

proxyVars == <<conn, running, parsing, nested, silent>>

Sock == {"client", "server", "udp"}
\* HttpProxyState, as far as the code assigns it.
ProxyState == {"PROXY_INIT", "CLIENT_RECV_REQUEST", "CLIENT_RECV_REQUEST_DONE",
               "CLIENT_SEND_200OK", "CLIENT_SEND_200OK_DONE",
               "SERVER_HANDSHAKE", "SERVER_HANDSHAKE_DONE",
               "CLIENT_HANDSHAKE", "CLIENT_HANDSHAKE_DONE",
               "SERVER_SEND_REQUEST", "SERVER_SEND_REQUEST_DONE",
               "SERVER_RECV_RESPONSE", "SERVER_RECV_RESPONSE_DONE",
               "CLIENT_SEND_RESPONSE", "CLIENT_SEND_RESPONSE_DONE"}
\* What the buffer holds that the client sends from: bytes of a response, or an attached
\* notification.
OutBuffer == {"empty", "data", "note"}

NewConn ==
    [state   |-> "PROXY_INIT",
     open    |-> {},                       \* the sockets that exist()
     armed   |-> [s \in Sock |-> {}],      \* readFlag and writeFlag of their channels
     closing |-> {},                       \* the handlers replaced by closeHandle
     ssl     |-> {},                       \* the sockets with a TLS context
     req     |-> reset, resp |-> reset,    \* the parsers of request_ and response_
     method  |-> "get",
     host    |-> NoHost,                   \* host_, port_
     requests |-> FALSE,                   \* client's in, server's out buffer: bytes in it
     out     |-> "empty",                  \* server's in, client's out buffer
     resolve |-> "uninit",                 \* resolveState_
     cb      |-> FALSE,                    \* the resolver has its callback_
     misled  |-> FALSE,                    \* history: wholeRequest met a stale resolveState_
     overtaken |-> FALSE,                  \* history: an answer at hand overtook a query
     free    |-> TRUE,                     \* in the factory's queue
     twice   |-> FALSE]                    \* history: recycled while in the queue

-----------------------------------------------------------------------------
(* Sockets.                                                                 *)

\* Enabling and disabling events, on a socket that exists.
arm(d, s, E) == IF s \in d.open THEN [d EXCEPT !.armed[s] = E] ELSE d
enable(d, s, e) == arm(d, s, d.armed[s] \cup {e})
\* Socket::tcpClose: the context and the channel go with the descriptor.  Faulty variant:
\* the context stays.
tcpCloseKeepsContext(d, s) == [d EXCEPT !.open = @ \ {s}, !.armed[s] = {},
                                        !.closing = @ \ ({s} \X Event)]
tcpClose(d, s) == [d EXCEPT !.open = @ \ {s}, !.armed[s] = {}, !.ssl = @ \ {s},
                            !.closing = @ \ ({s} \X Event)]
\* A descriptor and a channel with the usual handlers.
opened(d, s, E) == [d EXCEPT !.open = @ \cup {s}, !.armed[s] = E]

\* The callback of an event; the client has none for the write event.
Handler(d, s, e) == IF <<s, e>> \in d.closing THEN "closeHandle"
                    ELSE IF s = "client" /\ e = "write" THEN "none" ELSE "RWEventHandle"

\* Faulty variant: the resolver is left alone.
recycleKeepsResolver(d) ==
    [d EXCEPT !.host = NoHost, !.req = reset, !.resp = reset,
              !.requests = FALSE, !.out = "empty", !.state = "PROXY_INIT",
              !.twice = @ \/ d.free, !.free = TRUE]
recycle(d) ==
    [tcpClose(d, "udp") EXCEPT
        !.host = NoHost, !.req = reset, !.resp = reset,
        !.requests = FALSE, !.out = "empty", !.resolve = "uninit", !.cb = FALSE,
        !.state = "PROXY_INIT", !.misled = FALSE, !.overtaken = FALSE,
        !.twice = @ \/ d.free, !.free = TRUE]

\* Faulty variant: the object is not given back.
forceCloseServerOnly(d) == tcpClose(d, "server")
forceCloseServer(d) ==
    LET e == tcpClose(d, "server")
    IN  IF "client" \in e.open THEN e ELSE recycle(e)
forceCloseProxy(d) == forceCloseServer(tcpClose(d, "client"))
forceClose(d, s) == IF s = "client" THEN forceCloseProxy(d) ELSE forceCloseServer(d)

\* sock.close(): a TLS close may want another event first.
closeRecalled(d, s) ==
    IF s \in d.ssl \cap d.open
    THEN {[arm(d, s, {r.want}) EXCEPT !.closing = @ \cup {<<s, r.want>>}]
          : r \in {q \in sctxClose : q.ret = "RECALL"}}
    ELSE {}
serverClosed(d) ==
    IF "client" \notin d.open THEN recycle(d)
    ELSE IF d.out # "empty"
    THEN enable([d EXCEPT !.state = "CLIENT_SEND_RESPONSE"], "client", "write")
    ELSE enable(d, "client", "read")
clientClosed(d) ==
    IF "server" \notin d.open THEN {recycle(d)}
    ELSE {recycle(tcpClose(d, "server"))} \cup closeRecalled(d, "server")
closeHandle(d, s) ==
    closeRecalled(d, s) \cup
    (IF s = "client" THEN clientClosed(tcpClose(d, s)) ELSE {serverClosed(tcpClose(d, s))})

-----------------------------------------------------------------------------
(* The resolver and the connection to the server.                           *)

\* Attaching a notification drops what the buffer held.
attach(d) == [d EXCEPT !.out = "note"]
\* Socket s after an operation of SocketUtil on it.
socketOf(d, s) == [NewSocket EXCEPT !.exist = s \in d.open]
made(d, s, k) == IF k.exist THEN opened(d, s, {}) ELSE tcpClose(d, s)

\* SocketUtil::Connect of the server.  One that exists gets a new descriptor, and keeps its
\* channel, with the usual handlers, and its context; a TLS close that is put off leaves it
\* as it was, like an address that is none.
connectServer(d) ==
    {[ret |-> o.ret,
      conn |-> IF o.ret >= 0 THEN [d EXCEPT !.open = @ \cup {"server"},
                                            !.closing = @ \ ({"server"} \X Event)]
               ELSE IF o.sock.exist THEN d ELSE tcpClose(d, "server")]
     : o \in Connect(socketOf(d, "server"))}
\* callHandle for an answer that is at hand in resolve(): the request is not complete yet,
\* so serverConnectHandle only connects.  A query under way is not ended.
callHandleNow(d) ==
    {[c.conn EXCEPT !.resolve = IF c.ret < 0 THEN "err" ELSE "uninit",
                    !.overtaken = @ \/ d.armed["udp"] # {}]
     : c \in connectServer(d)}
\* asyncQueryInit: a new UDP socket; 1, a connection in progress, counts as an error too.
asyncQueryInit(d) ==
    LET e == tcpClose(d, "udp")
    IN  {[ret |-> o.ret, conn |-> made(e, "udp", o.sock)]
         : o \in CreateUDPConnect(socketOf(e, "udp"))}
asyncQueryStart(d) == arm(d, "udp", {"write"})
\* The registration between the two can fail as well.
asyncQuery(d) ==
    {[q.conn EXCEPT !.resolve = "err"] : q \in asyncQueryInit(d)}
    \cup {[asyncQueryStart(q.conn) EXCEPT !.resolve = "process"]
          : q \in {r \in asyncQueryInit(d) : r.ret = 0}}
resolve(d) == callHandleNow(d) \cup asyncQuery(d)

\* The label a HEAD request puts on the response is lost again if the host is new.
requestHeaderCompleteHandle(d, h) ==
    IF d.host = h /\ "server" \in d.open
    THEN {[d EXCEPT !.resp.nobody = @ \/ d.method = "head"]}
    ELSE resolve([forceCloseServer(d) EXCEPT !.resp = reset, !.host = h, !.cb = TRUE])

getServerConnectState(d) ==
    IF "server" \in d.open THEN "DONE"
    ELSE IF headerCompleted(d.req) /\ d.resolve = "err" THEN "ERROR"
    ELSE IF headerCompleted(d.req) /\ d.resolve = "process" THEN "ING"
    ELSE "UINIT"

-----------------------------------------------------------------------------
(* RWEventHandle.                                                           *)

predictNextState(d) ==
    [d EXCEPT !.state =
       CASE @ = "PROXY_INIT" -> "CLIENT_RECV_REQUEST"
         [] @ = "CLIENT_RECV_REQUEST" ->
              IF ~needMoreData(d.req) THEN "CLIENT_RECV_REQUEST_DONE" ELSE @
         [] @ = "CLIENT_RECV_REQUEST_DONE" ->
              IF "server" \notin d.open THEN "CLIENT_SEND_RESPONSE"
              ELSE IF d.method = "connect" THEN "CLIENT_SEND_200OK" ELSE "SERVER_SEND_REQUEST"
         [] @ = "CLIENT_SEND_200OK" -> "CLIENT_SEND_200OK_DONE"
         [] @ = "CLIENT_SEND_200OK_DONE" -> "SERVER_HANDSHAKE"
         [] @ = "SERVER_HANDSHAKE" -> "SERVER_HANDSHAKE_DONE"
         [] @ = "SERVER_HANDSHAKE_DONE" -> "CLIENT_HANDSHAKE"
         [] @ = "CLIENT_HANDSHAKE" -> "CLIENT_HANDSHAKE_DONE"
         [] @ = "CLIENT_HANDSHAKE_DONE" -> "CLIENT_RECV_REQUEST"
         [] @ = "SERVER_SEND_REQUEST" -> "SERVER_SEND_REQUEST_DONE"
         [] @ = "SERVER_SEND_REQUEST_DONE" -> "SERVER_RECV_RESPONSE"
         [] @ = "SERVER_RECV_RESPONSE" -> "SERVER_RECV_RESPONSE_DONE"
         [] @ = "SERVER_RECV_RESPONSE_DONE" -> "CLIENT_SEND_RESPONSE"
         [] @ = "CLIENT_SEND_RESPONSE" -> "CLIENT_SEND_RESPONSE_DONE"
         [] @ = "CLIENT_SEND_RESPONSE_DONE" -> "CLIENT_RECV_REQUEST"]

\* The next turn of the loop, and a return from it; callHandle, if it is the caller, then
\* notes that the callback returned 0.
Turn(d) == conn' = d /\ parsing' = FALSE /\ UNCHANGED <<running, nested, silent>>
Return(d) ==
    /\ conn' = IF nested THEN [d EXCEPT !.resolve = "uninit"] ELSE d
    /\ running' = FALSE /\ parsing' = FALSE /\ nested' = FALSE /\ UNCHANGED silent
\* A state is done: on to the next, with the socket's events off.
Proceed(d, s) == Turn(arm(predictNextState(d), s, {}))

proxyInit ==
    /\ conn.state = "PROXY_INIT"
    /\ Turn(enable(predictNextState([conn EXCEPT !.req.hcb = TRUE]), "client", "read"))

RecvSocket == IF conn.state = "CLIENT_RECV_REQUEST" THEN "client" ELSE "server"
Message(d, s) == IF s = "client" THEN d.req ELSE d.resp
\* The socket armed for reading, or for what TLS wants, and what recvNIO left behind: bytes
\* in the in buffer, the context if there was no error.
received(s, r) ==
    LET d == arm(conn, s, {IF r.want = "none" THEN "read" ELSE r.want})
    IN  [d EXCEPT !.ssl = IF r.ssl THEN @ ELSE @ \ {s},
                  !.requests = @ \/ (r.bytes /\ s = "client"),
                  !.out = IF r.bytes /\ s = "server" THEN "data" ELSE @]
Read(ret, bytes) ==
    {r \in recvNIO(RecvSocket \in conn.open, RecvSocket \in conn.ssl) :
        r.ret = ret /\ r.bytes = bytes}

\* An error, before or after some bytes, or a socket that was closed meanwhile.
recvFails ==
    /\ conn.state \in {"CLIENT_RECV_REQUEST", "SERVER_RECV_RESPONSE"}
    /\ \E b \in BOOLEAN : \E r \in Read("ERROR", b) :
       \E f \in closeHandle(received(RecvSocket, r), RecvSocket) : Return(f)
recvNothing ==
    /\ conn.state \in {"CLIENT_RECV_REQUEST", "SERVER_RECV_RESPONSE"}
    /\ \E r \in Read("OK", FALSE) :
         LET s == RecvSocket
         IN  IF r.want = "read" /\ ~needMoreData(Message(conn, s)) THEN Proceed(conn, s)
             ELSE Return(received(s, r))

\* Some bytes, which go to the parser of the message.
recvBytes ==
    /\ conn.state \in {"CLIENT_RECV_REQUEST", "SERVER_RECV_RESPONSE"} /\ ~silent
    /\ \E r \in Read("OK", TRUE) :
         conn' = IF RecvSocket = "client"
                 THEN [received("client", r) EXCEPT !.req = initParser([@ EXCEPT !.tunnel = TRUE]),
                                                    !.resp.tunnel = TRUE]
                 ELSE [received("server", r) EXCEPT !.resp = initParser(@)]
    /\ parsing' = TRUE /\ UNCHANGED <<running, nested, silent>>

\* A callback of the request's parser; the one for the end of a header calls the handle.
calledBack(d, e) ==
    LET f == [d EXCEPT !.req = callback(@, e, FALSE)]
    IN  IF e # "headers" THEN {f}
        ELSE UNION {LET g == [f EXCEPT !.method = m]
                    IN  IF d.req.hcb THEN requestHeaderCompleteHandle(g, h) ELSE {g}
                    : m \in {"get", "connect", "head"}, h \in Host}
\* The bytes of a read end, at the latest when the peers fall silent.
requestCallback ==
    /\ conn.state = "CLIENT_RECV_REQUEST" /\ ~silent
    /\ \E e \in http_parser_execute(conn.req, conn.method = "connect") :
       \E d \in calledBack(conn, e) : conn' = d
    /\ UNCHANGED <<running, parsing, nested, silent>>
responseCallback ==
    /\ conn.state = "SERVER_RECV_RESPONSE" /\ ~silent
    /\ \E e \in http_parser_execute(conn.resp, FALSE), short \in BOOLEAN :
         conn' = [conn EXCEPT !.resp = callback(@, e, short)]
    /\ UNCHANGED <<running, parsing, nested, silent>>

badRequest(d) == Proceed(forceCloseServer(attach(d)), "client")
moreRequest(d) == IF getServerConnectState(d) = "ERROR" THEN Proceed(attach(d), "client")
                  ELSE Return(d)
wholeRequest(d) ==
    CASE getServerConnectState(d) = "ERROR" -> Proceed(attach(d), "client")
      [] getServerConnectState(d) = "ING" ->
           Return([arm(predictNextState(d), "client", {}) EXCEPT !.misled = nested])
      [] OTHER -> Proceed(d, "client")
parsedRequest ==
    /\ conn.state = "CLIENT_RECV_REQUEST"
    /\ \E ret \in parseReturns(conn.req, "request") :
          \/ ret = "ERROR" /\ badRequest(conn)
          \/ ret = "NEED_MOREDATA" /\ moreRequest(conn)
          \/ ret = "COMPLETE" /\ wholeRequest(conn)
parsedResponse ==
    /\ conn.state = "SERVER_RECV_RESPONSE"
    /\ \E ret \in parseReturns(conn.resp, "response") :
          \/ ret = "ERROR" /\ Return(forceCloseProxy(conn))
          \/ ret = "NEED_MOREDATA" /\ Return(conn)
          \/ ret = "COMPLETE" /\ Proceed(conn, "server")

recvDone ==
    /\ conn.state \in {"CLIENT_RECV_REQUEST_DONE", "SERVER_RECV_RESPONSE_DONE"}
    /\ LET d == predictNextState(conn)
       IN  Turn(IF d.state = "CLIENT_SEND_200OK" THEN attach(d) ELSE d)

Sending == conn.state \in {"CLIENT_SEND_200OK", "CLIENT_SEND_RESPONSE", "SERVER_SEND_REQUEST"}
SendSocket == IF conn.state = "SERVER_SEND_REQUEST" THEN "server" ELSE "client"
Unsent == IF SendSocket = "server" THEN conn.requests ELSE conn.out # "empty"
Written == sendNIO(SendSocket \in conn.open, SendSocket \in conn.ssl, Unsent)
sendFails ==
    /\ Sending
    /\ \E r \in Written : r.ret = "ERROR"
    /\ \E d \in closeHandle(conn, SendSocket) : Return(d)
sendAll ==
    /\ Sending
    /\ \E r \in Written : r.done
    /\ Proceed(IF SendSocket = "server" THEN [conn EXCEPT !.requests = FALSE]
               ELSE [conn EXCEPT !.out = "empty"], SendSocket)
\* The socket takes no more, or send() failed, which looks the same; or SSL_write() failed,
\* which costs the context.
sendSome ==
    /\ Sending
    /\ \E r \in Written :
         /\ r.ret = "OK" /\ ~r.done
         /\ Return([arm(conn, SendSocket, {IF r.want = "none" THEN "write" ELSE r.want})
                    EXCEPT !.ssl = IF r.ssl THEN @ ELSE @ \ {SendSocket}])

\* clear() of both messages; their parsers forget their handles too.
cleared(d) == [d EXCEPT !.req = reset, !.resp = reset]
sendDone ==
    /\ conn.state \in {"CLIENT_SEND_200OK_DONE", "CLIENT_SEND_RESPONSE_DONE",
                       "SERVER_SEND_REQUEST_DONE"}
    /\ LET d == predictNextState(IF conn.state = "SERVER_SEND_REQUEST_DONE" THEN conn
                                 ELSE cleared(conn))
       IN  IF d.state # "SERVER_HANDSHAKE" THEN Turn(d)
           ELSE \E r \in prepareSSLContext("server"), q \in prepareSSLContext("client") :
                  IF r = "OK" /\ q = "OK" THEN Turn([d EXCEPT !.ssl = {"client", "server"}])
                  ELSE Return(forceCloseProxy(d))

\* SSLConnect, and resignCertificate after it; SSLAccept.
serverHandshake ==
    /\ conn.state = "SERVER_HANDSHAKE"
    /\ \E r \in IF "server" \in conn.open THEN sctxConnect ELSE {Closed} :
         \/ r.ret = "OK" /\ Proceed(conn, "server")
         \/ r.ret = "OK" /\ Return(forceCloseProxy(conn))
         \/ r.ret = "RECALL" /\ Return(arm(conn, "server", {r.want}))
         \/ r.ret = "ERROR" /\ Return(forceCloseProxy(conn))
serverHandshakeDone ==
    /\ conn.state = "SERVER_HANDSHAKE_DONE"
    /\ Turn(predictNextState(conn)) \/ Return(forceCloseProxy(conn))
clientHandshake ==
    /\ conn.state = "CLIENT_HANDSHAKE"
    /\ \E r \in IF "client" \in conn.open THEN sctxAccept ELSE {Closed} :
         \/ r.ret = "OK" /\ Proceed(conn, "client")
         \/ r.ret = "RECALL" /\ Return(arm(conn, "client", {r.want}))
         \/ r.ret = "ERROR" /\ Return(forceCloseProxy(conn))
clientHandshakeDone ==
    /\ conn.state = "CLIENT_HANDSHAKE_DONE"
    /\ Turn(predictNextState(conn))

parse == requestCallback \/ responseCallback \/ parsedRequest \/ parsedResponse
turn ==
    /\ running /\ ~parsing
    /\ \/ proxyInit \/ recvFails \/ recvNothing \/ recvBytes \/ recvDone
       \/ sendFails \/ sendAll \/ sendSome \/ sendDone
       \/ serverHandshake \/ serverHandshakeDone \/ clientHandshake \/ clientHandshakeDone
RWEventHandle == turn \/ (running /\ parsing /\ parse)

-----------------------------------------------------------------------------
(* The events.                                                              *)

Idle == ~running
Done(d) == conn' = d /\ UNCHANGED <<running, parsing, nested, silent>>

\* Acceptor::acceptHandle takes the object from the queue, and recycles it if there is no
\* client to accept.
accept ==
    /\ Idle /\ conn.free
    /\ \E o \in Accept(socketOf(conn, "client")) :
         IF o.ret = 0 THEN Done([opened(conn, "client", {"read"}) EXCEPT !.free = FALSE])
         ELSE Done(recycle([conn EXCEPT !.free = FALSE]))

\* A read or write event of the client or the server.
rwEvent(s) ==
    /\ Idle
    /\ \E e \in conn.armed[s] :
         \/ /\ Handler(conn, s, e) = "RWEventHandle"
            /\ running' = TRUE /\ UNCHANGED <<conn, parsing, nested, silent>>
         \/ /\ Handler(conn, s, e) = "closeHandle"
            /\ \E d \in closeHandle(conn, s) : Done(d)
\* An error or hang-up, and the timeout of the time wheel.
errorHandle(s) == Idle /\ s \in conn.open /\ Done(forceClose(conn, s))
\* Faulty variant: the server's channel has no timeout callback.
timeoutHandleClient(s) == Idle /\ s \in conn.open /\ s = "client" /\ Done(forceClose(conn, s))
timeoutHandle(s) == Idle /\ s \in conn.open /\ Done(forceClose(conn, s))

\* The query leaves and the socket waits for the answer, or it does not yet.
sendQuery ==
    /\ Idle /\ "write" \in conn.armed["udp"]
    /\ \E r \in sendNIO(TRUE, FALSE, TRUE) :
         Done(IF r.done THEN arm(conn, "udp", {"read"}) ELSE conn)

\* serverConnectHandle with an address, called by callHandle, which recvAnswer called.
connected(d) ==
    IF d.state = "CLIENT_RECV_REQUEST_DONE"
    THEN conn' = d /\ running' = TRUE /\ nested' = TRUE /\ UNCHANGED <<parsing, silent>>
    ELSE Done([d EXCEPT !.resolve = "uninit"])
\* serverConnectHandle without one, or when the connect failed.  Faulty variant: the
\* notification is not attached.
notConnectedMute(d) ==
    [IF d.state = "CLIENT_RECV_REQUEST_DONE" THEN enable(d, "client", "write") ELSE d
     EXCEPT !.resolve = "err"]
notConnected(d) ==
    [IF d.state = "CLIENT_RECV_REQUEST_DONE" THEN enable(attach(d), "client", "write") ELSE d
     EXCEPT !.resolve = "err"]
\* The messages a name server may answer the query with: its question, then up to two
\* records.
Query == packDNSQuery(2)
Answers ==
    LET Question == SubSeq(Query.body, 1, 4)
        Record == {<<>>} \cup {<<n, t>> : n \in {"end", "pointer", "far"}, t \in {"A", "other"}}
    IN  [id : {"mine", "other", "zero"}, answers : 0 .. 2,
         body : {Question \o r \o s : r, s \in Record}]
Answered == UNION {resvDNSAnswer(Query, m) : m \in Answers}

\* DNSResolver::errorHandle: the callback without an address.
resolverFails(d) == Done(tcpClose(notConnected(d), "udp"))
serverConnectHandle(d) ==
    \E c \in connectServer(d) :
        IF c.ret < 0 THEN Done(notConnected(c.conn)) ELSE connected(c.conn)
\* Faulty variant: the query's socket stays open.
recvAnswerOpen ==
    /\ Idle /\ "read" \in conn.armed["udp"] /\ conn.cb
    /\ \E r \in recvNIO(TRUE, FALSE), ret \in Answered :
         IF r.ret = "OK" /\ r.bytes /\ ret = "DNS_OK" THEN serverConnectHandle(conn)
         ELSE resolverFails(conn)
\* Without a byte received the zeroed buffer is taken for the answer, and is none.
recvAnswer ==
    /\ Idle /\ "read" \in conn.armed["udp"] /\ conn.cb
    /\ \E r \in recvNIO(TRUE, FALSE), ret \in Answered :
         IF r.ret = "OK" /\ r.bytes /\ ret = "DNS_OK"
         THEN serverConnectHandle(tcpClose(conn, "udp"))
         ELSE resolverFails(conn)
\* An error of the socket, and the time wheel's timeout, which is what becomes of a query or
\* an answer that got lost.
resolverError == Idle /\ conn.armed["udp"] # {} /\ conn.cb /\ resolverFails(conn)
resolverTimeout == resolverError

-----------------------------------------------------------------------------
ProxyInit == conn = NewConn /\ running = FALSE /\ parsing = FALSE /\ nested = FALSE
             /\ silent = FALSE
PeerEvent ==
    /\ ~silent
    /\ \/ accept \/ sendQuery \/ recvAnswer \/ resolverError
       \/ \E s \in {"client", "server"} : rwEvent(s) \/ errorHandle(s)
Timeout == resolverTimeout \/ \E s \in {"client", "server"} : timeoutHandle(s)
\* From some moment on nothing arrives any more.
goSilent == ~silent /\ silent' = TRUE /\ UNCHANGED <<conn, running, parsing, nested>>
ProxyNext == RWEventHandle \/ PeerEvent \/ Timeout \/ goSilent
\* The loop thread goes on, and the time wheel comes round.
Proxy == /\ ProxyInit /\ [][ProxyNext]_proxyVars
         /\ WF_proxyVars(RWEventHandle) /\ WF_proxyVars(Timeout)

-----------------------------------------------------------------------------
(* Properties.                                                              *)

\* Types; besides, no closed socket is armed or keeps closeHandle as a handler, and outside
\* RWEventHandle none has a TLS context (Socket::tcpClose, enableEvent).
ProxyTypeOK ==
    /\ conn.state \in ProxyState /\ conn.open \subseteq Sock
    /\ conn.req \in Parser /\ conn.resp \in Parser /\ conn.out \in OutBuffer
    /\ conn.host \in Host \cup {NoHost} /\ conn.resolve \in {"uninit", "process", "err"}
    /\ \A s \in Sock : conn.armed[s] # {} => s \in conn.open
    /\ \A h \in conn.closing : h[1] \in conn.open
    /\ Idle => conn.ssl \subseteq conn.open

\* recycle(): an object in the factory's queue was put there once and is as good as new,
\* whichever of its sockets closed first and whatever the resolver was doing: the next
\* client meets no old query, callback, state, buffer or context.
RecycledClean ==
    /\ ~conn.twice
    /\ conn.free => [conn EXCEPT !.method = "get"] = NewConn

\* An object out of the queue has a socket whose closing or timeout brings it back: it is
\* not lost (closeHandle, forceCloseServer).  The exception is an overtaken query: its answer
\* may come when the client is gone and the server waits for its TLS close, and a connect
\* that fails then closes the last socket without a recycle (serverConnectHandle).
NeverLeaked ==
    Idle /\ ~conn.free => conn.open \cap {"client", "server"} # {} \/ conn.overtaken

\* Between callbacks DNS_ON_PROCESS is never left behind: a query is then under way that will
\* end it, for a client that has no server yet (resolve, recvAnswer, errorHandle,
\* callHandle).  And a query under way has its callback, and is the last one asked for.  The
\* exception, overtaken, is a pipelined header, in the read that started it or in a later one,
\* for a host whose address is at hand: resolve() then goes to DNS_UINIT beside the query.
ResolverInStep ==
    Idle => /\ conn.resolve = "process" =>
                 conn.armed["udp"] # {} /\ "client" \in conn.open /\ "server" \notin conn.open
            /\ conn.armed["udp"] # {} => conn.cb /\ (conn.resolve = "process" \/ conn.overtaken)

\* A complete request that waits for its server waits for a query under way, or has the
\* 503 notification attached and the write event enabled (serverConnectHandle).  The
\* exception, misled, is a request completed while RWEventHandle still runs inside the
\* callback that ended the query: resolveState_ is then still DNS_ON_PROCESS.
RequestAwaited ==
    Idle /\ conn.state = "CLIENT_RECV_REQUEST_DONE" /\ ~conn.misled =>
        \/ conn.resolve = "process" /\ "server" \notin conn.open
        \/ conn.resolve = "err" /\ conn.out = "note" /\ "write" \in conn.armed["client"]

\* Once nothing arrives any more the object returns to the factory, through the timeouts of
\* the time wheel alone; or the answer of an overtaken query has closed its last socket.
SilentRecycled == silent ~> conn.free \/ (conn.overtaken /\ conn.open = {})
=============================================================================
