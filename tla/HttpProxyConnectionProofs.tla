---------------------- MODULE HttpProxyConnectionProofs ----------------------
(***************************************************************************)
(* Proofs about HttpProxyConnection, for any set of hosts.  The operators  *)
(* of the model are functions of the connection object, and so are the     *)
(* invariants: Waiting says what holds of the object between two events,   *)
(* Busy what holds of it between two turns of the loop in RWEventHandle,   *)
(* where less is true.  Each operator has a lemma that says which fields   *)
(* it changes, and to what; the operators stay closed after it.            *)
(***************************************************************************)
EXTENDS HttpProxyConnection, TLAPS

Conn == [state : ProxyState, open : SUBSET Sock, armed : [Sock -> SUBSET Event],
         closing : SUBSET (Sock \X Event), ssl : SUBSET Sock, req : Parser, resp : Parser,
         method : {"get", "connect", "head"}, host : Host \cup {NoHost},
         requests : BOOLEAN, out : OutBuffer, resolve : {"uninit", "process", "err"},
         cb : BOOLEAN, misled : BOOLEAN, overtaken : BOOLEAN, free : BOOLEAN,
         twice : BOOLEAN]

\* What a closed socket has lost.
Sockets(d) ==
    /\ \A s \in Sock : d.armed[s] # {} => s \in d.open
    /\ \A s \in Sock, e \in Event : <<s, e>> \in d.closing => s \in d.open
    /\ "udp" \notin d.ssl
    /\ "client" \in d.ssl => "client" \in d.open

\* The request: not complete as long as it is read, new after the states that clear it.  An
\* object with a TLS client has lost its handle for the end of the header, so that a query
\* never runs beside TLS.
Fresh == {"PROXY_INIT", "SERVER_HANDSHAKE", "SERVER_HANDSHAKE_DONE",
          "CLIENT_HANDSHAKE", "CLIENT_HANDSHAKE_DONE"}
Messages(d) ==
    /\ d.state = "CLIENT_RECV_REQUEST" => needMoreData(d.req)
    /\ d.state \in Fresh => d.req.state = "UNINIT"
    /\ d.state = "PROXY_INIT" \/ d.req.hcb => "client" \notin d.ssl

\* DNS_ON_PROCESS is the state of a query under way for a client without a server, the only
\* other query under way is one that was overtaken.
Querying(d) ==
    /\ d.resolve = "process" =>
         /\ d.armed["udp"] # {} /\ "client" \in d.open \ d.ssl /\ "server" \notin d.open
         /\ d.state \in {"CLIENT_RECV_REQUEST", "CLIENT_RECV_REQUEST_DONE"}
    /\ d.armed["udp"] # {} => d.cb /\ (d.resolve = "process" \/ d.overtaken)

Clean(d) == [d EXCEPT !.method = "get"] = NewConn
\* Without a client the server's remaining events are those that close it; but the answer of
\* an overtaken query may have given it a new connection.
Held(d) ==
    "client" \notin d.open =>
        \/ d.overtaken
        \/ "server" \in d.open /\ \A e \in d.armed["server"] : <<"server", e>> \in d.closing
Awaited(d) ==
    /\ "server" \notin d.open /\ "client" \notin d.ssl
    /\ \/ d.resolve = "process" /\ d.armed["client"] = {}
       \/ d.resolve = "err" /\ d.out = "note" /\ "write" \in d.armed["client"]

\* Between two events, or (n) back in the resolver's callback, whose resolveState_ is stale.
Settled(d, n) ==
    /\ d \in Conn /\ Sockets(d) /\ Messages(d) /\ ~d.twice
    /\ d.ssl \subseteq d.open /\ d.state # "CLIENT_SEND_200OK_DONE"
    /\ IF d.free THEN Clean(d) ELSE Held(d)
    /\ IF n THEN /\ d.armed["udp"] = {}
                 /\ d.state = "CLIENT_RECV_REQUEST_DONE" => d.misled
       ELSE /\ Querying(d)
            /\ /\ d.state = "CLIENT_RECV_REQUEST_DONE"
               /\ ~d.misled \/ d.resolve = "process"
               => Awaited(d)
Waiting(d) == Settled(d, FALSE)

\* In the loop.  n: it runs inside the resolver's callback, whose resolveState_ is stale
\* then, but the handle for the end of a header, which would start a query, is lost before
\* the next request is read.
Busy(d, n) ==
    /\ d \in Conn /\ Sockets(d) /\ Messages(d) /\ ~d.twice /\ ~d.free
    /\ "client" \notin d.open => d.overtaken /\ d.state # "CLIENT_SEND_200OK_DONE"
    /\ "server" \in d.ssl => "server" \in d.open \/ d.state = "SERVER_HANDSHAKE"
    /\ IF n THEN /\ d.armed["udp"] = {} /\ d.state # "PROXY_INIT"
                 /\ d.req.hcb => d.state \notin Fresh \cup {"CLIENT_RECV_REQUEST"}
       ELSE Querying(d) /\ (d.resolve = "process" => d.state = "CLIENT_RECV_REQUEST")

\* The object while its request is read, Busy but for the request's completeness.
Parsing(d, n) ==
    /\ d \in Conn /\ Sockets(d) /\ ~d.twice /\ ~d.free
    /\ d.state = "CLIENT_RECV_REQUEST" /\ "client" \in d.open
    /\ "server" \in d.ssl => "server" \in d.open
    /\ d.req.hcb => "client" \notin d.ssl
    /\ IF n THEN d.armed["udp"] = {} /\ ~d.req.hcb ELSE Querying(d)

ProxyInv ==
    /\ running \in BOOLEAN /\ parsing \in BOOLEAN /\ nested \in BOOLEAN /\ silent \in BOOLEAN
    /\ IF ~running THEN Waiting(conn) /\ ~nested /\ ~parsing
       ELSE IF ~parsing THEN Busy(conn, nested)
       ELSE \/ Parsing(conn, nested)
            \/ conn.state = "SERVER_RECV_RESPONSE" /\ Busy(conn, nested)
-----------------------------------------------------------------------------
(* The operators on sockets.                                                *)

\* What is not about the sockets.
Rest(d, e) ==
    /\ e.state = d.state /\ e.req = d.req /\ e.resp = d.resp /\ e.out = d.out
    /\ e.resolve = d.resolve /\ e.cb = d.cb
    /\ e.misled = d.misled /\ e.free = d.free /\ e.twice = d.twice /\ e.overtaken = d.overtaken

LEMMA Events == "read" \in Event /\ "write" \in Event
BY DEF Event

LEMMA Arm ==
    ASSUME NEW d \in Conn, NEW s \in Sock, NEW E \in SUBSET Event
    PROVE  /\ arm(d, s, E) \in Conn /\ Rest(d, arm(d, s, E))
           /\ arm(d, s, E).open = d.open /\ arm(d, s, E).closing = d.closing
           /\ arm(d, s, E).ssl = d.ssl
           /\ arm(d, s, E).armed[s] = IF s \in d.open THEN E ELSE d.armed[s]
           /\ \A t \in Sock \ {s} : arm(d, s, E).armed[t] = d.armed[t]
BY DEF arm, Conn, Rest

LEMMA TcpClose ==
    ASSUME NEW d \in Conn, NEW s \in Sock
    PROVE  /\ tcpClose(d, s) \in Conn /\ Rest(d, tcpClose(d, s))
           /\ tcpClose(d, s).open = d.open \ {s}
           /\ tcpClose(d, s).ssl = d.ssl \ {s}
           /\ tcpClose(d, s).closing = d.closing \ ({s} \X Event)
           /\ tcpClose(d, s).armed[s] = {}
           /\ \A t \in Sock \ {s} : tcpClose(d, s).armed[t] = d.armed[t]
BY DEF tcpClose, Conn, Rest

LEMMA Opened ==
    ASSUME NEW d \in Conn, NEW s \in Sock, NEW E \in SUBSET Event
    PROVE  /\ opened(d, s, E) \in Conn /\ Rest(d, opened(d, s, E))
           /\ opened(d, s, E).open = d.open \cup {s}
           /\ opened(d, s, E).closing = d.closing /\ opened(d, s, E).ssl = d.ssl
           /\ opened(d, s, E).armed[s] = E
           /\ \A t \in Sock \ {s} : opened(d, s, E).armed[t] = d.armed[t]
BY DEF opened, Conn, Rest

LEMMA AllNew ==
    ASSUME NEW r \in Conn,
           r.state = "PROXY_INIT" /\ r.open = {} /\ r.armed = [s \in Sock |-> {}],
           r.closing = {} /\ r.ssl = {} /\ r.req = reset /\ r.resp = reset,
           r.host = NoHost /\ r.requests = FALSE /\ r.out = "empty" /\ r.resolve = "uninit",
           r.cb = FALSE /\ r.misled = FALSE /\ r.overtaken = FALSE,
           r.free = TRUE /\ r.twice = FALSE
    PROVE  Clean(r)
<1> DEFINE q == [state |-> r.state, open |-> r.open, armed |-> r.armed,
                 closing |-> r.closing, ssl |-> r.ssl, req |-> r.req, resp |-> r.resp,
                 method |-> "get", host |-> r.host, requests |-> r.requests, out |-> r.out,
                 resolve |-> r.resolve, cb |-> r.cb, misled |-> r.misled,
                 overtaken |-> r.overtaken, free |-> r.free, twice |-> r.twice]
<1>1. [r EXCEPT !.method = "get"] = q
  BY SMTT(20) DEF Conn
<1>2. q = NewConn
  BY DEF NewConn
<1> QED  BY <1>1, <1>2 DEF Clean

\* An object whose client and server are closed is clean once it is recycled.
LEMMA Recycle ==
    ASSUME NEW d \in Conn, Sockets(d), ~d.twice, ~d.free,
           d.open \subseteq {"udp"}, d.ssl = {}
    PROVE  Clean(recycle(d)) /\ recycle(d) \in Conn /\ recycle(d).free /\ ~recycle(d).twice
<1> DEFINE c == tcpClose(d, "udp")
<1>1. c \in Conn /\ c.open = {} /\ c.ssl = {} /\ ~c.twice
  BY TcpClose DEF Rest, Sock
<1>2. c.closing = {}
  BY TcpClose DEF Sockets, Sock, Conn
<1>3. c.armed = [s \in Sock |-> {}]
  <2>1. c.armed \in [Sock -> SUBSET Event]
    BY <1>1 DEF Conn
  <2>2. \A s \in Sock : c.armed[s] = {}
    BY TcpClose DEF Sockets, Sock
  <2> QED  BY <2>1, <2>2
<1> HIDE DEF c
<1>4. (c.twice \/ d.free) = FALSE
  BY <1>1
<1> DEFINE r == [c EXCEPT
        !.host = NoHost, !.req = reset, !.resp = reset,
        !.requests = FALSE, !.out = "empty", !.resolve = "uninit", !.cb = FALSE,
        !.state = "PROXY_INIT", !.misled = FALSE, !.overtaken = FALSE, !.twice = FALSE,
        !.free = TRUE]
<1>5. recycle(d) = r
  BY <1>4 DEF recycle, c
<1>6. reset \in Parser /\ "PROXY_INIT" \in ProxyState /\ "empty" \in OutBuffer
  BY DEF reset, Parser, ParseState, ProxyState, OutBuffer
<1>7. r \in Conn
  BY <1>1, <1>6, ZenonT(30) DEF Conn
<1>8. /\ r.state = "PROXY_INIT" /\ r.open = {} /\ r.armed = [s \in Sock |-> {}]
      /\ r.closing = {} /\ r.ssl = {} /\ r.req = reset /\ r.resp = reset
      /\ r.host = NoHost /\ r.requests = FALSE /\ r.out = "empty" /\ r.resolve = "uninit"
      /\ r.cb = FALSE /\ r.misled = FALSE /\ r.overtaken = FALSE
      /\ r.free = TRUE /\ r.twice = FALSE
  BY <1>1, <1>2, <1>3 DEF Conn
<1> HIDE DEF r
<1>9. Clean(r)
  BY <1>7, <1>8, AllNew
<1> QED  BY <1>5, <1>7, <1>8, <1>9

\* Such an object waits for its next client.
LEMMA CleanWaits ==
    ASSUME NEW d \in Conn, Clean(d)
    PROVE  /\ \A n \in BOOLEAN : Settled(d, n)
           /\ d.free /\ d.state = "PROXY_INIT" /\ d.open = {}
           /\ d.ssl = {} /\ d.closing = {} /\ d.req = reset /\ d.resolve = "uninit"
           /\ ~d.overtaken /\ \A s \in Sock : d.armed[s] = {}
<1> DEFINE c == [d EXCEPT !.method = "get"]
<1>1. /\ d.state = c.state /\ d.open = c.open /\ d.armed = c.armed /\ d.closing = c.closing
      /\ d.ssl = c.ssl /\ d.req = c.req /\ d.resolve = c.resolve
      /\ d.free = c.free /\ d.twice = c.twice /\ d.overtaken = c.overtaken
  BY DEF Conn
<1>2. c = NewConn
  BY DEF Clean
<1> HIDE DEF c
<1>3. /\ d.state = "PROXY_INIT" /\ d.open = {} /\ d.armed = [s \in Sock |-> {}]
      /\ d.closing = {} /\ d.ssl = {} /\ d.req = reset /\ d.resolve = "uninit"
      /\ d.free = TRUE /\ d.twice = FALSE /\ d.overtaken = FALSE
  BY <1>1, <1>2 DEF NewConn
<1>4. Sockets(d) /\ Querying(d)
  BY <1>3 DEF Sockets, Querying, Sock
<1>5. Messages(d)
  BY <1>3 DEF Messages, reset, needMoreData
<1>6. d.armed["udp"] = {}
  BY <1>3 DEF Sock
<1> QED  BY <1>3, <1>4, <1>5, <1>6 DEF Settled

LEMMA SocketsArm ==
    ASSUME NEW d \in Conn, NEW s \in Sock, NEW E \in SUBSET Event, Sockets(d)
    PROVE  Sockets(arm(d, s, E))
BY Arm DEF Sockets

\* Only the client's events are enabled one by one.
LEMMA Enable ==
    ASSUME NEW d \in Conn, NEW w \in Event, Sockets(d)
    PROVE  /\ enable(d, "client", w) \in Conn /\ Rest(d, enable(d, "client", w))
           /\ Sockets(enable(d, "client", w))
           /\ enable(d, "client", w).open = d.open
           /\ enable(d, "client", w).closing = d.closing
           /\ enable(d, "client", w).ssl = d.ssl
           /\ "client" \in d.open => w \in enable(d, "client", w).armed["client"]
           /\ enable(d, "client", w).armed["udp"] = d.armed["udp"]
           /\ enable(d, "client", w).armed["server"] = d.armed["server"]
<1> DEFINE E == d.armed["client"] \cup {w}
<1>1. E \in SUBSET Event /\ "client" \in Sock
  BY DEF Conn, Sock
<1>2. enable(d, "client", w) = arm(d, "client", E)
  BY DEF enable
<1>3. w \in E
  OBVIOUS
<1> HIDE DEF E
<1>4. Sockets(arm(d, "client", E))
  BY <1>1, SocketsArm
<1> QED  BY <1>1, <1>2, <1>3, <1>4, Arm DEF Sock

LEMMA SocketsOpened ==
    ASSUME NEW d \in Conn, NEW s \in Sock, NEW E \in SUBSET Event, Sockets(d)
    PROVE  Sockets(opened(d, s, E))
BY Opened DEF Sockets

LEMMA SocketsClosed ==
    ASSUME NEW d \in Conn, NEW s \in Sock, Sockets(d)
    PROVE  Sockets(tcpClose(d, s))
BY TcpClose DEF Sockets, Sock

LEMMA ServerClosed ==
    ASSUME NEW d \in Conn, Sockets(d)
    PROVE  /\ tcpClose(d, "server") \in Conn /\ Sockets(tcpClose(d, "server"))
           /\ Rest(d, tcpClose(d, "server"))
           /\ tcpClose(d, "server").open = d.open \ {"server"}
           /\ tcpClose(d, "server").ssl = d.ssl \ {"server"}
           /\ tcpClose(d, "server").armed["udp"] = d.armed["udp"]
           /\ tcpClose(d, "server").armed["client"] = d.armed["client"]
<1>1. "server" \in Sock /\ "udp" \in Sock \ {"server"} /\ "client" \in Sock \ {"server"}
  BY DEF Sock
<1>2. Sockets(tcpClose(d, "server"))
  BY <1>1, SocketsClosed
<1> DEFINE c == tcpClose(d, "server")
<1>3. /\ c \in Conn /\ Rest(d, c) /\ c.open = d.open \ {"server"} /\ c.ssl = d.ssl \ {"server"}
      /\ \A t \in Sock \ {"server"} : c.armed[t] = d.armed[t]
  BY <1>1, TcpClose, SMTT(30)
<1> HIDE DEF c
<1>4. c.armed["udp"] = d.armed["udp"] /\ c.armed["client"] = d.armed["client"]
  BY <1>1, <1>3
<1> QED  BY <1>2, <1>3, <1>4 DEF c

\* forceCloseProxy recycles whatever the object was doing.
LEMMA ForceCloseProxy ==
    ASSUME NEW d \in Conn, Sockets(d), ~d.twice, ~d.free
    PROVE  forceCloseProxy(d) \in Conn /\ Clean(forceCloseProxy(d))
<1> DEFINE c == tcpClose(d, "client")
           e == tcpClose(c, "server")
<1>1. c \in Conn /\ Sockets(c) /\ c.open = d.open \ {"client"} /\ c.ssl = d.ssl \ {"client"}
      /\ Rest(d, c)
  BY TcpClose, SocketsClosed DEF Sock
<1>2. e \in Conn /\ Sockets(e) /\ e.open = c.open \ {"server"} /\ e.ssl = c.ssl \ {"server"}
      /\ Rest(c, e)
  BY <1>1, TcpClose, SocketsClosed DEF Sock
<1>3. e.open \subseteq {"udp"} /\ e.ssl = {} /\ ~e.twice /\ ~e.free
  BY <1>1, <1>2 DEF Conn, Sockets, Rest, Sock
<1>4. forceCloseProxy(d) = recycle(e)
  BY <1>3 DEF forceCloseProxy, forceCloseServer
<1> HIDE DEF e
<1> QED  BY <1>2, <1>3, <1>4, Recycle

\* forceCloseServer of an object whose client is there, and of one whose client is gone.
LEMMA ForceCloseServer ==
    ASSUME NEW d \in Conn
    PROVE  /\ "client" \in d.open => forceCloseServer(d) = tcpClose(d, "server")
           /\ Sockets(d) /\ ~d.twice /\ ~d.free /\ "client" \notin d.open =>
                forceCloseServer(d) \in Conn /\ Clean(forceCloseServer(d))
<1> DEFINE e == tcpClose(d, "server")
<1>1. e \in Conn /\ e.open = d.open \ {"server"} /\ e.ssl = d.ssl \ {"server"} /\ Rest(d, e)
  BY TcpClose DEF Sock
<1>2. CASE "client" \in d.open
  BY <1>1, <1>2 DEF forceCloseServer
<1>3. CASE "client" \notin d.open
  <2> SUFFICES ASSUME Sockets(d), ~d.twice, ~d.free
               PROVE  forceCloseServer(d) \in Conn /\ Clean(forceCloseServer(d))
    BY <1>3
  <2>1. Sockets(e)
    BY SocketsClosed DEF Sock
  <2>2. e.open \subseteq {"udp"} /\ e.ssl = {} /\ ~e.twice /\ ~e.free
    BY <1>1, <1>3 DEF Conn, Sockets, Rest, Sock
  <2>3. forceCloseServer(d) = recycle(e)
    BY <2>2 DEF forceCloseServer
  <2> HIDE DEF e
  <2> QED  BY <1>1, <2>1, <2>2, <2>3, Recycle
<1> QED  BY <1>2, <1>3

\* A close that TLS puts off.
LEMMA CloseRecalled ==
    ASSUME NEW d \in Conn, NEW s \in Sock, NEW e \in closeRecalled(d, s)
    PROVE  /\ s \in d.ssl \cap d.open /\ e \in Conn /\ Rest(d, e)
           /\ e.open = d.open /\ e.ssl = d.ssl
           /\ \A t \in Sock \ {s} : e.armed[t] = d.armed[t]
           /\ \E w \in Event : e.armed[s] = {w} /\ e.closing = d.closing \cup {<<s, w>>}
<1>1. s \in d.ssl \cap d.open
  BY DEF closeRecalled
<1>2. PICK r \in {q \in sctxClose : q.ret = "RECALL"} :
        e = [arm(d, s, {r.want}) EXCEPT !.closing = @ \cup {<<s, r.want>>}]
  BY <1>1 DEF closeRecalled
<1>3. r.want \in Event
  BY <1>2 DEF sctxClose, sctxIO
<1> DEFINE w == r.want
           a == arm(d, s, {w})
<1>4. /\ a \in Conn /\ Rest(d, a) /\ a.open = d.open /\ a.closing = d.closing /\ a.ssl = d.ssl
      /\ a.armed[s] = {w} /\ \A t \in Sock \ {s} : a.armed[t] = d.armed[t]
  BY <1>1, <1>3, Arm
<1> HIDE DEF a
<1>5. e = [a EXCEPT !.closing = @ \cup {<<s, w>>}]
  BY <1>2 DEF a
<1> HIDE DEF w
<1>6. e \in Conn /\ Rest(a, e) /\ e.open = a.open /\ e.ssl = a.ssl /\ e.armed = a.armed
      /\ e.closing = a.closing \cup {<<s, w>>}
  BY <1>3, <1>4, <1>5 DEF Conn, Rest, w
<1> QED  BY <1>1, <1>3, <1>4, <1>6 DEF Rest, w

\* closeHandle, of an object in use, leaves it in use and settled, or recycled.
LEMMA CloseHandle ==
    ASSUME NEW d, NEW n \in BOOLEAN, Settled(d, n), ~d.free, NEW s \in {"client", "server"},
           s = "server" => n \/ d.resolve # "process", NEW e \in closeHandle(d, s)
    PROVE  Settled(e, n)
<1> USE DEF Sock
<1>1. /\ d \in Conn /\ Sockets(d) /\ Messages(d) /\ ~d.twice /\ d.ssl \subseteq d.open
      /\ Held(d)
  BY DEF Settled
<1>2. ASSUME e \in closeRecalled(d, s)  PROVE Settled(e, n)
  <2>1. PICK w \in Event : e.armed[s] = {w} /\ e.closing = d.closing \cup {<<s, w>>}
    BY <1>1, <1>2, CloseRecalled
  <2>2. /\ s \in d.ssl \cap d.open /\ e \in Conn /\ Rest(d, e)
        /\ e.open = d.open /\ e.ssl = d.ssl
        /\ \A t \in Sock \ {s} : e.armed[t] = d.armed[t]
    BY <1>1, <1>2, CloseRecalled
  <2>3. Sockets(e)
    BY <1>1, <2>1, <2>2 DEF Sockets
  <2>4. Messages(e)
    BY <1>1, <2>2 DEF Messages, Rest
  <2>5. Held(e)
    BY <1>1, <2>1, <2>2 DEF Held, Rest
  <2>6. ~e.twice /\ ~e.free /\ e.ssl \subseteq e.open /\ e.armed["udp"] = d.armed["udp"]
    BY <1>1, <2>2 DEF Rest
  <2>7. CASE n
    BY <2>2, <2>3, <2>4, <2>5, <2>6, <2>7 DEF Settled, Rest
  <2>8. CASE ~n
    <3>1. ~Awaited(d) /\ d.resolve # "process"
      BY <2>2, <2>8 DEF Awaited, Settled, Querying
    <3>2. Querying(e)
      BY <2>2, <2>6, <2>8 DEF Settled, Querying, Rest
    <3> QED  BY <2>2, <2>3, <2>4, <2>5, <2>6, <2>8, <3>1, <3>2 DEF Settled, Rest
  <2> QED  BY <2>7, <2>8
<1> DEFINE c == tcpClose(d, s)
<1>3. /\ c \in Conn /\ Rest(d, c) /\ c.open = d.open \ {s} /\ c.ssl = d.ssl \ {s}
      /\ c.armed[s] = {} /\ \A t \in Sock \ {s} : c.armed[t] = d.armed[t]
  BY <1>1, TcpClose
<1>4. Sockets(c) /\ ~c.twice /\ ~c.free /\ c.ssl \subseteq c.open /\ c.armed["udp"] = d.armed["udp"]
  BY <1>1, <1>3, SocketsClosed DEF Rest
<1>5. c.closing = d.closing \ ({s} \X Event)
  BY <1>1, TcpClose
<1>6. Messages(c)
  BY <1>1, <1>3 DEF Messages, Rest
<1> HIDE DEF c
<1>7. ASSUME s = "client", e \in clientClosed(c)  PROVE Settled(e, n)
  <2>1. CASE "server" \notin c.open
    <3>1. e = recycle(c)
      BY <1>7, <2>1 DEF clientClosed
    <3>2. c.open \subseteq {"udp"} /\ c.ssl = {}
      BY <1>1, <1>3, <1>4, <1>7, <2>1 DEF Conn, Sockets
    <3> QED  BY <1>3, <1>4, <3>1, <3>2, Recycle, CleanWaits
  <2>2. CASE "server" \in c.open /\ e \notin closeRecalled(c, "server")
    <3> DEFINE b == tcpClose(c, "server")
    <3>1. e = recycle(b)
      BY <1>7, <2>2 DEF clientClosed
    <3>2. /\ b \in Conn /\ Sockets(b) /\ Rest(c, b)
          /\ b.open = c.open \ {"server"} /\ b.ssl = c.ssl \ {"server"}
      BY <1>3, <1>4, TcpClose, SocketsClosed
    <3>3. b.open \subseteq {"udp"} /\ b.ssl = {} /\ ~b.twice /\ ~b.free
      BY <1>3, <1>4, <1>7, <3>2 DEF Conn, Sockets, Rest
    <3> HIDE DEF b
    <3> QED  BY <3>1, <3>2, <3>3, Recycle, CleanWaits
  <2>3. CASE "server" \in c.open /\ e \in closeRecalled(c, "server")
    <3>1. PICK w \in Event : /\ e.armed["server"] = {w}
                             /\ e.closing = c.closing \cup {<<"server", w>>}
      BY <1>3, <2>3, CloseRecalled
    <3>2. /\ e \in Conn /\ Rest(c, e) /\ e.open = c.open /\ e.ssl = c.ssl
          /\ \A t \in Sock \ {"server"} : e.armed[t] = c.armed[t]
      BY <1>3, <2>3, CloseRecalled
    <3>3. Sockets(e) /\ Held(e)
      BY <1>4, <1>7, <2>3, <3>1, <3>2 DEF Sockets, Held
    <3>4. Messages(e) /\ ~e.twice /\ ~e.free /\ e.ssl \subseteq e.open
          /\ e.armed["udp"] = d.armed["udp"]
      BY <1>3, <1>4, <1>6, <3>2 DEF Messages, Rest
    <3>5. ~Awaited(d) /\ "server" \in d.open
      BY <1>3, <2>3 DEF Awaited
    <3>6. CASE n
      BY <1>3, <3>2, <3>3, <3>4, <3>6 DEF Settled, Rest
    <3>7. CASE ~n
      <4>1. Querying(e) /\ d.resolve # "process"
        BY <1>3, <3>2, <3>4, <3>5, <3>7 DEF Settled, Querying, Rest
      <4> QED  BY <1>3, <3>2, <3>3, <3>4, <3>5, <3>7, <4>1 DEF Settled, Rest
    <3> QED  BY <3>6, <3>7
  <2> QED  BY <2>1, <2>2, <2>3
<1>8. ASSUME s = "server", e = serverClosed(c)  PROVE Settled(e, n)
  <2>1. CASE "client" \notin c.open
    <3>1. e = recycle(c)
      BY <1>8, <2>1 DEF serverClosed
    <3>2. c.open \subseteq {"udp"} /\ c.ssl = {}
      BY <1>3, <1>4, <1>8, <2>1 DEF Conn, Sockets
    <3> QED  BY <1>3, <1>4, <3>1, <3>2, Recycle, CleanWaits
  <2>2. CASE "client" \in c.open /\ c.out # "empty"
    <3> DEFINE b == [c EXCEPT !.state = "CLIENT_SEND_RESPONSE"]
    <3>1. e = enable(b, "client", "write")
      BY <1>8, <2>2 DEF serverClosed
    <3>2. /\ b \in Conn /\ b.state = "CLIENT_SEND_RESPONSE" /\ b.open = c.open
          /\ b.armed = c.armed /\ b.closing = c.closing /\ b.ssl = c.ssl /\ b.req = c.req
          /\ b.resolve = c.resolve /\ b.cb = c.cb /\ b.free = c.free /\ b.twice = c.twice
          /\ b.overtaken = c.overtaken
      BY <1>3 DEF Conn, ProxyState
    <3>3. Sockets(b) /\ Messages(b)
      BY <1>4, <1>6, <3>2 DEF Sockets, Messages, Fresh
    <3> HIDE DEF b
    <3>4. /\ e \in Conn /\ Rest(b, e) /\ e.open = b.open /\ e.ssl = b.ssl /\ Sockets(e)
          /\ e.armed["udp"] = b.armed["udp"]
      BY <3>1, <3>2, <3>3, Enable, Events
    <3>5. Messages(e) /\ ~e.twice /\ ~e.free /\ e.ssl \subseteq e.open /\ Held(e)
      BY <1>4, <2>2, <3>2, <3>3, <3>4 DEF Messages, Rest, Held
    <3>6. /\ e.armed["udp"] = d.armed["udp"] /\ e.state = "CLIENT_SEND_RESPONSE"
          /\ e.resolve = d.resolve /\ e.cb = d.cb /\ e.overtaken = d.overtaken
      BY <1>3, <1>4, <3>2, <3>4 DEF Rest
    <3>7. Querying(e) \/ n
      BY <1>8, <3>6 DEF Settled, Querying
    <3>8. n => e.armed["udp"] = {}
      BY <3>6 DEF Settled
    <3> QED  BY <3>4, <3>5, <3>6, <3>7, <3>8 DEF Settled
  <2>3. CASE "client" \in c.open /\ c.out = "empty"
    <3>1. e = enable(c, "client", "read")
      BY <1>8, <2>3 DEF serverClosed
    <3>2. /\ e \in Conn /\ Rest(c, e) /\ e.open = c.open /\ e.ssl = c.ssl /\ Sockets(e)
          /\ e.armed["udp"] = c.armed["udp"]
      BY <1>3, <1>4, <3>1, Enable, Events
    <3>3. Messages(e) /\ ~e.twice /\ ~e.free /\ e.ssl \subseteq e.open /\ Held(e)
      BY <1>4, <1>6, <2>3, <3>2 DEF Messages, Rest, Held
    <3>4. /\ e.armed["udp"] = d.armed["udp"] /\ e.state = d.state /\ e.resolve = d.resolve
          /\ e.cb = d.cb /\ e.misled = d.misled /\ e.overtaken = d.overtaken /\ d.out = "empty"
      BY <1>3, <1>4, <1>8, <2>3, <3>2 DEF Rest
    <3>5. CASE n
      BY <3>2, <3>3, <3>4, <3>5 DEF Settled
    <3>6. CASE ~n
      <4>1. Querying(e) /\ d.resolve # "process"
        BY <1>8, <3>4, <3>6 DEF Settled, Querying
      <4>2. ~Awaited(d)
        BY <3>4, <4>1 DEF Awaited
      <4> QED  BY <1>8, <3>2, <3>3, <3>4, <3>6, <4>1, <4>2 DEF Settled
    <3> QED  BY <3>5, <3>6
  <2> QED  BY <2>1, <2>2, <2>3
<1> QED  BY <1>2, <1>7, <1>8 DEF closeHandle, c

\* What Return makes of an object that is settled.
LEMMA Returned ==
    ASSUME NEW d, NEW n \in BOOLEAN, Settled(d, n)
    PROVE  Waiting(IF n THEN [d EXCEPT !.resolve = "uninit"] ELSE d)
<1>1. CASE ~n
  BY <1>1 DEF Waiting
<1>2. CASE n /\ d.free
  <2>1. d \in Conn /\ Clean(d)
    BY <1>2 DEF Settled
  <2>2. Waiting(d) /\ d.resolve = "uninit"
    BY <2>1, CleanWaits DEF Waiting
  <2>3. [d EXCEPT !.resolve = "uninit"] = d
    BY <2>1, <2>2 DEF Conn
  <2> QED  BY <1>2, <2>2, <2>3
<1>3. CASE n /\ ~d.free
  <2> DEFINE e == [d EXCEPT !.resolve = "uninit"]
  <2>1. d \in Conn /\ Sockets(d) /\ Messages(d) /\ ~d.twice /\ d.ssl \subseteq d.open
        /\ Held(d) /\ d.armed["udp"] = {}
        /\ (d.state = "CLIENT_RECV_REQUEST_DONE" => d.misled)
    BY <1>3 DEF Settled
  <2>2. /\ e \in Conn /\ e.resolve = "uninit" /\ e.state = d.state /\ e.open = d.open
        /\ e.armed = d.armed /\ e.closing = d.closing /\ e.ssl = d.ssl /\ e.req = d.req
        /\ e.misled = d.misled /\ e.free = d.free /\ e.twice = d.twice
        /\ e.overtaken = d.overtaken
    BY <2>1 DEF Conn
  <2> HIDE DEF e
  <2>3. Sockets(e) /\ Messages(e) /\ Held(e)
    BY <2>1, <2>2 DEF Sockets, Messages, Held
  <2>4. Querying(e)
    BY <2>1, <2>2 DEF Querying
  <2>5. Settled(e, FALSE)
    BY <1>3, <2>1, <2>2, <2>3, <2>4 DEF Settled
  <2> QED  BY <1>3, <2>5 DEF e, Waiting
<1> QED  BY <1>1, <1>2, <1>3

\* Out of the loop in a state where nothing is awaited.
LEMMA BusySettles ==
    ASSUME NEW d, NEW n \in BOOLEAN, Busy(d, n),
           d.state \notin {"CLIENT_RECV_REQUEST_DONE", "CLIENT_SEND_200OK_DONE"},
           "server" \in d.ssl => "server" \in d.open
    PROVE  Settled(d, n)
<1>1. d \in Conn /\ Sockets(d) /\ Messages(d) /\ ~d.twice /\ ~d.free
  BY DEF Busy
<1>2. d.ssl \subseteq d.open
  BY DEF Busy, Conn, Sockets, Sock
<1>3. Held(d)
  BY DEF Busy, Held
<1> QED  BY <1>1, <1>2, <1>3 DEF Busy, Settled

-----------------------------------------------------------------------------
(* The states, and the request as it is read.                               *)

\* predictNextState changes the state alone.
LEMMA Predicted ==
    ASSUME NEW d \in Conn
    PROVE  /\ predictNextState(d) \in Conn
           /\ predictNextState(d).open = d.open /\ predictNextState(d).armed = d.armed
           /\ predictNextState(d).closing = d.closing /\ predictNextState(d).ssl = d.ssl
           /\ predictNextState(d).req = d.req /\ predictNextState(d).out = d.out
           /\ predictNextState(d).resolve = d.resolve /\ predictNextState(d).cb = d.cb
           /\ predictNextState(d).misled = d.misled /\ predictNextState(d).free = d.free
           /\ predictNextState(d).twice = d.twice /\ predictNextState(d).overtaken = d.overtaken
<1>1. d.state \in ProxyState
  BY DEF Conn
<1>2. predictNextState(d).state \in ProxyState
  BY <1>1 DEF predictNextState, ProxyState, Conn
<1>3. PICK T : predictNextState(d) = [d EXCEPT !.state = T]
  BY Zenon DEF predictNextState
<1>4. T \in ProxyState
  BY <1>2, <1>3 DEF Conn
<1> QED  BY <1>3, <1>4 DEF Conn

LEMMA NextState ==
    ASSUME NEW d \in Conn
    PROVE  /\ d.state = "CLIENT_RECV_REQUEST" =>
                predictNextState(d).state = IF needMoreData(d.req) THEN "CLIENT_RECV_REQUEST"
                                            ELSE "CLIENT_RECV_REQUEST_DONE"
           /\ d.state = "PROXY_INIT" => predictNextState(d).state = "CLIENT_RECV_REQUEST"
           /\ d.state = "CLIENT_SEND_200OK_DONE" =>
                predictNextState(d).state = "SERVER_HANDSHAKE"
           /\ d.state = "CLIENT_SEND_RESPONSE_DONE" =>
                predictNextState(d).state = "CLIENT_RECV_REQUEST"
           /\ d.state = "SERVER_SEND_REQUEST_DONE" =>
                predictNextState(d).state = "SERVER_RECV_RESPONSE"
           /\ d.state = "SERVER_HANDSHAKE" =>
                predictNextState(d).state = "SERVER_HANDSHAKE_DONE"
           /\ d.state = "SERVER_HANDSHAKE_DONE" =>
                predictNextState(d).state = "CLIENT_HANDSHAKE"
           /\ d.state = "CLIENT_HANDSHAKE" =>
                predictNextState(d).state = "CLIENT_HANDSHAKE_DONE"
           /\ d.state = "CLIENT_HANDSHAKE_DONE" =>
                predictNextState(d).state = "CLIENT_RECV_REQUEST"
           /\ d.state \in {"CLIENT_RECV_REQUEST_DONE", "SERVER_RECV_RESPONSE",
                           "SERVER_RECV_RESPONSE_DONE", "CLIENT_SEND_200OK",
                           "CLIENT_SEND_RESPONSE", "SERVER_SEND_REQUEST"} =>
                /\ predictNextState(d).state \notin Fresh \cup
                       {"CLIENT_RECV_REQUEST", "CLIENT_RECV_REQUEST_DONE"}
                /\ predictNextState(d).state = "CLIENT_SEND_200OK_DONE" =>
                     d.state = "CLIENT_SEND_200OK"
BY DEF predictNextState, Conn, Fresh

LEMMA Callback ==
    ASSUME NEW p \in Parser, NEW short \in BOOLEAN,
           NEW c \in {"begin", "headers", "body", "complete"}
    PROVE  callback(p, c, short) \in Parser /\ callback(p, c, short).hcb = p.hcb
<1> USE DEF callback, Parser, ParseState
<1>1. CASE c = "begin"
  BY <1>1 DEF on_message_begin
<1>2. CASE c = "headers"
  <2> DEFINE t == p.tunnel \/ (~p.nobody /\ ~short)
  <2>1. t \in BOOLEAN
    OBVIOUS
  <2> HIDE DEF t
  <2>2. callback(p, c, short) = [p EXCEPT !.state = "HEADER_COMPLETE", !.tunnel = t]
    BY <1>2 DEF on_headers_complete, t
  <2> QED  BY <1>2, <2>1, <2>2
<1>3. CASE c = "body"
  BY <1>3 DEF on_body
<1>4. CASE c = "complete"
  BY <1>4 DEF on_message_complete
<1> QED  BY <1>1, <1>2, <1>3, <1>4

LEMMA InitParser ==
    ASSUME NEW p \in Parser
    PROVE  initParser(p) \in Parser /\ initParser(p).hcb = p.hcb
BY DEF initParser, Parser, ParseState

\* A connect that does not fail leaves a socket.
LEMMA ConnectMakes ==
    ASSUME NEW k
    PROVE  /\ \A o \in Connect(k) : o.ret >= 0 => o.sock.exist
           /\ \A o \in CreateUDPConnect(k) : o.ret = 0 => o.sock.exist
<1>1. ASSUME NEW o \in Connect(k)  PROVE o.ret >= 0 => o.sock.exist
  BY DEF Connect, outcome, Close
<1>2. ASSUME NEW o \in CreateUDPConnect(k), o.ret = 0  PROVE o.sock.exist
  <2> DEFINE F(p) == {p} \cup IF p.ret >= 0 /\ FALSE \in SetAddrReuseable(p.sock)
                                                       \cup SetPortReuseable(p.sock)
                             THEN {outcome(-1, p.sock)} ELSE {}
  <2>0. o \in UNION {F(p) : p \in Connect(k)}
    BY DEF CreateUDPConnect
  <2> HIDE DEF F
  <2>1. PICK p \in Connect(k) : o \in F(p)
    BY <2>0
  <2>2. o = p
    <3>1. o = p \/ o = outcome(-1, p.sock)
      BY <2>1, Zenon DEF F
    <3>2. outcome(-1, p.sock).ret = -1
      BY DEF outcome
    <3> QED  BY <1>2, <3>1, <3>2
  <2> QED  BY <1>1, <1>2, <2>2
<1> QED  BY <1>1, <1>2

\* The server after a connect: connected, or as it was, or closed.
LEMMA ConnectServer ==
    ASSUME NEW d \in Conn, Sockets(d), "server" \in d.ssl => "server" \in d.open,
           NEW c \in connectServer(d)
    PROVE  /\ c.conn \in Conn /\ Sockets(c.conn) /\ Rest(d, c.conn)
           /\ c.conn.armed["udp"] = d.armed["udp"] /\ c.conn.armed["client"] = d.armed["client"]
           /\ "client" \in c.conn.open <=> "client" \in d.open
           /\ "client" \in c.conn.ssl <=> "client" \in d.ssl
           /\ "server" \in c.conn.ssl => "server" \in c.conn.open
           /\ c.ret < 0 /\ "server" \notin d.open => "server" \notin c.conn.open
<1> DEFINE k == socketOf(d, "server")
           m == [d EXCEPT !.open = @ \cup {"server"}, !.closing = @ \ ({"server"} \X Event)]
<1>1. PICK o \in Connect(k) :
        /\ c.ret = o.ret
        /\ c.conn = IF o.ret >= 0 THEN m
                    ELSE IF o.sock.exist THEN d ELSE tcpClose(d, "server")
  BY DEF connectServer
<1> USE DEF Sock
<1>2. CASE c.conn = tcpClose(d, "server")
  BY <1>2, SMTT(20), TcpClose, SocketsClosed
<1>3. CASE c.conn = d
  BY <1>3 DEF Rest
<1>4. CASE c.conn = m /\ c.ret >= 0
  <2>1. /\ m \in Conn /\ m.open = d.open \cup {"server"} /\ m.ssl = d.ssl /\ m.armed = d.armed
        /\ m.closing = d.closing \ ({"server"} \X Event) /\ Rest(d, m)
    BY DEF Conn, Rest
  <2> HIDE DEF m
  <2>2. Sockets(m)
    BY <2>1 DEF Sockets
  <2>3. ~(c.ret < 0)
    BY <1>1, <1>4 DEF Connect, outcome
  <2> QED  BY <1>4, <2>1, <2>2, <2>3
<1> QED  BY <1>1, <1>2, <1>3, <1>4

LEMMA MadeUdp ==
    ASSUME NEW d \in Conn, Sockets(d), NEW k, NEW m, m = made(d, "udp", k)
    PROVE  /\ m \in Conn /\ Sockets(m) /\ Rest(d, m) /\ m.armed["udp"] = {}
           /\ "client" \in m.open <=> "client" \in d.open
           /\ "server" \in m.open <=> "server" \in d.open
           /\ m.ssl = d.ssl
           /\ k.exist => "udp" \in m.open
<1> USE DEF Sock
<1>1. CASE k.exist
  <2>1. m = opened(d, "udp", {})
    BY <1>1 DEF made
  <2> QED  BY <1>1, <2>1, Opened, SocketsOpened
<1>2. CASE ~k.exist
  <2>1. m = tcpClose(d, "udp")
    BY <1>2 DEF made
  <2>2. m.ssl = d.ssl \ {"udp"}
    BY <2>1, TcpClose
  <2>3. m.ssl = d.ssl
    BY <2>2, Zenon DEF Sockets
  <2> QED  BY SMTT(20), <1>2, <2>1, <2>3, TcpClose, SocketsClosed
<1> QED  BY <1>1, <1>2

LEMMA BusyParsing ==
    ASSUME NEW d, NEW n \in BOOLEAN, d.state = "CLIENT_RECV_REQUEST"
    PROVE  Busy(d, n) /\ "client" \in d.open <=> Parsing(d, n) /\ needMoreData(d.req)
<1>1. CASE n
  BY <1>1 DEF Busy, Parsing, Messages, Fresh
<1>2. CASE ~n
  BY <1>2 DEF Busy, Parsing, Messages, Fresh
<1> QED  BY <1>1, <1>2

\* resolve: the server is tried at once, past a query under way, or a new query is under way,
\* or it failed.
LEMMA Resolve ==
    ASSUME NEW d, d \in Conn, Sockets(d), ~d.twice, ~d.free, d.state = "CLIENT_RECV_REQUEST",
           "client" \in d.open, "server" \notin d.open, d.ssl = {}, d.cb, NEW e \in resolve(d)
    PROVE  Parsing(e, FALSE) /\ e.req = d.req
<1>1. CASE e \in callHandleNow(d)
  <2>1. PICK c \in connectServer(d) :
          e = [c.conn EXCEPT !.resolve = IF c.ret < 0 THEN "err" ELSE "uninit",
                             !.overtaken = @ \/ d.armed["udp"] # {}]
    BY <1>1 DEF callHandleNow
  <2> DEFINE m == c.conn
             v == IF c.ret < 0 THEN "err" ELSE "uninit"
             t == m.overtaken \/ d.armed["udp"] # {}
  <2>2. v \in {"uninit", "process", "err"} /\ v # "process"
    OBVIOUS
  <2>3. /\ m \in Conn /\ Sockets(m) /\ Rest(d, m) /\ m.armed["udp"] = d.armed["udp"]
        /\ "client" \in m.open <=> "client" \in d.open
        /\ "client" \in m.ssl <=> "client" \in d.ssl
        /\ "server" \in m.ssl => "server" \in m.open
    BY ConnectServer
  <2>4. e = [m EXCEPT !.resolve = v, !.overtaken = t]
    BY <2>1
  <2>5. t \in BOOLEAN /\ (d.armed["udp"] # {} => t)
    BY <2>3 DEF Conn
  <2> HIDE DEF m, v, t
  <2>6. /\ e \in Conn /\ e.resolve = v /\ e.overtaken = t /\ e.open = m.open
        /\ e.armed = m.armed /\ e.closing = m.closing /\ e.ssl = m.ssl /\ e.req = m.req
        /\ e.state = m.state /\ e.cb = m.cb /\ e.free = m.free /\ e.twice = m.twice
    BY <2>2, <2>3, <2>4, <2>5 DEF Conn
  <2>7. Sockets(e)
    BY <2>3, <2>6 DEF Sockets
  <2>8. Querying(e)
    BY <2>2, <2>3, <2>5, <2>6 DEF Querying, Rest
  <2> QED  BY <2>3, <2>6, <2>7, <2>8 DEF Parsing, Rest
<1>2. CASE e \in asyncQuery(d)
  <2> DEFINE c == tcpClose(d, "udp")
  <2>1. /\ c \in Conn /\ Sockets(c) /\ Rest(d, c) /\ c.open = d.open \ {"udp"}
        /\ c.ssl = d.ssl \ {"udp"}
    BY TcpClose, SocketsClosed DEF Sock
  <2>1c. c.open = d.open \ {"udp"} /\ c.ssl = {} /\ "client" \in c.open /\ "server" \notin c.open
    BY <2>1
  <2>2. \A q \in asyncQueryInit(d) : \E o \in CreateUDPConnect(socketOf(c, "udp")) :
          q.ret = o.ret /\ q.conn = made(c, "udp", o.sock)
    BY DEF asyncQueryInit
  <2> HIDE DEF c
  <2>3. ASSUME NEW q \in asyncQueryInit(d)
        PROVE  /\ q.conn \in Conn /\ Sockets(q.conn) /\ Rest(d, q.conn)
               /\ q.conn.armed["udp"] = {} /\ "client" \in q.conn.open
               /\ "server" \notin q.conn.open /\ q.conn.ssl = {}
               /\ q.ret = 0 => "udp" \in q.conn.open
    <3>1. PICK o \in CreateUDPConnect(socketOf(c, "udp")) :
            q.ret = o.ret /\ q.conn = made(c, "udp", o.sock)
      BY <2>2
    <3>2. q.ret = 0 => o.sock.exist
      BY <3>1, ConnectMakes
    <3> DEFINE m == q.conn
               k == o.sock
    <3>3. m = made(c, "udp", k)
      BY <3>1
    <3> HIDE DEF m, k
    <3>4. /\ m \in Conn /\ Sockets(m) /\ Rest(c, m) /\ m.armed["udp"] = {}
          /\ "client" \in m.open /\ "server" \notin m.open /\ m.ssl = {}
          /\ k.exist => "udp" \in m.open
      BY <2>1, <2>1c, <3>3, MadeUdp
    <3>5. Rest(d, m)
      BY <2>1, <3>4 DEF Rest
    <3> QED  BY <3>2, <3>4, <3>5 DEF m, k
  <2>4. CASE e \in {[q.conn EXCEPT !.resolve = "err"] : q \in asyncQueryInit(d)}
    <3>1. PICK q \in asyncQueryInit(d) : e = [q.conn EXCEPT !.resolve = "err"]
      BY <2>4
    <3> DEFINE m == q.conn
    <3>2. /\ m \in Conn /\ Sockets(m) /\ Rest(d, m) /\ m.armed["udp"] = {}
          /\ "client" \in m.open /\ m.ssl = {}
      BY <2>3
    <3>3. e = [m EXCEPT !.resolve = "err"]
      BY <3>1
    <3> HIDE DEF m
    <3>4. /\ e \in Conn /\ e.resolve = "err" /\ e.open = m.open /\ e.armed = m.armed
          /\ e.closing = m.closing /\ e.ssl = m.ssl /\ e.req = m.req /\ e.state = m.state
          /\ e.free = m.free /\ e.twice = m.twice /\ e.overtaken = m.overtaken
      BY <3>2, <3>3 DEF Conn
    <3>5. Sockets(e) /\ Querying(e)
      BY <3>2, <3>4 DEF Sockets, Querying
    <3> QED  BY <3>2, <3>4, <3>5 DEF Parsing, Rest
  <2>5. CASE e \in {[asyncQueryStart(q.conn) EXCEPT !.resolve = "process"]
                    : q \in {r \in asyncQueryInit(d) : r.ret = 0}}
    <3>1. PICK q \in asyncQueryInit(d) :
            q.ret = 0 /\ e = [asyncQueryStart(q.conn) EXCEPT !.resolve = "process"]
      BY <2>5
    <3> DEFINE p == q.conn
               m == arm(p, "udp", {"write"})
    <3>2. /\ p \in Conn /\ Sockets(p) /\ Rest(d, p) /\ "client" \in p.open /\ p.ssl = {}
          /\ "server" \notin p.open /\ "udp" \in p.open
      BY <2>3, <3>1
    <3> HIDE DEF p
    <3>3. "udp" \in Sock /\ {"write"} \in SUBSET Event
      BY DEF Sock, Event
    <3>4. /\ m \in Conn /\ Rest(p, m) /\ m.open = p.open /\ m.ssl = p.ssl
          /\ m.armed["udp"] = {"write"}
      BY <3>2, <3>3, Arm
    <3>5. Sockets(m)
      BY <3>2, <3>3, SocketsArm
    <3>6. e = [m EXCEPT !.resolve = "process"]
      BY <3>1 DEF asyncQueryStart, p
    <3> HIDE DEF m
    <3>7. /\ e \in Conn /\ e.resolve = "process" /\ e.open = m.open /\ e.armed = m.armed
          /\ e.closing = m.closing /\ e.ssl = m.ssl /\ e.req = m.req /\ e.state = m.state
          /\ e.free = m.free /\ e.twice = m.twice /\ e.overtaken = m.overtaken /\ e.cb = m.cb
      BY <3>4, <3>6 DEF Conn
    <3>8. e.armed["udp"] # {} /\ Sockets(e)
      BY <3>4, <3>5, <3>7 DEF Sockets
    <3>9. Querying(e)
      BY <3>2, <3>4, <3>7, <3>8 DEF Querying, Rest
    <3> QED  BY <3>2, <3>4, <3>7, <3>8, <3>9 DEF Parsing, Rest
  <2> QED  BY <1>2, <2>4, <2>5 DEF asyncQuery
<1> QED  BY <1>1, <1>2 DEF resolve

\* The handle for the end of the header: it may start a query, or overtake one under way.
LEMMA HeaderComplete ==
    ASSUME NEW d, Parsing(d, FALSE), "client" \notin d.ssl, NEW h \in Host,
           NEW e \in requestHeaderCompleteHandle(d, h)
    PROVE  Parsing(e, FALSE)
<1>1. /\ d \in Conn /\ Sockets(d) /\ ~d.twice /\ ~d.free /\ d.state = "CLIENT_RECV_REQUEST"
      /\ "client" \in d.open /\ ("server" \in d.ssl => "server" \in d.open) /\ Querying(d)
  BY DEF Parsing
<1>2. CASE d.host = h /\ "server" \in d.open
  <2> DEFINE v == d.resp.nobody \/ d.method = "head"
             r == [d.resp EXCEPT !.nobody = v]
  <2>1. v \in BOOLEAN
    OBVIOUS
  <2>2. e = [d EXCEPT !.resp = r]
    BY <1>2 DEF requestHeaderCompleteHandle
  <2> HIDE DEF v
  <2>3. r \in Parser
    BY <1>1, <2>1 DEF Conn, Parser
  <2> HIDE DEF r
  <2>4. /\ e \in Conn /\ e.open = d.open /\ e.armed = d.armed /\ e.closing = d.closing
        /\ e.ssl = d.ssl /\ e.req = d.req /\ e.state = d.state /\ e.resolve = d.resolve
        /\ e.cb = d.cb /\ e.free = d.free /\ e.twice = d.twice /\ e.overtaken = d.overtaken
    BY <1>1, <2>2, <2>3 DEF Conn
  <2>5. Sockets(e) /\ Querying(e)
    BY <1>1, <2>4 DEF Sockets, Querying
  <2> QED  BY <1>1, <2>4, <2>5 DEF Parsing
<1>3. CASE ~(d.host = h /\ "server" \in d.open)
  <2> DEFINE c == tcpClose(d, "server")
             g == [c EXCEPT !.resp = reset, !.host = h, !.cb = TRUE]
  <2>1. forceCloseServer(d) = c
    BY <1>1, ForceCloseServer
  <2>2. e \in resolve(g)
    BY <1>3, <2>1 DEF requestHeaderCompleteHandle
  <2>3. /\ c \in Conn /\ Sockets(c) /\ Rest(d, c) /\ c.open = d.open \ {"server"}
        /\ c.ssl = d.ssl \ {"server"} /\ c.armed["udp"] = d.armed["udp"]
    BY <1>1, ServerClosed, Zenon
  <2> HIDE DEF c
  <2>4. c.ssl = {}
    BY <1>1, <2>3 DEF Sockets, Conn, Sock
  <2>5. reset \in Parser
    BY DEF reset, Parser, ParseState
  <2>6. /\ g \in Conn /\ g.open = c.open /\ g.armed = c.armed /\ g.closing = c.closing
        /\ g.ssl = c.ssl /\ g.req = c.req /\ g.state = c.state /\ g.cb = TRUE
        /\ g.free = c.free /\ g.twice = c.twice /\ g.overtaken = c.overtaken
    BY <2>3, <2>5 DEF Conn
  <2> HIDE DEF g
  <2>7. Sockets(g)
    BY <2>3, <2>6 DEF Sockets
  <2>8. /\ ~g.twice /\ ~g.free /\ g.state = "CLIENT_RECV_REQUEST" /\ "client" \in g.open
        /\ "server" \notin g.open /\ g.ssl = {} /\ g.cb
    BY <1>1, <2>3, <2>4, <2>6 DEF Rest
  <2> QED  BY <2>2, <2>6, <2>7, <2>8, Resolve
<1> QED  BY <1>2, <1>3

\* One callback of the request's parser.
LEMMA CalledBack ==
    ASSUME NEW d, NEW n \in BOOLEAN, Parsing(d, n),
           NEW c \in {"begin", "headers", "body", "complete"}, NEW f \in calledBack(d, c)
    PROVE  Parsing(f, n)
<1>1. /\ d \in Conn /\ Sockets(d) /\ ~d.twice /\ ~d.free /\ d.state = "CLIENT_RECV_REQUEST"
      /\ "client" \in d.open /\ ("server" \in d.ssl => "server" \in d.open)
      /\ (d.req.hcb => "client" \notin d.ssl)
  BY DEF Parsing
<1> DEFINE P == callback(d.req, c, FALSE)
           e == [d EXCEPT !.req = P]
<1>2. P \in Parser /\ P.hcb = d.req.hcb
  BY <1>1, Callback DEF Conn
<1> HIDE DEF P
<1>3. /\ e \in Conn /\ e.open = d.open /\ e.armed = d.armed /\ e.closing = d.closing
      /\ e.ssl = d.ssl /\ e.req = P /\ e.state = d.state /\ e.resolve = d.resolve
      /\ e.cb = d.cb /\ e.free = d.free /\ e.twice = d.twice /\ e.overtaken = d.overtaken
  BY <1>1, <1>2 DEF Conn
<1>4. calledBack(d, c) =
        IF c # "headers" THEN {e}
        ELSE UNION {LET g == [e EXCEPT !.method = m]
                    IN  IF d.req.hcb THEN requestHeaderCompleteHandle(g, h) ELSE {g}
                    : m \in {"get", "connect", "head"}, h \in Host}
  BY DEF calledBack, P
<1> HIDE DEF e
<1>5. Sockets(e)
  BY <1>1, <1>3 DEF Sockets
<1>6. n \/ Querying(e)
  BY <1>3 DEF Parsing, Querying
<1>7. Parsing(e, n)
  BY <1>1, <1>2, <1>3, <1>5, <1>6 DEF Parsing
<1>8. CASE c # "headers"
  BY <1>4, <1>7, <1>8
<1>9. CASE c = "headers"
  <2> DEFINE G(m) == [e EXCEPT !.method = m]
             F(m, h) == IF d.req.hcb THEN requestHeaderCompleteHandle(G(m), h) ELSE {G(m)}
  <2>1. f \in UNION {F(m, h) : m \in {"get", "connect", "head"}, h \in Host}
    BY <1>4, <1>9
  <2> HIDE DEF F
  <2>2. PICK m \in {"get", "connect", "head"}, h \in Host : f \in F(m, h)
    BY <2>1
  <2> DEFINE g == G(m)
  <2>3. /\ g \in Conn /\ g.open = e.open /\ g.armed = e.armed /\ g.closing = e.closing
        /\ g.ssl = e.ssl /\ g.req = e.req /\ g.state = e.state /\ g.resolve = e.resolve
        /\ g.cb = e.cb /\ g.free = e.free /\ g.twice = e.twice /\ g.overtaken = e.overtaken
    BY <1>3 DEF Conn
  <2>4. f \in IF d.req.hcb THEN requestHeaderCompleteHandle(g, h) ELSE {g}
    BY <2>2 DEF F
  <2> HIDE DEF g, G
  <2>5. Parsing(g, n)
    BY <1>7, <2>3 DEF Parsing, Sockets, Querying
  <2>6. CASE ~d.req.hcb
    BY <2>4, <2>5, <2>6
  <2>7. CASE d.req.hcb
    <3>1. n = FALSE /\ "client" \notin g.ssl
      BY <1>1, <1>3, <2>3, <2>7 DEF Parsing
    <3>2. f \in requestHeaderCompleteHandle(g, h)
      BY <2>4, <2>7
    <3>3. Parsing(g, FALSE)
      BY <2>5, <3>1
    <3> QED  BY <3>1, <3>2, <3>3, HeaderComplete
  <2> QED  BY <2>6, <2>7
<1> QED  BY <1>8, <1>9

-----------------------------------------------------------------------------
(* The turns of the loop.                                                   *)

\* The fields of an object a turn of the loop moved on to its next state.
Moved(d, e) ==
    /\ e \in Conn /\ Sockets(e) /\ e.state = predictNextState(d).state
    /\ e.open = d.open /\ e.ssl = d.ssl /\ e.req = d.req /\ e.resolve = d.resolve
    /\ e.cb = d.cb /\ e.misled = d.misled /\ e.free = d.free /\ e.twice = d.twice
    /\ e.overtaken = d.overtaken
    /\ e.armed["udp"] = d.armed["udp"]

LEMMA PredictedMoved ==
    ASSUME NEW d \in Conn, Sockets(d)
    PROVE  Moved(d, predictNextState(d))
<1> DEFINE p == predictNextState(d)
<1>1. /\ p \in Conn /\ p.open = d.open /\ p.armed = d.armed /\ p.closing = d.closing
      /\ p.ssl = d.ssl /\ p.req = d.req /\ p.resolve = d.resolve /\ p.cb = d.cb
      /\ p.misled = d.misled /\ p.free = d.free /\ p.twice = d.twice /\ p.overtaken = d.overtaken
  BY Predicted
<1> HIDE DEF p
<1>2. Sockets(p)
  BY <1>1 DEF Sockets
<1> QED  BY <1>1, <1>2 DEF Moved, p

LEMMA ProceedClient ==
    ASSUME NEW d \in Conn, Sockets(d), NEW e, e = arm(predictNextState(d), "client", {})
    PROVE  Moved(d, e) /\ ("client" \in d.open => e.armed["client"] = {})
<1> DEFINE p == predictNextState(d)
<1>1. Moved(d, p)
  BY PredictedMoved
<1>2. p \in Conn /\ Sockets(p) /\ p.state = predictNextState(d).state
  BY <1>1 DEF Moved
<1>3. e = arm(p, "client", {})
  OBVIOUS
<1> HIDE DEF p
<1>4. "client" \in Sock /\ {} \in SUBSET Event
  BY DEF Sock
<1>5. Sockets(e)
  BY <1>2, <1>3, <1>4, SocketsArm
<1>6. /\ e \in Conn /\ Rest(p, e) /\ e.open = p.open /\ e.ssl = p.ssl
      /\ "client" \in p.open => e.armed["client"] = {}
      /\ e.armed["udp"] = p.armed["udp"]
  BY <1>2, <1>3, Arm DEF Sock
<1> QED  BY <1>1, <1>2, <1>5, <1>6 DEF Moved, Rest

LEMMA ProceedServer ==
    ASSUME NEW d \in Conn, Sockets(d), NEW e, e = arm(predictNextState(d), "server", {})
    PROVE  Moved(d, e)
<1> DEFINE p == predictNextState(d)
<1>1. Moved(d, p)
  BY PredictedMoved
<1>2. p \in Conn /\ Sockets(p) /\ p.state = predictNextState(d).state
  BY <1>1 DEF Moved
<1>3. e = arm(p, "server", {})
  OBVIOUS
<1> HIDE DEF p
<1>4. "server" \in Sock /\ {} \in SUBSET Event
  BY DEF Sock
<1>5. Sockets(e)
  BY <1>2, <1>3, <1>4, SocketsArm
<1>6. /\ e \in Conn /\ Rest(p, e) /\ e.open = p.open /\ e.ssl = p.ssl
      /\ e.armed["udp"] = p.armed["udp"]
  BY <1>2, <1>3, Arm DEF Sock
<1> QED  BY <1>1, <1>2, <1>5, <1>6 DEF Moved, Rest

\* More of the request is to be read.
LEMMA ReadOn ==
    ASSUME NEW d, NEW n \in BOOLEAN, Parsing(d, n), needMoreData(d.req),
           NEW e, Moved(d, e)
    PROVE  Busy(e, n)
<1>1. d \in Conn /\ d.state = "CLIENT_RECV_REQUEST"
  BY DEF Parsing
<1>2. e.state = "CLIENT_RECV_REQUEST"
  BY <1>1, NextState DEF Moved
<1>3. Parsing(e, n)
  BY <1>2 DEF Parsing, Moved, Querying
<1> QED  BY <1>2, <1>3, BusyParsing DEF Moved

\* The request is complete and nobody waits for the resolver.
LEMMA ReadDone ==
    ASSUME NEW d, NEW n \in BOOLEAN, Parsing(d, n), ~needMoreData(d.req),
           n \/ d.resolve # "process", NEW e, Moved(d, e)
    PROVE  Busy(e, n)
<1>1. d \in Conn /\ d.state = "CLIENT_RECV_REQUEST"
  BY DEF Parsing
<1>2. e.state = "CLIENT_RECV_REQUEST_DONE"
  BY <1>1, NextState DEF Moved
<1>3. Messages(e)
  BY <1>2 DEF Messages, Parsing, Moved, Fresh
<1>4. n \/ Querying(e)
  BY DEF Parsing, Moved, Querying
<1> QED  BY <1>2, <1>3, <1>4 DEF Parsing, Moved, Busy, Fresh

\* A complete request that the resolver is still to serve; inside the resolver's callback it
\* is misled.
LEMMA ReadWaits ==
    ASSUME NEW d, NEW n \in BOOLEAN, Parsing(d, n), ~needMoreData(d.req),
           "server" \notin d.open, d.resolve = "process",
           NEW e, e = [arm(predictNextState(d), "client", {}) EXCEPT !.misled = n]
    PROVE  Settled(e, n)
<1> DEFINE a == arm(predictNextState(d), "client", {})
<1>1. /\ d \in Conn /\ Sockets(d) /\ d.state = "CLIENT_RECV_REQUEST" /\ "client" \in d.open
      /\ ~d.twice /\ ~d.free
  BY DEF Parsing
<1>2. Moved(d, a) /\ a.armed["client"] = {}
  BY <1>1, ProceedClient
<1>3. a.state = "CLIENT_RECV_REQUEST_DONE"
  BY <1>1, <1>2, NextState DEF Moved
<1> HIDE DEF a
<1>4. /\ e \in Conn /\ e.open = a.open /\ e.armed = a.armed /\ e.closing = a.closing
      /\ e.ssl = a.ssl /\ e.req = a.req /\ e.state = a.state /\ e.resolve = a.resolve
      /\ e.cb = a.cb /\ e.free = a.free /\ e.twice = a.twice /\ e.misled = n
      /\ e.overtaken = a.overtaken
  BY <1>2 DEF Conn, Moved, a
<1>5. Sockets(e)
  BY <1>2, <1>4 DEF Sockets, Moved
<1>6. Messages(e)
  BY <1>2, <1>3, <1>4 DEF Messages, Parsing, Moved, Fresh
<1>7. e.ssl \subseteq e.open
  BY <1>2, <1>4, <1>5 DEF Sockets, Conn, Sock, Parsing, Moved
<1>8. Held(e)
  BY <1>1, <1>2, <1>4 DEF Held, Moved
<1>9. CASE n
  BY <1>1, <1>2, <1>3, <1>4, <1>5, <1>6, <1>7, <1>8, <1>9 DEF Settled, Parsing, Moved
<1>10. CASE ~n
  <2>1. Querying(e) /\ Awaited(e)
    BY <1>2, <1>3, <1>4, <1>10 DEF Parsing, Moved, Querying, Awaited
  <2> QED  BY <1>1, <1>2, <1>3, <1>4, <1>5, <1>6, <1>7, <1>8, <1>10, <2>1 DEF Settled, Moved
<1> QED  BY <1>9, <1>10

LEMMA BusyKept ==
    ASSUME NEW d, NEW n \in BOOLEAN, Busy(d, n), NEW e, e \in Conn, Sockets(e),
           e.state = d.state, e.open = d.open, e.ssl \subseteq d.ssl, e.req = d.req,
           e.resolve = d.resolve, e.cb = d.cb, e.free = d.free, e.twice = d.twice,
           e.overtaken = d.overtaken, e.armed["udp"] = d.armed["udp"]
    PROVE  Busy(e, n)
<1>1. Messages(e)
  BY DEF Busy, Messages
<1>2. n \/ Querying(e)
  BY DEF Busy, Querying
<1> QED  BY <1>1, <1>2 DEF Busy

LEMMA RespBusy ==
    ASSUME NEW d, NEW n \in BOOLEAN, Busy(d, n), NEW P \in Parser
    PROVE  Busy([d EXCEPT !.resp = P], n) /\ [d EXCEPT !.resp = P].state = d.state
<1> DEFINE e == [d EXCEPT !.resp = P]
<1>1. d \in Conn /\ Sockets(d)
  BY DEF Busy
<1>2. /\ e \in Conn /\ e.open = d.open /\ e.armed = d.armed /\ e.closing = d.closing
      /\ e.ssl = d.ssl /\ e.req = d.req /\ e.state = d.state /\ e.resolve = d.resolve
      /\ e.cb = d.cb /\ e.free = d.free /\ e.twice = d.twice /\ e.overtaken = d.overtaken
  BY <1>1 DEF Conn
<1> HIDE DEF e
<1>3. Sockets(e)
  BY <1>1, <1>2 DEF Sockets
<1>4. Busy(e, n)
  BY <1>2, <1>3, BusyKept
<1> QED  BY <1>2, <1>4 DEF e

\* What a call of recvNIO leaves.
LEMMA ReadResults ==
    ASSUME NEW ret, NEW bytes, NEW r \in Read(ret, bytes)
    PROVE  /\ r.want \in {"none", "read", "write"} /\ r.bytes \in BOOLEAN
           /\ ret = "OK" => RecvSocket \in conn.open
<1>0. ret = "OK" => RecvSocket \in conn.open
  BY DEF Read, recvNIO, Closed
<1> DEFINE tls == RecvSocket \in conn.ssl
<1>1. r = Closed \/ r \in recvFromSocket(tls)
  BY DEF Read, recvNIO
<1>2. \A q \in Recv(tls) : q.want \in {"none", "read", "write"}
  BY DEF Recv, sctxRecv, sctxIO, Event
<1> HIDE DEF tls
<1>3. CASE r = Closed
  BY <1>0, <1>3 DEF Closed
<1>4. CASE r \in recvFromSocket(tls)
  <2>1. PICK b \in BOOLEAN, q \in Recv(tls) : r.bytes = b /\ r.want = q.want
    BY <1>4 DEF recvFromSocket
  <2> QED  BY <1>0, <1>2, <2>1
<1> QED  BY <1>0, <1>1, <1>3, <1>4

LEMMA ReceivedClient ==
    ASSUME ProxyInv, running, ~parsing, conn.state = "CLIENT_RECV_REQUEST",
           NEW r, r.want \in {"none", "read", "write"}, r.bytes \in BOOLEAN,
           NEW e, e = received("client", r)
    PROVE  /\ Busy(e, nested) /\ e.state = conn.state /\ e.req = conn.req
           /\ e.open = conn.open /\ e.resolve = conn.resolve
<1>1. Busy(conn, nested) /\ nested \in BOOLEAN
  BY DEF ProxyInv
<1>2. conn \in Conn /\ Sockets(conn)
  BY <1>1 DEF Busy
<1> DEFINE w == IF r.want = "none" THEN "read" ELSE r.want
           a == arm(conn, "client", {w})
           X == IF r.ssl THEN a.ssl ELSE a.ssl \ {"client"}
           Y == a.requests \/ r.bytes
<1>3. {w} \in SUBSET Event /\ "client" \in Sock
  BY DEF Event, Sock
<1> HIDE DEF w
<1>4. /\ a \in Conn /\ Rest(conn, a) /\ a.open = conn.open /\ a.ssl = conn.ssl
  BY <1>2, <1>3, Arm
<1>5. a.armed["udp"] = conn.armed["udp"]
  BY <1>2, <1>3, Arm DEF Sock
<1>6. Sockets(a)
  BY <1>2, <1>3, SocketsArm
<1>7. X \subseteq a.ssl /\ Y \in BOOLEAN
  OBVIOUS
<1>8. e = [a EXCEPT !.ssl = X, !.requests = Y, !.out = @]
  BY <1>4 DEF received, w, Conn
<1> HIDE DEF a, X, Y
<1>9. /\ e \in Conn /\ e.state = a.state /\ e.open = a.open /\ e.ssl = X /\ e.req = a.req
      /\ e.resolve = a.resolve /\ e.cb = a.cb /\ e.free = a.free /\ e.twice = a.twice
      /\ e.overtaken = a.overtaken
      /\ e.armed = a.armed /\ e.closing = a.closing
  BY <1>4, <1>7, <1>8, ZenonT(30) DEF Conn
<1>10. Sockets(e)
  BY <1>6, <1>7, <1>9 DEF Sockets
<1>11. Busy(e, nested)
  BY <1>1, <1>4, <1>5, <1>7, <1>9, <1>10, BusyKept DEF Rest
<1> QED  BY <1>4, <1>5, <1>9, <1>11 DEF Rest

LEMMA ReceivedServer ==
    ASSUME ProxyInv, running, ~parsing, conn.state = "SERVER_RECV_RESPONSE",
           NEW r, r.want \in {"none", "read", "write"}, r.bytes \in BOOLEAN,
           NEW e, e = received("server", r)
    PROVE  Busy(e, nested) /\ e.state = conn.state /\ e.resolve = conn.resolve
<1>1. Busy(conn, nested) /\ nested \in BOOLEAN
  BY DEF ProxyInv
<1>2. conn \in Conn /\ Sockets(conn)
  BY <1>1 DEF Busy
<1> DEFINE w == IF r.want = "none" THEN "read" ELSE r.want
           a == arm(conn, "server", {w})
           X == IF r.ssl THEN a.ssl ELSE a.ssl \ {"server"}
           Z == IF r.bytes THEN "data" ELSE a.out
<1>3. {w} \in SUBSET Event /\ "server" \in Sock
  BY DEF Event, Sock
<1> HIDE DEF w
<1>4. /\ a \in Conn /\ Rest(conn, a) /\ a.open = conn.open /\ a.ssl = conn.ssl
  BY <1>2, <1>3, Arm
<1>5. a.armed["udp"] = conn.armed["udp"]
  BY <1>2, <1>3, Arm DEF Sock
<1>6. Sockets(a)
  BY <1>2, <1>3, SocketsArm
<1>7. X \subseteq a.ssl /\ Z \in OutBuffer /\ a.requests \in BOOLEAN
  BY <1>4 DEF Conn, OutBuffer
<1>8. e = [a EXCEPT !.ssl = X, !.requests = @, !.out = Z]
  BY <1>7 DEF received, w
<1> HIDE DEF a, X, Z
<1>9. /\ e \in Conn /\ e.state = a.state /\ e.open = a.open /\ e.ssl = X /\ e.req = a.req
      /\ e.resolve = a.resolve /\ e.cb = a.cb /\ e.free = a.free /\ e.twice = a.twice
      /\ e.overtaken = a.overtaken
      /\ e.armed = a.armed /\ e.closing = a.closing
  BY <1>4, <1>7, <1>8, ZenonT(30) DEF Conn
<1>10. Sockets(e)
  BY <1>6, <1>7, <1>9 DEF Sockets
<1>11. Busy(e, nested)
  BY <1>1, <1>4, <1>5, <1>7, <1>9, <1>10, BusyKept DEF Rest
<1> QED  BY <1>4, <1>5, <1>9, <1>11 DEF Rest

\* On to a state that sends, or that reads the response.
LEMMA MoveOn ==
    ASSUME NEW d, NEW n \in BOOLEAN, Busy(d, n), n \/ d.resolve # "process",
           NEW e, Moved(d, e), d.state # "SERVER_HANDSHAKE",
           e.state \notin Fresh \cup {"CLIENT_RECV_REQUEST"},
           e.state = "CLIENT_SEND_200OK_DONE" => "client" \in d.open
    PROVE  Busy(e, n)
<1>1. Messages(e)
  BY DEF Busy, Moved, Messages, Fresh
<1>2. n \/ Querying(e)
  BY DEF Busy, Moved, Querying
<1> QED  BY <1>1, <1>2 DEF Busy, Moved, Fresh

\* On to a handshake or the next request, with a request that has not begun.
LEMMA StartOver ==
    ASSUME NEW d, NEW n \in BOOLEAN, Busy(d, n), n \/ d.resolve # "process",
           NEW e, Moved(d, e), d.req.state = "UNINIT", n => ~d.req.hcb,
           e.state \notin {"PROXY_INIT", "CLIENT_SEND_200OK_DONE"},
           "server" \in d.ssl => "server" \in d.open \/ e.state = "SERVER_HANDSHAKE"
    PROVE  Busy(e, n)
<1>1. Messages(e)
  BY DEF Busy, Moved, Messages, needMoreData
<1>2. n \/ Querying(e)
  BY DEF Busy, Moved, Querying
<1> QED  BY <1>1, <1>2 DEF Busy, Moved

LEMMA TurnKeeps ==
    ASSUME ProxyInv, running, UNCHANGED <<running, nested, silent>>, parsing' = FALSE,
           Busy(conn', nested)
    PROVE  ProxyInv'
BY DEF ProxyInv

LEMMA ReturnKeeps ==
    ASSUME ProxyInv, running, running' = FALSE, nested' = FALSE, parsing' = FALSE,
           UNCHANGED silent, Waiting(conn')
    PROVE  ProxyInv'
BY DEF ProxyInv

LEMMA DoneKeeps ==
    ASSUME ProxyInv, ~running, UNCHANGED <<running, parsing, nested, silent>>, Waiting(conn')
    PROVE  ProxyInv'
BY DEF ProxyInv

\* What holds in the loop.
LEMMA InLoop ==
    ASSUME ProxyInv, running, ~parsing
    PROVE  /\ Busy(conn, nested) /\ nested \in BOOLEAN /\ conn \in Conn /\ Sockets(conn)
           /\ Messages(conn) /\ ~conn.twice /\ ~conn.free
           /\ conn.state # "CLIENT_RECV_REQUEST" => nested \/ conn.resolve # "process"
BY DEF ProxyInv, Busy

LEMMA proxyInitKeeps ==
    ASSUME ProxyInv, running, ~parsing, proxyInit
    PROVE  ProxyInv'
<1> USE InLoop
<1> DEFINE q == [conn.req EXCEPT !.hcb = TRUE]
           d == [conn EXCEPT !.req = q]
           p == predictNextState(d)
           e == enable(p, "client", "read")
<1>1. /\ conn.state = "PROXY_INIT" /\ conn' = e
      /\ parsing' = FALSE /\ UNCHANGED <<running, nested, silent>>
  BY DEF proxyInit, Turn
<1>2. conn.req \in Parser /\ conn.req.state = "UNINIT" /\ "client" \notin conn.ssl
  BY <1>1 DEF Conn, Messages, Fresh
<1>3. q \in Parser /\ q.state = "UNINIT"
  BY <1>2 DEF Parser
<1> HIDE DEF q
<1>4. /\ d \in Conn /\ d.open = conn.open /\ d.armed = conn.armed /\ d.closing = conn.closing
      /\ d.ssl = conn.ssl /\ d.req = q /\ d.state = conn.state /\ d.resolve = conn.resolve
      /\ d.cb = conn.cb
      /\ d.free = conn.free /\ d.twice = conn.twice /\ d.overtaken = conn.overtaken
  BY <1>3 DEF Conn
<1> HIDE DEF d
<1>5. Sockets(d)
  BY <1>4 DEF Sockets
<1>6. Moved(d, p) /\ p.state = "CLIENT_RECV_REQUEST"
  BY <1>1, <1>4, <1>5, PredictedMoved, NextState
<1>7. p \in Conn /\ Sockets(p)
  BY <1>6 DEF Moved
<1> HIDE DEF p
<1>8. /\ e \in Conn /\ Rest(p, e) /\ Sockets(e) /\ e.open = p.open /\ e.ssl = p.ssl
      /\ e.armed["udp"] = p.armed["udp"]
  BY <1>7, Enable, Events
<1> HIDE DEF e
<1>9. /\ e.state = "CLIENT_RECV_REQUEST" /\ e.req = q /\ e.resolve = conn.resolve
      /\ e.armed["udp"] = conn.armed["udp"] /\ e.open = conn.open /\ e.ssl = conn.ssl
      /\ e.cb = conn.cb /\ e.overtaken = conn.overtaken /\ ~e.free /\ ~e.twice
  BY <1>1, <1>4, <1>6, <1>8 DEF Rest, Moved
<1>10. ~nested /\ Querying(e)
  BY <1>1, <1>9 DEF Busy, Querying
<1>11. "server" \in e.ssl => "server" \in e.open
  BY <1>1, <1>9 DEF Busy
<1>12. Messages(e)
  BY <1>2, <1>3, <1>9 DEF Messages, Fresh, needMoreData
<1>13. Busy(e, nested)
  BY <1>8, <1>9, <1>10, <1>11, <1>12 DEF Busy
<1> QED  BY <1>1, <1>13, TurnKeeps

LEMMA recvFailsKeeps ==
    ASSUME ProxyInv, running, ~parsing, recvFails
    PROVE  ProxyInv'
<1> USE InLoop
<1>1. PICK b \in BOOLEAN : \E r \in Read("ERROR", b) :
        \E f \in closeHandle(received(RecvSocket, r), RecvSocket) : Return(f)
  BY DEF recvFails
<1>2. PICK r \in Read("ERROR", b) :
        \E f \in closeHandle(received(RecvSocket, r), RecvSocket) : Return(f)
  BY <1>1
<1>3. PICK f \in closeHandle(received(RecvSocket, r), RecvSocket) : Return(f)
  BY <1>2
<1>4. r.want \in {"none", "read", "write"} /\ r.bytes \in BOOLEAN
  BY ReadResults
<1>5. Settled(f, nested)
  <2>1. CASE conn.state = "CLIENT_RECV_REQUEST"
    <3> DEFINE d == received("client", r)
    <3>1. Busy(d, nested) /\ d.state = conn.state
      BY <1>4, <2>1, ReceivedClient
    <3>2. f \in closeHandle(d, "client")
      BY <1>3, <2>1 DEF RecvSocket
    <3> HIDE DEF d
    <3>3. Settled(d, nested) /\ ~d.free
      BY <2>1, <3>1, BusySettles DEF Busy
    <3> QED  BY <3>2, <3>3, CloseHandle
  <2>2. CASE conn.state = "SERVER_RECV_RESPONSE"
    <3> DEFINE d == received("server", r)
    <3>1. Busy(d, nested) /\ d.state = conn.state /\ (nested \/ d.resolve # "process")
      BY <1>4, <2>2, ReceivedServer
    <3>2. f \in closeHandle(d, "server")
      BY <1>3, <2>2 DEF RecvSocket
    <3> HIDE DEF d
    <3>3. Settled(d, nested) /\ ~d.free
      BY <2>2, <3>1, BusySettles DEF Busy
    <3> QED  BY <3>1, <3>2, <3>3, CloseHandle
  <2> QED  BY <2>1, <2>2 DEF recvFails
<1>6. Waiting(conn')
  BY <1>3, <1>5, Returned DEF Return
<1> QED  BY <1>3, <1>6, ReturnKeeps DEF Return

LEMMA recvNothingKeeps ==
    ASSUME ProxyInv, running, ~parsing, recvNothing
    PROVE  ProxyInv'
<1> USE InLoop
<1>1. PICK r \in Read("OK", FALSE) :
        LET s == RecvSocket
        IN  IF r.want = "read" /\ ~needMoreData(Message(conn, s)) THEN Proceed(conn, s)
            ELSE Return(received(s, r))
  BY DEF recvNothing
<1>2. r.want \in {"none", "read", "write"} /\ r.bytes \in BOOLEAN
  BY ReadResults
<1>3. CASE conn.state = "CLIENT_RECV_REQUEST"
  <2> DEFINE d == received("client", r)
  <2>1. needMoreData(conn.req) /\ RecvSocket = "client"
    BY <1>3 DEF Messages, RecvSocket
  <2>2. Return(d)
    BY <1>1, <2>1 DEF Message
  <2>3. Busy(d, nested) /\ d.state = conn.state
    BY <1>2, <1>3, ReceivedClient
  <2> HIDE DEF d
  <2>4. Settled(d, nested)
    BY <1>3, <2>3, BusySettles DEF Busy
  <2>5. Waiting(conn')
    BY <2>2, <2>4, Returned DEF Return
  <2> QED  BY <2>2, <2>5, ReturnKeeps DEF Return
<1>4. CASE conn.state = "SERVER_RECV_RESPONSE" /\ Return(received(RecvSocket, r))
  <2> DEFINE d == received("server", r)
  <2>1. Return(d)
    BY <1>4 DEF RecvSocket
  <2>2. Busy(d, nested) /\ d.state = conn.state
    BY <1>2, <1>4, ReceivedServer
  <2> HIDE DEF d
  <2>3. Settled(d, nested)
    BY <1>4, <2>2, BusySettles DEF Busy
  <2>4. Waiting(conn')
    BY <2>1, <2>3, Returned DEF Return
  <2> QED  BY <2>1, <2>4, ReturnKeeps DEF Return
<1>5. CASE conn.state = "SERVER_RECV_RESPONSE" /\ Proceed(conn, RecvSocket)
  <2> DEFINE e == arm(predictNextState(conn), "server", {})
  <2>1. conn' = e /\ parsing' = FALSE /\ UNCHANGED <<running, nested, silent>>
    BY <1>5 DEF Proceed, Turn, RecvSocket
  <2>2. Moved(conn, e)
    BY ProceedServer
  <2> HIDE DEF e
  <2>3. e.state \notin Fresh \cup {"CLIENT_RECV_REQUEST", "CLIENT_SEND_200OK_DONE"}
    BY <1>5, <2>2, NextState DEF Moved
  <2>4. Busy(e, nested)
    BY <1>5, <2>2, <2>3, MoveOn
  <2> QED  BY <2>1, <2>4, TurnKeeps
<1> QED  BY <1>1, <1>3, <1>4, <1>5 DEF recvNothing

LEMMA AttachParsing ==
    ASSUME NEW d, NEW n \in BOOLEAN, Parsing(d, n)
    PROVE  Parsing(attach(d), n) /\ attach(d).req = d.req /\ attach(d).resolve = d.resolve
<1> DEFINE e == attach(d)
<1>1. d \in Conn
  BY DEF Parsing
<1>2. /\ e \in Conn /\ e.open = d.open /\ e.armed = d.armed /\ e.closing = d.closing
      /\ e.ssl = d.ssl /\ e.req = d.req /\ e.state = d.state /\ e.resolve = d.resolve
      /\ e.cb = d.cb /\ e.free = d.free /\ e.twice = d.twice /\ e.overtaken = d.overtaken
  BY <1>1 DEF Conn, attach, OutBuffer
<1> HIDE DEF e
<1>3. Parsing(e, n)
  BY <1>2 DEF Parsing, Sockets, Querying
<1> QED  BY <1>2, <1>3 DEF e

LEMMA CloseServerParsing ==
    ASSUME NEW d, NEW n \in BOOLEAN, Parsing(d, n)
    PROVE  Parsing(forceCloseServer(d), n) /\ forceCloseServer(d).req = d.req
<1> DEFINE c == tcpClose(d, "server")
<1>1. d \in Conn /\ Sockets(d) /\ "client" \in d.open
  BY DEF Parsing
<1>2. forceCloseServer(d) = c
  BY <1>1, ForceCloseServer
<1>3. /\ c \in Conn /\ Rest(d, c) /\ c.open = d.open \ {"server"} /\ Sockets(c)
      /\ c.ssl = d.ssl \ {"server"} /\ c.armed["udp"] = d.armed["udp"]
  BY <1>1, ServerClosed, ZenonT(30)
<1> HIDE DEF c
<1>4. "client" \in c.open /\ ("server" \in c.ssl => "server" \in c.open)
      /\ (n \/ Querying(c))
  BY <1>1, <1>3 DEF Parsing, Rest, Querying
<1>5. Parsing(c, n)
  BY <1>3, <1>4 DEF Parsing, Rest
<1> QED  BY <1>2, <1>3, <1>5 DEF Rest

LEMMA recvBytesKeeps ==
    ASSUME ProxyInv, running, ~parsing, recvBytes
    PROVE  ProxyInv'
<1> USE InLoop
<1>1. PICK r \in Read("OK", TRUE) :
         conn' = IF RecvSocket = "client"
                 THEN [received("client", r) EXCEPT !.req = initParser([@ EXCEPT !.tunnel = TRUE]),
                                                    !.resp.tunnel = TRUE]
                 ELSE [received("server", r) EXCEPT !.resp = initParser(@)]
  BY DEF recvBytes
<1>2. parsing' = TRUE /\ UNCHANGED <<running, nested, silent>>
  BY DEF recvBytes
<1>3. r.want \in {"none", "read", "write"} /\ r.bytes \in BOOLEAN /\ RecvSocket \in conn.open
  BY ReadResults
<1>4. CASE conn.state = "CLIENT_RECV_REQUEST"
  <2> DEFINE d == received("client", r)
             P == initParser([d.req EXCEPT !.tunnel = TRUE])
             R == [d.resp EXCEPT !.tunnel = TRUE]
             e == [d EXCEPT !.req = P, !.resp = R]
  <2>1. Busy(d, nested) /\ d.state = conn.state /\ d.req = conn.req /\ d.open = conn.open
    BY <1>3, <1>4, ReceivedClient
  <2>2. conn' = e /\ "client" \in conn.open
    BY <1>1, <1>3, <1>4 DEF RecvSocket
  <2> HIDE DEF d
  <2>3. Parsing(d, nested)
    BY <1>4, <2>1, <2>2, BusyParsing
  <2>4. d \in Conn /\ d.req \in Parser /\ d.resp \in Parser
    BY <2>3 DEF Parsing, Conn
  <2>5. [d.req EXCEPT !.tunnel = TRUE] \in Parser /\ [d.req EXCEPT !.tunnel = TRUE].hcb = d.req.hcb
        /\ R \in Parser
    BY <2>4 DEF Parser
  <2>6. P \in Parser /\ P.hcb = d.req.hcb
    BY <2>5, InitParser
  <2> HIDE DEF P, R
  <2>7. /\ e \in Conn /\ e.open = d.open /\ e.armed = d.armed /\ e.closing = d.closing
        /\ e.ssl = d.ssl /\ e.req = P /\ e.state = d.state /\ e.resolve = d.resolve
        /\ e.cb = d.cb /\ e.free = d.free /\ e.twice = d.twice /\ e.overtaken = d.overtaken
    BY <2>4, <2>5, <2>6 DEF Conn
  <2> HIDE DEF e
  <2>8. Parsing(e, nested)
    BY <2>3, <2>6, <2>7 DEF Parsing, Sockets, Querying
  <2> QED  BY <1>2, <2>2, <2>8 DEF ProxyInv
<1>5. CASE conn.state = "SERVER_RECV_RESPONSE"
  <2> DEFINE d == received("server", r)
             P == initParser(d.resp)
             e == [d EXCEPT !.resp = P]
  <2>1. Busy(d, nested) /\ d.state = conn.state
    BY <1>3, <1>5, ReceivedServer
  <2>2. conn' = e
    BY <1>1, <1>5 DEF RecvSocket
  <2> HIDE DEF d
  <2>3. P \in Parser
    BY <2>1, InitParser DEF Busy, Conn
  <2> HIDE DEF P
  <2>4. Busy(e, nested) /\ e.state = d.state
    BY <2>1, <2>3, RespBusy
  <2> QED  BY <1>2, <1>5, <2>1, <2>2, <2>4 DEF ProxyInv
<1> QED  BY <1>4, <1>5 DEF recvBytes

LEMMA requestCallbackKeeps ==
    ASSUME ProxyInv, running, parsing, requestCallback
    PROVE  ProxyInv'
<1>1. PICK e \in http_parser_execute(conn.req, conn.method = "connect") :
        \E d \in calledBack(conn, e) : conn' = d
  BY DEF requestCallback
<1>2. PICK d \in calledBack(conn, e) : conn' = d
  BY <1>1
<1>3. e \in {"begin", "headers", "body", "complete"}
  BY DEF http_parser_execute
<1>4. Parsing(conn, nested) /\ nested \in BOOLEAN
  BY DEF ProxyInv, requestCallback
<1>5. Parsing(d, nested)
  BY <1>3, <1>4, CalledBack
<1> QED  BY <1>2, <1>5 DEF ProxyInv, requestCallback

LEMMA responseCallbackKeeps ==
    ASSUME ProxyInv, running, parsing, responseCallback
    PROVE  ProxyInv'
<1>1. PICK e \in http_parser_execute(conn.resp, FALSE), short \in BOOLEAN :
        conn' = [conn EXCEPT !.resp = callback(conn.resp, e, short)]
  BY DEF responseCallback
<1>2. e \in {"begin", "headers", "body", "complete"}
  BY DEF http_parser_execute
<1>3. Busy(conn, nested) /\ nested \in BOOLEAN /\ conn.state = "SERVER_RECV_RESPONSE"
  BY DEF ProxyInv, responseCallback, Parsing
<1> DEFINE P == callback(conn.resp, e, short)
           d == [conn EXCEPT !.resp = P]
<1>4. P \in Parser
  BY <1>2, <1>3, Callback DEF Busy, Conn
<1>5. conn' = d
  BY <1>1
<1> HIDE DEF P
<1>6. Busy(d, nested) /\ d.state = conn.state
  BY <1>3, <1>4, RespBusy
<1> HIDE DEF d
<1> QED  BY <1>3, <1>5, <1>6 DEF ProxyInv, responseCallback

LEMMA parsedRequestKeeps ==
    ASSUME ProxyInv, running, parsing, parsedRequest
    PROVE  ProxyInv'
<1> DEFINE d == conn
<1>8. Parsing(d, nested) /\ nested \in BOOLEAN
  BY DEF ProxyInv, parsedRequest
<1>9. \/ needMoreData(d.req) /\ badRequest(d)
      \/ needMoreData(d.req) /\ moreRequest(d)
      \/ ~needMoreData(d.req) /\ wholeRequest(d)
  BY DEF parsedRequest, parseReturns
<1>10. d \in Conn /\ Sockets(d) /\ d.state = "CLIENT_RECV_REQUEST"
  BY <1>8 DEF Parsing
\* On with a notification attached.
<1>11. ASSUME NEW e, Parsing(e, nested), e.req = d.req,
              Turn(arm(predictNextState(e), "client", {})),
              needMoreData(d.req) \/ nested \/ e.resolve # "process"
       PROVE  ProxyInv'
  <2> DEFINE f == arm(predictNextState(e), "client", {})
  <2>1. e \in Conn /\ Sockets(e)
    BY <1>11 DEF Parsing
  <2>2. Moved(e, f)
    BY <2>1, ProceedClient
  <2>3. conn' = f /\ parsing' = FALSE /\ UNCHANGED <<running, nested, silent>>
    BY <1>11 DEF Turn
  <2> HIDE DEF f
  <2>4. Busy(f, nested)
    BY <1>8, <1>11, <2>2, ReadOn, ReadDone
  <2> QED  BY <2>3, <2>4, TurnKeeps
<1>12. CASE needMoreData(d.req) /\ badRequest(d)
  <2> DEFINE e == forceCloseServer(attach(d))
  <2>1. Parsing(attach(d), nested) /\ attach(d).req = d.req
    BY <1>8, AttachParsing
  <2>2. Parsing(e, nested) /\ e.req = d.req
    BY <1>8, <2>1, CloseServerParsing
  <2>3. Turn(arm(predictNextState(e), "client", {}))
    BY <1>12 DEF badRequest, Proceed
  <2> HIDE DEF e
  <2> QED  BY <1>11, <1>12, <2>2, <2>3
<1>13. CASE needMoreData(d.req) /\ moreRequest(d)
  <2>1. CASE getServerConnectState(d) = "ERROR"
    <3> DEFINE e == attach(d)
    <3>1. Parsing(e, nested) /\ e.req = d.req
      BY <1>8, AttachParsing
    <3>2. Turn(arm(predictNextState(e), "client", {}))
      BY <1>13, <2>1 DEF moreRequest, Proceed
    <3> HIDE DEF e
    <3> QED  BY <1>11, <1>13, <3>1, <3>2
  <2>2. CASE getServerConnectState(d) # "ERROR"
    <3>1. Return(d)
      BY <1>13, <2>2 DEF moreRequest
    <3>2. Busy(d, nested)
      BY <1>8, <1>10, <1>13, BusyParsing
    <3>3. Settled(d, nested)
      BY <1>10, <3>2, <1>8, BusySettles DEF Busy
    <3>4. Waiting(conn')
      BY <3>1, <3>3, <1>8, Returned DEF Return
    <3> QED  BY <3>1, <3>4, ReturnKeeps DEF Return
  <2> QED  BY <2>1, <2>2
<1>14. CASE ~needMoreData(d.req) /\ wholeRequest(d)
  <2>1. headerCompleted(d.req)
    BY <1>14 DEF needMoreData, headerCompleted
  <2>2. CASE getServerConnectState(d) = "ERROR"
    <3> DEFINE e == attach(d)
    <3>1. Parsing(e, nested) /\ e.req = d.req /\ e.resolve = d.resolve
      BY <1>8, AttachParsing
    <3>3. d.resolve = "err"
      BY <2>1, <2>2 DEF getServerConnectState
    <3>4. Turn(arm(predictNextState(e), "client", {}))
      BY <1>14, <2>2 DEF wholeRequest, Proceed
    <3> HIDE DEF e
    <3> QED  BY <1>11, <3>1, <3>3, <3>4
  <2>3. CASE getServerConnectState(d) = "ING"
    <3> DEFINE e == [arm(predictNextState(d), "client", {}) EXCEPT !.misled = nested]
    <3>1. "server" \notin d.open /\ d.resolve = "process"
      BY <2>3 DEF getServerConnectState
    <3>2. Return(e)
      BY <1>14, <2>3 DEF wholeRequest
    <3>3. Settled(e, nested)
      BY <1>8, <1>14, <3>1, ReadWaits
    <3> HIDE DEF e
    <3>4. Waiting(conn')
      BY <3>2, <3>3, <1>8, Returned DEF Return
    <3> QED  BY <3>2, <3>4, ReturnKeeps DEF Return
  <2>4. CASE getServerConnectState(d) \notin {"ERROR", "ING"}
    <3>1. "server" \in d.open \/ d.resolve # "process"
      BY <2>1, <2>4 DEF getServerConnectState
    <3>2. nested \/ d.resolve # "process"
      BY <1>8, <3>1 DEF Parsing, Querying
    <3>3. Turn(arm(predictNextState(d), "client", {}))
      BY <1>14, <2>4 DEF wholeRequest, Proceed
    <3> QED  BY <1>8, <1>11, <3>2, <3>3
  <2> QED  BY <2>2, <2>3, <2>4
<1> QED  BY <1>9, <1>12, <1>13, <1>14

\* forceCloseProxy, from any turn of the loop.
LEMMA ClosedReturns ==
    ASSUME ProxyInv, running, NEW d, d \in Conn, Sockets(d), ~d.twice, ~d.free,
           Return(forceCloseProxy(d))
    PROVE  ProxyInv'
<1> DEFINE c == forceCloseProxy(d)
<1>1. c \in Conn /\ Clean(c)
  BY ForceCloseProxy
<1> HIDE DEF c
<1>2. Settled(c, nested)
  BY <1>1, CleanWaits DEF ProxyInv
<1>3. Waiting(conn')
  BY <1>2, Returned DEF Return, c, ProxyInv
<1> QED  BY <1>3, ReturnKeeps DEF Return

LEMMA parsedResponseKeeps ==
    ASSUME ProxyInv, running, parsing, parsedResponse
    PROVE  ProxyInv'
<1>1. conn.state = "SERVER_RECV_RESPONSE" /\ nested \in BOOLEAN /\ Busy(conn, nested)
  BY DEF ProxyInv, parsedResponse, Parsing
<1>2. conn \in Conn /\ Sockets(conn) /\ ~conn.twice /\ ~conn.free
      /\ (nested \/ conn.resolve # "process")
  BY <1>1 DEF Busy
<1>3. CASE Return(forceCloseProxy(conn))
  BY <1>2, <1>3, ClosedReturns
<1>4. CASE Return(conn)
  <2>1. Settled(conn, nested)
    BY <1>1, BusySettles DEF Busy
  <2>2. Waiting(conn')
    BY <1>1, <1>4, <2>1, Returned DEF Return
  <2> QED  BY <1>4, <2>2, ReturnKeeps DEF Return
<1>5. CASE Proceed(conn, "server")
  <2> DEFINE e == arm(predictNextState(conn), "server", {})
  <2>1. conn' = e /\ parsing' = FALSE /\ UNCHANGED <<running, nested, silent>>
    BY <1>5 DEF Proceed, Turn
  <2>2. Moved(conn, e)
    BY <1>2, ProceedServer
  <2> HIDE DEF e
  <2>3. e.state \notin Fresh \cup {"CLIENT_RECV_REQUEST", "CLIENT_SEND_200OK_DONE"}
    BY <1>1, <1>2, <2>2, NextState DEF Moved
  <2>4. Busy(e, nested)
    BY <1>1, <1>2, <2>2, <2>3, MoveOn
  <2> QED  BY <2>1, <2>4, TurnKeeps
<1> QED  BY <1>3, <1>4, <1>5 DEF parsedResponse

LEMMA recvDoneKeeps ==
    ASSUME ProxyInv, running, ~parsing, recvDone
    PROVE  ProxyInv'
<1> USE InLoop
<1> DEFINE p == predictNextState(conn)
           e == IF p.state = "CLIENT_SEND_200OK" THEN attach(p) ELSE p
<1>1. /\ conn.state \in {"CLIENT_RECV_REQUEST_DONE", "SERVER_RECV_RESPONSE_DONE"}
      /\ conn' = e /\ parsing' = FALSE /\ UNCHANGED <<running, nested, silent>>
  BY DEF recvDone, Turn
<1>2. Moved(conn, p)
  BY PredictedMoved
<1>3. p.state \notin Fresh \cup {"CLIENT_RECV_REQUEST", "CLIENT_SEND_200OK_DONE"}
  BY <1>1, NextState
<1> HIDE DEF p
<1>4. Busy(p, nested)
  BY <1>1, <1>2, <1>3, MoveOn
<1>5. p \in Conn /\ Sockets(p)
  BY <1>4 DEF Busy
<1>6. /\ attach(p) \in Conn /\ attach(p).open = p.open /\ attach(p).armed = p.armed
      /\ attach(p).closing = p.closing /\ attach(p).ssl = p.ssl /\ attach(p).req = p.req
      /\ attach(p).state = p.state /\ attach(p).resolve = p.resolve
      /\ attach(p).cb = p.cb /\ attach(p).free = p.free /\ attach(p).twice = p.twice
      /\ attach(p).overtaken = p.overtaken
  BY <1>5 DEF Conn, attach, OutBuffer
<1>7. Sockets(attach(p))
  BY <1>5, <1>6 DEF Sockets
<1>8. Busy(attach(p), nested)
  BY <1>4, <1>6, <1>7, BusyKept
<1>9. Busy(e, nested)
  BY <1>4, <1>8
<1> QED  BY <1>1, <1>9, TurnKeeps

LEMMA sendFailsKeeps ==
    ASSUME ProxyInv, running, ~parsing, sendFails
    PROVE  ProxyInv'
<1> USE InLoop
<1>1. PICK d \in closeHandle(conn, SendSocket) : Return(d)
  BY DEF sendFails
<1>2. /\ Settled(conn, nested) /\ (nested \/ conn.resolve # "process")
      /\ SendSocket \in {"client", "server"}
  BY BusySettles DEF sendFails, Sending, SendSocket, Busy
<1> DEFINE s == SendSocket
<1>3. s \in {"client", "server"} /\ d \in closeHandle(conn, s)
  BY <1>2
<1> HIDE DEF s
<1>4. Settled(d, nested)
  BY <1>2, <1>3, CloseHandle
<1>5. Waiting(conn')
  BY <1>1, <1>4, Returned DEF Return
<1> QED  BY <1>1, <1>5, ReturnKeeps DEF Return

LEMMA sendAllKeeps ==
    ASSUME ProxyInv, running, ~parsing, sendAll
    PROVE  ProxyInv'
<1> USE InLoop
<1> DEFINE d == IF SendSocket = "server" THEN [conn EXCEPT !.requests = FALSE]
                ELSE [conn EXCEPT !.out = "empty"]
<1>1. Proceed(d, SendSocket) /\ SendSocket \in {"client", "server"}
  BY DEF sendAll, SendSocket
<1>2. conn.state \in {"CLIENT_SEND_200OK", "CLIENT_SEND_RESPONSE", "SERVER_SEND_REQUEST"}
  BY DEF sendAll, Sending
<1>3. /\ d \in Conn /\ d.open = conn.open /\ d.armed = conn.armed /\ d.closing = conn.closing
      /\ d.ssl = conn.ssl /\ d.req = conn.req /\ d.state = conn.state
      /\ d.resolve = conn.resolve /\ d.cb = conn.cb /\ d.free = conn.free
      /\ d.twice = conn.twice /\ d.overtaken = conn.overtaken
  BY DEF Conn, OutBuffer
<1> HIDE DEF d
<1>4. Sockets(d)
  BY <1>3 DEF Sockets
<1>5. Busy(d, nested) /\ (nested \/ d.resolve # "process")
  BY <1>2, <1>3, <1>4, BusyKept
<1>6. PICK e : Moved(d, e) /\ conn' = e /\ parsing' = FALSE /\ UNCHANGED <<running, nested, silent>>
  <2>1. CASE SendSocket = "client"
    BY <1>1, <1>3, <1>4, <2>1, ProceedClient DEF Proceed, Turn
  <2>2. CASE SendSocket = "server"
    BY <1>1, <1>3, <1>4, <2>2, ProceedServer DEF Proceed, Turn
  <2> QED  BY <1>1, <2>1, <2>2
<1>7. /\ e.state \notin Fresh \cup {"CLIENT_RECV_REQUEST"}
      /\ e.state = "CLIENT_SEND_200OK_DONE" => d.state = "CLIENT_SEND_200OK"
  BY <1>2, <1>3, <1>6, NextState DEF Moved
\* A closed socket takes nothing.
<1>8. SendSocket \in conn.open
  BY DEF sendAll, Written, sendNIO, Closed
<1>9. e.state = "CLIENT_SEND_200OK_DONE" => "client" \in d.open
  BY <1>3, <1>7, <1>8 DEF SendSocket
<1>10. Busy(e, nested)
  BY <1>2, <1>3, <1>5, <1>6, <1>7, <1>9, MoveOn
<1> QED  BY <1>6, <1>10, TurnKeeps

LEMMA WrittenResults ==
    ASSUME NEW r \in Written
    PROVE  r.want \in {"none", "read", "write"}
<1> DEFINE tls == SendSocket \in conn.ssl
<1>1. r = Closed \/ r \in sendToSocket(tls, Unsent)
  BY DEF Written, sendNIO
<1>2. \A q \in Send(tls) : q.want \in {"none", "read", "write"}
  BY DEF Send, sctxSend, sctxIO, Event
<1> HIDE DEF tls
<1>3. CASE r = Closed
  BY <1>3 DEF Closed
<1>4. CASE r \in sendToSocket(tls, Unsent)
  <2>1. r.want = "none" \/ \E q \in Send(tls) : r.want = q.want
    BY <1>4 DEF sendToSocket
  <2> QED  BY <1>2, <2>1
<1> QED  BY <1>1, <1>3, <1>4

\* A socket armed for one event while the object keeps its state, and with fewer contexts.
LEMMA ArmedBusy ==
    ASSUME NEW d, NEW n \in BOOLEAN, Busy(d, n), NEW s \in {"client", "server"},
           NEW w \in Event, NEW X \in SUBSET d.ssl
    PROVE  Busy([arm(d, s, {w}) EXCEPT !.ssl = X], n)
<1> DEFINE a == arm(d, s, {w})
           e == [a EXCEPT !.ssl = X]
<1>1. d \in Conn /\ Sockets(d)
  BY DEF Busy
<1>2. {w} \in SUBSET Event /\ s \in Sock
  BY DEF Sock
<1>3. a \in Conn /\ Rest(d, a) /\ a.open = d.open /\ a.ssl = d.ssl
  BY <1>1, <1>2, Arm
<1>4. a.armed["udp"] = d.armed["udp"]
  BY <1>1, <1>2, Arm DEF Sock
<1>5. Sockets(a)
  BY <1>1, <1>2, SocketsArm
<1> HIDE DEF a
<1>6. /\ e \in Conn /\ e.state = a.state /\ e.open = a.open /\ e.ssl = X /\ e.req = a.req
      /\ e.resolve = a.resolve /\ e.cb = a.cb /\ e.free = a.free /\ e.twice = a.twice
      /\ e.overtaken = a.overtaken
      /\ e.armed = a.armed /\ e.closing = a.closing
  BY <1>3 DEF Conn
<1> HIDE DEF e
<1>7. Sockets(e)
  BY <1>3, <1>5, <1>6 DEF Sockets
<1>8. Busy(e, n)
  BY <1>3, <1>4, <1>6, <1>7, BusyKept DEF Rest
<1> QED  BY <1>8 DEF e, a

LEMMA sendSomeKeeps ==
    ASSUME ProxyInv, running, ~parsing, sendSome
    PROVE  ProxyInv'
<1> USE InLoop
<1>1. PICK r \in Written :
        Return([arm(conn, SendSocket, {IF r.want = "none" THEN "write" ELSE r.want})
                EXCEPT !.ssl = IF r.ssl THEN @ ELSE @ \ {SendSocket}])
  BY DEF sendSome
<1>2. r.want \in {"none", "read", "write"}
  BY WrittenResults
<1> DEFINE s == SendSocket
           w == IF r.want = "none" THEN "write" ELSE r.want
           X == IF r.ssl THEN conn.ssl ELSE conn.ssl \ {s}
           e == [arm(conn, s, {w}) EXCEPT !.ssl = X]
<1>3. w \in Event /\ X \in SUBSET conn.ssl /\ s \in {"client", "server"}
  BY <1>2 DEF Event, SendSocket
<1>4. conn.state \in {"CLIENT_SEND_200OK", "CLIENT_SEND_RESPONSE", "SERVER_SEND_REQUEST"}
  BY DEF sendSome, Sending
<1>5. arm(conn, s, {w}).ssl = conn.ssl
  BY DEF arm, Conn
<1>6. Return(e)
  BY <1>1, <1>5
<1>7. e.state = conn.state
  BY DEF arm, Conn
<1> HIDE DEF s, w, X
<1>8. Busy(e, nested)
  BY <1>3, ArmedBusy
<1> HIDE DEF e
<1>9. Settled(e, nested)
  BY <1>4, <1>7, <1>8, BusySettles DEF Busy
<1>10. Waiting(conn')
  BY <1>6, <1>9, Returned DEF Return
<1> QED  BY <1>6, <1>10, ReturnKeeps DEF Return

LEMMA sendDoneKeeps ==
    ASSUME ProxyInv, running, ~parsing, sendDone
    PROVE  ProxyInv'
<1> USE InLoop
<1>1. CASE conn.state = "SERVER_SEND_REQUEST_DONE"
  <2> DEFINE e == predictNextState(conn)
  <2>1. Moved(conn, e)
    BY PredictedMoved
  <2>2. e.state = "SERVER_RECV_RESPONSE"
    BY <1>1, NextState
  <2>3. conn' = e /\ parsing' = FALSE /\ UNCHANGED <<running, nested, silent>>
    BY <1>1, <2>2 DEF sendDone, Turn
  <2> HIDE DEF e
  <2>4. Busy(e, nested)
    BY <1>1, <2>1, <2>2, MoveOn DEF Fresh
  <2> QED  BY <2>3, <2>4, TurnKeeps
<1>2. CASE conn.state \in {"CLIENT_SEND_200OK_DONE", "CLIENT_SEND_RESPONSE_DONE"}
  <2> DEFINE c == cleared(conn)
             d == predictNextState(c)
  <2>1. reset \in Parser /\ reset.state = "UNINIT" /\ ~reset.hcb
    BY DEF reset, Parser, ParseState
  <2>2. /\ c \in Conn /\ c.open = conn.open /\ c.armed = conn.armed /\ c.ssl = conn.ssl
        /\ c.closing = conn.closing /\ c.req = reset /\ c.state = conn.state
        /\ c.resolve = conn.resolve /\ c.cb = conn.cb /\ c.free = conn.free
        /\ c.twice = conn.twice /\ c.overtaken = conn.overtaken
    BY <2>1 DEF Conn, cleared
  <2>3. /\ IF d.state # "SERVER_HANDSHAKE" THEN Turn(d)
           ELSE \E r \in prepareSSLContext("server"), q \in prepareSSLContext("client") :
                  IF r = "OK" /\ q = "OK" THEN Turn([d EXCEPT !.ssl = {"client", "server"}])
                  ELSE Return(forceCloseProxy(d))
    BY <1>2 DEF sendDone
  <2> HIDE DEF c
  <2>4. Sockets(c)
    BY <2>2 DEF Sockets
  <2>5. Busy(c, nested)
    <3>1. Messages(c)
      BY <1>2, <2>1, <2>2 DEF Messages, Fresh
    <3>2. nested \/ Querying(c)
      BY <1>2, <2>2 DEF Busy, Querying
    <3> QED  BY <1>2, <2>1, <2>2, <2>4, <3>1, <3>2 DEF Busy
  <2>6. Moved(c, d)
    BY <2>2, <2>4, PredictedMoved
  <2>7. d.state \in {"SERVER_HANDSHAKE", "CLIENT_RECV_REQUEST"}
    BY <1>2, <2>2, NextState
  <2> HIDE DEF d
  <2>8. Busy(d, nested)
    BY <1>2, <2>1, <2>2, <2>5, <2>6, <2>7, StartOver DEF Busy
  <2>9. CASE Turn(d)
    BY <2>8, <2>9, TurnKeeps DEF Turn
  <2>10. CASE Return(forceCloseProxy(d))
    <3>1. d \in Conn /\ Sockets(d) /\ ~d.twice /\ ~d.free
      BY <2>8 DEF Busy
    <3> QED  BY <2>10, <3>1, ClosedReturns
  <2>11. CASE d.state = "SERVER_HANDSHAKE" /\ Turn([d EXCEPT !.ssl = {"client", "server"}])
    <3> DEFINE e == [d EXCEPT !.ssl = {"client", "server"}]
    <3>1. d \in Conn /\ Sockets(d) /\ Messages(d) /\ ~d.twice /\ ~d.free /\ ~d.req.hcb
          /\ "client" \in d.open
      <4>1. conn.state = "CLIENT_SEND_200OK_DONE"
        BY <1>2, <2>2, <2>6, <2>11, NextState DEF Moved
      <4> QED  BY <2>1, <2>2, <2>6, <2>8, <4>1 DEF Busy, Moved
    <3>2. /\ e \in Conn /\ e.open = d.open /\ e.armed = d.armed /\ e.closing = d.closing
          /\ e.ssl = {"client", "server"} /\ e.req = d.req /\ e.state = d.state
          /\ e.resolve = d.resolve /\ e.cb = d.cb /\ e.free = d.free /\ e.twice = d.twice
          /\ e.overtaken = d.overtaken
      BY <3>1 DEF Conn, Sock
    <3>3. conn' = e /\ parsing' = FALSE /\ UNCHANGED <<running, nested, silent>>
      BY <2>11 DEF Turn
    <3> HIDE DEF e
    <3>4. Sockets(e)
      BY <3>1, <3>2 DEF Sockets
    <3>5. Messages(e)
      BY <2>11, <3>1, <3>2 DEF Messages
    <3>6. IF nested THEN e.armed["udp"] = {} ELSE Querying(e) /\ e.resolve # "process"
      BY <2>8, <2>11, <3>2 DEF Busy, Querying
    <3>7. Busy(e, nested)
      BY <2>11, <3>1, <3>2, <3>4, <3>5, <3>6 DEF Busy
    <3> QED  BY <3>3, <3>7, TurnKeeps
  <2> QED  BY <2>3, <2>9, <2>10, <2>11
<1> QED  BY <1>1, <1>2 DEF sendDone

LEMMA HandshakeResults ==
    /\ \A r \in sctxConnect \cup sctxAccept : r.ret = "RECALL" => r.want \in Event
    /\ Closed.ret = "ERROR"
BY DEF sctxConnect, sctxAccept, sctxIO, Closed

LEMMA handshakesKeep ==
    ASSUME ProxyInv, running, ~parsing,
           serverHandshake \/ serverHandshakeDone \/ clientHandshake \/ clientHandshakeDone
    PROVE  ProxyInv'
<1> USE InLoop
<1>1. Return(forceCloseProxy(conn)) => ProxyInv'
  BY ClosedReturns
\* The request is cleared, and inside the resolver's callback without its handle.
<1>2. conn.state \in Fresh => conn.req.state = "UNINIT" /\ (nested => ~conn.req.hcb)
  BY DEF Messages, Busy
<1>3. ASSUME NEW s \in {"client", "server"}, NEW w \in Event, Return(arm(conn, s, {w})),
             conn.state \in Fresh, "server" \in conn.ssl => "server" \in conn.open
      PROVE  ProxyInv'
  <2> DEFINE a == arm(conn, s, {w})
             X == conn.ssl
  <2>1. a \in Conn /\ a.ssl = conn.ssl /\ a.state = conn.state /\ a.open = conn.open
    BY Arm DEF Sock, Rest
  <2>2. [a EXCEPT !.ssl = X] = a
    BY <2>1 DEF Conn
  <2> HIDE DEF X
  <2>3. Busy([a EXCEPT !.ssl = X], nested)
    BY ArmedBusy DEF X
  <2> HIDE DEF a
  <2>4. Settled(a, nested)
    BY <1>3, <2>1, <2>2, <2>3, BusySettles DEF Fresh
  <2>5. Waiting(conn')
    BY <1>3, <2>4, Returned DEF Return, a
  <2> QED  BY <1>3, <2>5, ReturnKeeps DEF Return
<1>4. ASSUME NEW e, Moved(conn, e), conn' = e,
             parsing' = FALSE /\ UNCHANGED <<running, nested, silent>>,
             conn.state \in Fresh \ {"PROXY_INIT"},
             "server" \in conn.ssl => "server" \in conn.open
      PROVE  ProxyInv'
  <2>1. /\ e.state \notin {"PROXY_INIT", "CLIENT_SEND_200OK_DONE"}
        /\ nested \/ conn.resolve # "process"
    BY <1>4, NextState DEF Moved, Fresh
  <2>2. Busy(e, nested)
    BY <1>2, <1>4, <2>1, StartOver
  <2> QED  BY <1>4, <2>2, TurnKeeps
<1>5. CASE serverHandshake
  <2>1. conn.state = "SERVER_HANDSHAKE"
    BY <1>5 DEF serverHandshake
  <2>2. PICK r \in IF "server" \in conn.open THEN sctxConnect ELSE {Closed} :
         \/ r.ret = "OK" /\ Proceed(conn, "server")
         \/ r.ret = "OK" /\ Return(forceCloseProxy(conn))
         \/ r.ret = "RECALL" /\ Return(arm(conn, "server", {r.want}))
         \/ r.ret = "ERROR" /\ Return(forceCloseProxy(conn))
    BY <1>5 DEF serverHandshake
  <2>3. CASE Return(forceCloseProxy(conn))
    BY <1>1, <2>3
  <2>4. CASE r.ret = "OK" /\ Proceed(conn, "server")
    <3> DEFINE e == arm(predictNextState(conn), "server", {})
    <3>1. "server" \in conn.open
      BY <2>2, <2>4, HandshakeResults
    <3>2. Moved(conn, e)
      BY ProceedServer
    <3>3. conn' = e /\ parsing' = FALSE /\ UNCHANGED <<running, nested, silent>>
      BY <2>4 DEF Proceed, Turn
    <3> HIDE DEF e
    <3> QED  BY <1>4, <2>1, <3>1, <3>2, <3>3 DEF Fresh
  <2>5. CASE r.ret = "RECALL" /\ Return(arm(conn, "server", {r.want}))
    <3>1. "server" \in conn.open /\ r.want \in Event
      BY <2>2, <2>5, HandshakeResults
    <3> QED  BY <1>3, <2>1, <2>5, <3>1 DEF Fresh
  <2> QED  BY <2>2, <2>3, <2>4, <2>5
<1>6. CASE clientHandshake
  <2>1. conn.state = "CLIENT_HANDSHAKE" /\ ("server" \in conn.ssl => "server" \in conn.open)
    BY <1>6 DEF clientHandshake, Busy
  <2>2. PICK r \in IF "client" \in conn.open THEN sctxAccept ELSE {Closed} :
         \/ r.ret = "OK" /\ Proceed(conn, "client")
         \/ r.ret = "RECALL" /\ Return(arm(conn, "client", {r.want}))
         \/ r.ret = "ERROR" /\ Return(forceCloseProxy(conn))
    BY <1>6 DEF clientHandshake
  <2>3. CASE Return(forceCloseProxy(conn))
    BY <1>1, <2>3
  <2>4. CASE r.ret = "OK" /\ Proceed(conn, "client")
    <3> DEFINE e == arm(predictNextState(conn), "client", {})
    <3>1. Moved(conn, e)
      BY ProceedClient
    <3>2. conn' = e /\ parsing' = FALSE /\ UNCHANGED <<running, nested, silent>>
      BY <2>4 DEF Proceed, Turn
    <3> HIDE DEF e
    <3> QED  BY <1>4, <2>1, <3>1, <3>2 DEF Fresh
  <2>5. CASE r.ret = "RECALL" /\ Return(arm(conn, "client", {r.want}))
    <3>1. r.want \in Event
      BY <2>2, <2>5, HandshakeResults
    <3> QED  BY <1>3, <2>1, <2>5, <3>1 DEF Fresh
  <2> QED  BY <2>2, <2>3, <2>4, <2>5
<1>7. CASE serverHandshakeDone \/ clientHandshakeDone
  <2> DEFINE e == predictNextState(conn)
  <2>1. /\ conn.state \in {"SERVER_HANDSHAKE_DONE", "CLIENT_HANDSHAKE_DONE"}
        /\ Turn(e) \/ Return(forceCloseProxy(conn))
        /\ "server" \in conn.ssl => "server" \in conn.open
    BY <1>7 DEF serverHandshakeDone, clientHandshakeDone, Busy
  <2>2. Moved(conn, e)
    BY PredictedMoved
  <2> HIDE DEF e
  <2>3. CASE Turn(e)
    BY <1>4, <2>1, <2>2, <2>3 DEF Turn, Fresh
  <2> QED  BY <1>1, <2>1, <2>3
<1> QED  BY <1>5, <1>6, <1>7

LEMMA RWEventHandleKeeps ==
    ASSUME ProxyInv, RWEventHandle
    PROVE  ProxyInv'
<1>1. CASE turn
  BY <1>1, proxyInitKeeps, recvFailsKeeps, recvNothingKeeps, recvBytesKeeps, recvDoneKeeps,
     sendFailsKeeps, sendAllKeeps, sendSomeKeeps, sendDoneKeeps, handshakesKeep DEF turn
<1>2. CASE running /\ parsing /\ parse
  BY <1>2, requestCallbackKeeps, responseCallbackKeeps, parsedRequestKeeps,
     parsedResponseKeeps DEF parse
<1> QED  BY <1>1, <1>2 DEF RWEventHandle

-----------------------------------------------------------------------------
(* The events.                                                              *)

LEMMA BetweenEvents ==
    ASSUME ProxyInv, ~running
    PROVE  /\ Settled(conn, FALSE) /\ ~nested /\ conn \in Conn /\ Sockets(conn)
           /\ Messages(conn) /\ Querying(conn) /\ ~conn.twice /\ conn.ssl \subseteq conn.open
           /\ conn.free => Clean(conn) /\ conn.open = {} /\ \A s \in Sock : conn.armed[s] = {}
           /\ ~conn.free => Held(conn)
<1>1. Settled(conn, FALSE) /\ ~nested
  BY DEF ProxyInv, Waiting
<1>2. conn \in Conn /\ Sockets(conn) /\ Messages(conn) /\ Querying(conn) /\ ~conn.twice
      /\ conn.ssl \subseteq conn.open /\ (conn.free => Clean(conn)) /\ (~conn.free => Held(conn))
  BY <1>1 DEF Settled
<1>3. conn.free => conn.open = {} /\ \A s \in Sock : conn.armed[s] = {}
  BY <1>2, CleanWaits
<1> QED  BY <1>1, <1>2, <1>3

LEMMA acceptKeeps ==
    ASSUME ProxyInv, accept
    PROVE  ProxyInv'
<1>1. ~running /\ conn.free
  BY DEF accept, Idle
<1>2. /\ conn \in Conn /\ Sockets(conn) /\ Clean(conn) /\ ~conn.twice
  BY <1>1, BetweenEvents
<1>3. /\ conn.open = {} /\ conn.ssl = {} /\ conn.req = reset /\ conn.resolve = "uninit"
      /\ conn.state = "PROXY_INIT" /\ \A s \in Sock : conn.armed[s] = {}
  BY <1>2, CleanWaits
<1>4. CASE Done([opened(conn, "client", {"read"}) EXCEPT !.free = FALSE])
  <2> DEFINE a == opened(conn, "client", {"read"})
             e == [a EXCEPT !.free = FALSE]
  <2>1. "client" \in Sock /\ {"read"} \in SUBSET Event
    BY DEF Sock, Event
  <2>2. /\ a \in Conn /\ Rest(conn, a) /\ a.open = {"client"} /\ a.ssl = {}
    BY <1>2, <1>3, <2>1, Opened
  <2>3. a.armed["udp"] = {}
    BY <1>2, <1>3, <2>1, Opened DEF Sock
  <2>4. Sockets(a)
    BY <1>2, <2>1, SocketsOpened
  <2> HIDE DEF a
  <2>5. /\ e \in Conn /\ e.open = a.open /\ e.armed = a.armed /\ e.closing = a.closing
        /\ e.ssl = a.ssl /\ e.req = a.req /\ e.state = a.state /\ e.resolve = a.resolve
        /\ e.cb = a.cb /\ e.free = FALSE /\ e.twice = a.twice /\ e.overtaken = a.overtaken
    BY <2>2 DEF Conn
  <2>6. conn' = e /\ UNCHANGED <<running, parsing, nested, silent>>
    BY <1>4 DEF Done, a
  <2> HIDE DEF e
  <2>7. Sockets(e) /\ Messages(e) /\ Querying(e) /\ Held(e)
    BY <1>3, <2>2, <2>3, <2>4, <2>5
    DEF Sockets, Messages, Querying, Held, Rest, reset, Fresh, needMoreData
  <2>8. Waiting(e)
    BY <1>2, <1>3, <2>2, <2>5, <2>7 DEF Waiting, Settled, Rest
  <2> QED  BY <1>1, <2>6, <2>8, DoneKeeps
<1>5. CASE Done(recycle([conn EXCEPT !.free = FALSE]))
  <2> DEFINE d == [conn EXCEPT !.free = FALSE]
             e == recycle(d)
  <2>1. /\ d \in Conn /\ d.open = {} /\ d.armed = conn.armed /\ d.closing = conn.closing
        /\ d.ssl = {} /\ ~d.twice /\ ~d.free
    BY <1>2, <1>3 DEF Conn
  <2> HIDE DEF d
  <2>2. Sockets(d)
    BY <1>2, <1>3, <2>1 DEF Sockets
  <2>3. e \in Conn /\ Clean(e)
    BY <2>1, <2>2, Recycle
  <2>4. conn' = e /\ UNCHANGED <<running, parsing, nested, silent>>
    BY <1>5 DEF Done, d
  <2> HIDE DEF e
  <2>5. Waiting(e)
    BY <2>3, CleanWaits DEF Waiting
  <2> QED  BY <1>1, <2>4, <2>5, DoneKeeps
<1> QED  BY <1>4, <1>5 DEF accept

LEMMA rwEventKeeps ==
    ASSUME ProxyInv, NEW s \in {"client", "server"}, rwEvent(s)
    PROVE  ProxyInv'
<1>1. ~running
  BY DEF rwEvent, Idle
<1> USE BetweenEvents
<1>2. PICK e \in conn.armed[s] :
         \/ /\ Handler(conn, s, e) = "RWEventHandle"
            /\ running' = TRUE /\ UNCHANGED <<conn, parsing, nested, silent>>
         \/ /\ Handler(conn, s, e) = "closeHandle"
            /\ \E d \in closeHandle(conn, s) : Done(d)
  BY DEF rwEvent
<1>3. s \in conn.open /\ ~conn.free /\ Held(conn)
  BY <1>1, <1>2 DEF Sockets, Sock
<1>4. "server" \in conn.open => conn.resolve # "process"
  BY <1>1 DEF Querying
<1>5. CASE Handler(conn, s, e) = "RWEventHandle" /\ running' = TRUE
           /\ UNCHANGED <<conn, parsing, nested, silent>>
  <2>1. "client" \notin conn.open => conn.overtaken
    BY <1>2, <1>3, <1>5 DEF Held, Handler
  <2>2. conn.resolve = "process" => conn.state = "CLIENT_RECV_REQUEST"
    <3> SUFFICES ASSUME conn.resolve = "process", conn.state = "CLIENT_RECV_REQUEST_DONE"
                 PROVE  FALSE
      BY <1>1 DEF Querying
    <3>1. Awaited(conn)
      BY <1>1 DEF Settled
    <3>2. "server" \notin conn.open /\ conn.armed["client"] = {}
      BY <3>1 DEF Awaited
    <3> QED  BY <1>2, <1>3, <3>2
  <2>3. Busy(conn, FALSE) /\ nested = FALSE
    BY <1>1, <1>3, <2>1, <2>2 DEF Busy, ProxyInv, Settled
  <2> QED  BY <1>1, <1>5, <2>3 DEF ProxyInv
<1>6. CASE \E d \in closeHandle(conn, s) : Done(d)
  <2>1. PICK d \in closeHandle(conn, s) : Done(d)
    BY <1>6
  <2>2. Settled(d, FALSE)
    BY <1>1, <1>3, <1>4, <2>1, CloseHandle
  <2> QED  BY <1>1, <2>1, <2>2, DoneKeeps DEF Done, Waiting
<1> QED  BY <1>2, <1>5, <1>6

LEMMA forceCloseKeeps ==
    ASSUME ProxyInv, ~running, NEW s \in {"client", "server"}, s \in conn.open,
           Done(forceClose(conn, s))
    PROVE  ProxyInv'
<1> USE BetweenEvents
<1>1. ~conn.free
  OBVIOUS
<1> DEFINE e == forceClose(conn, s)
<1>2. Waiting(e)
  <2>1. CASE s = "client"
    <3>1. e = forceCloseProxy(conn)
      BY <2>1 DEF forceClose
    <3>2. e \in Conn /\ Clean(e)
      BY <1>1, <3>1, ForceCloseProxy
    <3> QED  BY <3>2, CleanWaits DEF Waiting
  <2>2. CASE s = "server" /\ "client" \notin conn.open
    <3>1. e = forceCloseServer(conn)
      BY <2>2 DEF forceClose
    <3>2. e \in Conn /\ Clean(e)
      BY <1>1, <2>2, <3>1, ForceCloseServer
    <3> QED  BY <3>2, CleanWaits DEF Waiting
  <2>3. CASE s = "server" /\ "client" \in conn.open
    <3>1. e = tcpClose(conn, "server")
      BY <2>3, ForceCloseServer DEF forceClose
    <3>2. /\ e \in Conn /\ Rest(conn, e) /\ e.open = conn.open \ {"server"} /\ Sockets(e)
          /\ e.ssl = conn.ssl \ {"server"} /\ e.armed["udp"] = conn.armed["udp"]
          /\ e.armed["client"] = conn.armed["client"]
      BY <3>1, ServerClosed
    <3> HIDE DEF e
    <3>3. Messages(e) /\ Held(e) /\ Querying(e)
      BY <2>3, <3>2 DEF Messages, Held, Querying, Rest
    <3>4. Awaited(conn) => Awaited(e)
      BY <3>2 DEF Awaited, Rest
    <3> QED  BY <1>1, <3>2, <3>3, <3>4 DEF Waiting, Settled, Rest
  <2> QED  BY <2>1, <2>2, <2>3
<1>3. conn' = e /\ UNCHANGED <<running, parsing, nested, silent>>
  BY DEF Done
<1> HIDE DEF e
<1> QED  BY <1>2, <1>3, DoneKeeps

LEMMA sendQueryKeeps ==
    ASSUME ProxyInv, sendQuery
    PROVE  ProxyInv'
<1>1. ~running /\ "write" \in conn.armed["udp"]
  BY DEF sendQuery, Idle
<1> USE BetweenEvents
<1> DEFINE e == arm(conn, "udp", {"read"})
<1>2. "udp" \in Sock /\ {"read"} \in SUBSET Event
  BY DEF Sock, Event
<1>3. "udp" \in conn.open /\ ~conn.free
  BY <1>1, <1>2 DEF Sockets
<1>4. /\ e \in Conn /\ Rest(conn, e) /\ e.open = conn.open /\ e.ssl = conn.ssl
      /\ e.closing = conn.closing /\ e.armed["udp"] = {"read"}
  BY <1>1, <1>2, <1>3, Arm
<1>5. e.armed["client"] = conn.armed["client"] /\ e.armed["server"] = conn.armed["server"]
  BY <1>1, <1>2, Arm DEF Sock
<1>6. Sockets(e)
  BY <1>1, <1>2, SocketsArm
<1>7. (conn' = e \/ conn' = conn) /\ UNCHANGED <<running, parsing, nested, silent>>
  BY DEF sendQuery, Done
<1> HIDE DEF e
<1>8. Messages(e) /\ Held(e) /\ Querying(e)
  BY <1>1, <1>3, <1>4, <1>5 DEF Messages, Held, Querying, Rest
<1>9. Awaited(conn) => Awaited(e)
  BY <1>4, <1>5 DEF Awaited, Rest
<1>10. Waiting(e) /\ Waiting(conn)
  BY <1>1, <1>3, <1>4, <1>6, <1>8, <1>9 DEF Waiting, Settled, Rest
<1> QED  BY <1>1, <1>7, <1>10, DoneKeeps

\* What serverConnectHandle leaves when there is no server.
LEMMA NotConnected ==
    ASSUME NEW d, d \in Conn, Sockets(d), NEW e, e = notConnected(d)
    PROVE  /\ e \in Conn /\ Sockets(e) /\ e.state = d.state /\ e.open = d.open
           /\ e.ssl = d.ssl /\ e.req = d.req /\ e.free = d.free /\ e.twice = d.twice
           /\ e.misled = d.misled /\ e.overtaken = d.overtaken
           /\ e.armed["udp"] = d.armed["udp"] /\ e.armed["server"] = d.armed["server"]
           /\ e.closing = d.closing /\ e.resolve = "err"
           /\ d.state = "CLIENT_RECV_REQUEST_DONE" /\ "client" \in d.open =>
                e.out = "note" /\ "write" \in e.armed["client"]
<1> DEFINE a == attach(d)
           b == IF d.state = "CLIENT_RECV_REQUEST_DONE" THEN enable(a, "client", "write") ELSE d
<1>1. /\ a \in Conn /\ a.state = d.state /\ a.open = d.open /\ a.ssl = d.ssl /\ a.req = d.req
      /\ a.free = d.free /\ a.twice = d.twice /\ a.armed = d.armed /\ a.closing = d.closing
      /\ a.misled = d.misled /\ a.overtaken = d.overtaken /\ a.out = "note"
  BY DEF attach, Conn, OutBuffer
<1> HIDE DEF a
<1>2. Sockets(a)
  BY <1>1 DEF Sockets
<1>3. /\ b \in Conn /\ Sockets(b) /\ b.state = d.state /\ b.open = d.open /\ b.ssl = d.ssl
      /\ b.req = d.req /\ b.free = d.free /\ b.twice = d.twice
      /\ b.misled = d.misled /\ b.overtaken = d.overtaken /\ b.closing = d.closing
      /\ b.armed["udp"] = d.armed["udp"] /\ b.armed["server"] = d.armed["server"]
      /\ d.state = "CLIENT_RECV_REQUEST_DONE" /\ "client" \in d.open =>
           b.out = "note" /\ "write" \in b.armed["client"]
  <2> DEFINE g == enable(a, "client", "write")
  <2>1. /\ g \in Conn /\ Rest(a, g) /\ Sockets(g) /\ g.open = a.open /\ g.ssl = a.ssl
        /\ "client" \in a.open => "write" \in g.armed["client"]
        /\ g.armed["udp"] = a.armed["udp"] /\ g.armed["server"] = a.armed["server"]
        /\ g.closing = a.closing
    BY <1>1, <1>2, Enable, Events
  <2> HIDE DEF g
  <2>2. b = IF d.state = "CLIENT_RECV_REQUEST_DONE" THEN g ELSE d
    BY DEF g
  <2> HIDE DEF b
  <2>3. CASE d.state = "CLIENT_RECV_REQUEST_DONE"
    BY <1>1, <2>1, <2>2, <2>3 DEF Rest
  <2>4. CASE d.state # "CLIENT_RECV_REQUEST_DONE"
    BY <2>2, <2>4
  <2> QED  BY <2>3, <2>4
<1>4. e = [b EXCEPT !.resolve = "err"]
  BY DEF notConnected, a
<1> HIDE DEF b
<1>5. /\ e \in Conn /\ e.state = b.state /\ e.open = b.open /\ e.ssl = b.ssl /\ e.req = b.req
      /\ e.free = b.free /\ e.twice = b.twice /\ e.armed = b.armed /\ e.closing = b.closing
      /\ e.misled = b.misled /\ e.overtaken = b.overtaken
      /\ e.out = b.out /\ e.resolve = "err"
  BY <1>3, <1>4 DEF Conn
<1>6. Sockets(e)
  BY <1>3, <1>5 DEF Sockets
<1> QED  BY <1>3, <1>5, <1>6

\* The object whose resolver is done, between the events: without a client it is one whose
\* query was overtaken, and a complete request that is not misled is not beside TLS and has
\* a client.
LEMMA Answering ==
    ASSUME ProxyInv, ~running, conn.armed["udp"] # {}
    PROVE  /\ ~conn.free /\ conn.state # "CLIENT_SEND_200OK_DONE"
           /\ "client" \notin conn.open => conn.overtaken
           /\ conn.state = "CLIENT_RECV_REQUEST_DONE" /\ ~conn.misled =>
                /\ "client" \in conn.open /\ "client" \notin conn.ssl
                /\ "server" \notin conn.open
<1> USE BetweenEvents
<1>1. ~conn.free
  BY DEF Sock
<1>2. conn.state # "CLIENT_SEND_200OK_DONE"
  BY DEF Settled
<1>3. "client" \notin conn.open => conn.overtaken
  BY DEF Querying
<1>4. ASSUME conn.state = "CLIENT_RECV_REQUEST_DONE", ~conn.misled
      PROVE  "client" \in conn.open /\ "client" \notin conn.ssl /\ "server" \notin conn.open
  <2>1. Awaited(conn)
    BY <1>4 DEF Settled
  <2>2. CASE conn.resolve = "process"
    BY <2>1, <2>2 DEF Awaited, Querying
  <2>3. CASE conn.resolve # "process"
    BY <2>1, <2>3 DEF Awaited, Sockets, Sock
  <2> QED  BY <2>2, <2>3
<1> QED  BY <1>1, <1>2, <1>3, <1>4

\* The resolver failed: the request has its notification as soon as it is complete.
LEMMA FailedWaits ==
    ASSUME NEW e, e \in Conn, Sockets(e), Messages(e), ~e.free, ~e.twice, e.ssl \subseteq e.open,
           e.state # "CLIENT_SEND_200OK_DONE", "client" \notin e.open => e.overtaken,
           e.armed["udp"] = {}, e.resolve = "err",
           e.state = "CLIENT_RECV_REQUEST_DONE" /\ ~e.misled =>
             /\ e.out = "note" /\ "write" \in e.armed["client"]
             /\ "client" \notin e.ssl /\ "server" \notin e.open
    PROVE  Waiting(e)
<1>1. Held(e) /\ Querying(e)
  BY DEF Held, Querying
<1> QED  BY <1>1 DEF Waiting, Settled, Awaited

LEMMA resolverFailsKeeps ==
    ASSUME ProxyInv, ~running, conn.armed["udp"] # {}, resolverFails(conn)
    PROVE  ProxyInv'
<1> USE BetweenEvents
<1> DEFINE d == notConnected(conn)
           e == tcpClose(d, "udp")
<1>1. /\ ~conn.free /\ conn.state # "CLIENT_SEND_200OK_DONE"
      /\ "client" \notin conn.open => conn.overtaken
      /\ conn.state = "CLIENT_RECV_REQUEST_DONE" /\ ~conn.misled =>
           /\ "client" \in conn.open /\ "client" \notin conn.ssl
           /\ "server" \notin conn.open
  BY Answering
<1>2. /\ d \in Conn /\ Sockets(d) /\ d.state = conn.state /\ d.open = conn.open
      /\ d.ssl = conn.ssl /\ d.req = conn.req /\ d.free = conn.free /\ d.twice = conn.twice
      /\ d.misled = conn.misled /\ d.overtaken = conn.overtaken /\ d.resolve = "err"
      /\ conn.state = "CLIENT_RECV_REQUEST_DONE" /\ "client" \in conn.open =>
           d.out = "note" /\ "write" \in d.armed["client"]
  BY NotConnected
<1> HIDE DEF d
<1>3. /\ e \in Conn /\ Sockets(e) /\ Rest(d, e) /\ e.open = d.open \ {"udp"}
      /\ e.ssl = d.ssl \ {"udp"} /\ e.armed["udp"] = {} /\ e.armed["client"] = d.armed["client"]
  <2>1. "udp" \in Sock /\ "client" \in Sock \ {"udp"}
    BY DEF Sock
  <2>2. Sockets(e)
    BY <1>2, <2>1, SocketsClosed
  <2>3. /\ e \in Conn /\ Rest(d, e) /\ e.open = d.open \ {"udp"}
        /\ e.ssl = d.ssl \ {"udp"} /\ e.armed["udp"] = {}
        /\ \A t \in Sock \ {"udp"} : e.armed[t] = d.armed[t]
    BY <1>2, <2>1, TcpClose
  <2> QED  BY <2>1, <2>2, <2>3
<1>4. conn' = e /\ UNCHANGED <<running, parsing, nested, silent>>
  BY DEF resolverFails, Done, d
<1> HIDE DEF e
<1>5. Messages(e)
  BY <1>2, <1>3 DEF Messages, Rest
<1>6. /\ ~e.free /\ ~e.twice /\ e.ssl \subseteq e.open /\ e.resolve = "err"
      /\ e.state # "CLIENT_SEND_200OK_DONE" /\ ("client" \notin e.open => e.overtaken)
      /\ e.state = "CLIENT_RECV_REQUEST_DONE" /\ ~e.misled =>
           /\ e.out = "note" /\ "write" \in e.armed["client"]
           /\ "client" \notin e.ssl /\ "server" \notin e.open
  BY <1>1, <1>2, <1>3 DEF Rest
<1>7. Waiting(e)
  BY <1>3, <1>5, <1>6, FailedWaits
<1> QED  BY <1>4, <1>7, DoneKeeps

LEMMA recvAnswerKeeps ==
    ASSUME ProxyInv, recvAnswer
    PROVE  ProxyInv'
<1>1. ~running /\ conn.armed["udp"] # {}
  BY DEF recvAnswer, Idle
<1>b. /\ conn \in Conn /\ Sockets(conn) /\ Messages(conn) /\ ~conn.twice
      /\ conn.ssl \subseteq conn.open /\ parsing = FALSE
  BY <1>1, BetweenEvents DEF ProxyInv
<1> DEFINE c == tcpClose(conn, "udp")
<1>2. resolverFails(conn) \/ serverConnectHandle(c)
  BY DEF recvAnswer
<1>3. CASE resolverFails(conn)
  BY <1>1, <1>3, resolverFailsKeeps
<1>4. CASE serverConnectHandle(c)
  <2>1. /\ ~conn.free /\ conn.state # "CLIENT_SEND_200OK_DONE"
        /\ "client" \notin conn.open => conn.overtaken
        /\ conn.state = "CLIENT_RECV_REQUEST_DONE" /\ ~conn.misled =>
             /\ "client" \in conn.open /\ "client" \notin conn.ssl
             /\ "server" \notin conn.open
    BY <1>1, Answering
  <2>2. /\ c \in Conn /\ Sockets(c) /\ Rest(conn, c) /\ c.open = conn.open \ {"udp"}
        /\ c.ssl = conn.ssl \ {"udp"} /\ c.armed["udp"] = {}
    BY <1>b, TcpClose, SocketsClosed DEF Sock
  <2>3. PICK o \in connectServer(c) :
          IF o.ret < 0 THEN Done(notConnected(o.conn)) ELSE connected(o.conn)
    BY <1>4 DEF serverConnectHandle
  <2>4. "server" \in c.ssl => "server" \in c.open
    BY <1>b, <2>2
  <2> HIDE DEF c
  <2> DEFINE m == o.conn
  <2>5. /\ m \in Conn /\ Sockets(m) /\ Rest(c, m)
        /\ m.armed["udp"] = c.armed["udp"]
        /\ "client" \in m.open <=> "client" \in c.open
        /\ "client" \in m.ssl <=> "client" \in c.ssl
        /\ "server" \in m.ssl => "server" \in m.open
        /\ o.ret < 0 /\ "server" \notin c.open => "server" \notin m.open
    BY <2>2, <2>4, ConnectServer
  <2>6. IF o.ret < 0 THEN Done(notConnected(m)) ELSE connected(m)
    BY <2>3
  <2> HIDE DEF m
  <2>7. m.armed["udp"] = {} /\ m.ssl \subseteq m.open
    BY <1>b, <2>2, <2>5 DEF Sockets, Conn, Sock
  <2>8. /\ Messages(m) /\ ~m.free /\ ~m.twice /\ m.state = conn.state
        /\ m.misled = conn.misled /\ m.overtaken = conn.overtaken
    BY <1>b, <2>1, <2>2, <2>5 DEF Messages, Rest
  <2>9. "client" \notin m.open => m.overtaken
    BY <2>1, <2>2, <2>5, <2>8
  <2>11. CASE Done(notConnected(m)) /\ o.ret < 0
    <3> DEFINE e == notConnected(m)
    <3>1. /\ e \in Conn /\ Sockets(e) /\ e.state = m.state /\ e.open = m.open
          /\ e.ssl = m.ssl /\ e.req = m.req /\ e.free = m.free /\ e.twice = m.twice
          /\ e.misled = m.misled /\ e.overtaken = m.overtaken
          /\ e.armed["udp"] = m.armed["udp"] /\ e.resolve = "err"
          /\ m.state = "CLIENT_RECV_REQUEST_DONE" /\ "client" \in m.open =>
               e.out = "note" /\ "write" \in e.armed["client"]
      BY <2>5, NotConnected
    <3>2. conn' = e /\ UNCHANGED <<running, parsing, nested, silent>>
      BY <2>11 DEF Done
    <3> HIDE DEF e
    <3>3. Messages(e)
      BY <2>8, <3>1 DEF Messages
    <3>4. e.state = "CLIENT_RECV_REQUEST_DONE" /\ ~e.misled =>
            /\ e.out = "note" /\ "write" \in e.armed["client"]
            /\ "client" \notin e.ssl /\ "server" \notin e.open
      BY <2>1, <2>2, <2>5, <2>8, <2>11, <3>1
    <3>5. Waiting(e)
      BY <2>1, <2>7, <2>8, <2>9, <3>1, <3>3, <3>4, FailedWaits
    <3> QED  BY <1>1, <3>2, <3>5, DoneKeeps
  <2>12. CASE connected(m) /\ m.state = "CLIENT_RECV_REQUEST_DONE"
    <3>1. Busy(m, TRUE)
      BY <2>5, <2>7, <2>8, <2>9, <2>12 DEF Busy, Fresh
    <3>2. conn' = m /\ running' = TRUE /\ nested' = TRUE /\ UNCHANGED <<parsing, silent>>
      BY <2>12 DEF connected
    <3> QED  BY <1>b, <3>1, <3>2 DEF ProxyInv
  <2>13. CASE connected(m) /\ m.state # "CLIENT_RECV_REQUEST_DONE"
    <3> DEFINE e == [m EXCEPT !.resolve = "uninit"]
    <3>1. /\ e \in Conn /\ e.state = m.state /\ e.open = m.open /\ e.ssl = m.ssl
          /\ e.req = m.req /\ e.free = m.free /\ e.twice = m.twice /\ e.armed = m.armed
          /\ e.closing = m.closing /\ e.overtaken = m.overtaken /\ e.resolve = "uninit"
      BY <2>5 DEF Conn
    <3>2. conn' = e /\ UNCHANGED <<running, parsing, nested, silent>>
      BY <2>13 DEF connected, Done
    <3> HIDE DEF e
    <3>3. Sockets(e) /\ Messages(e) /\ Held(e) /\ Querying(e)
      BY <2>5, <2>7, <2>8, <2>9, <3>1 DEF Sockets, Messages, Held, Querying
    <3>4. Waiting(e)
      BY <2>1, <2>7, <2>8, <2>13, <3>1, <3>3 DEF Waiting, Settled
    <3> QED  BY <1>1, <3>2, <3>4, DoneKeeps
  <2> QED  BY <2>6, <2>11, <2>12, <2>13
<1> QED  BY <1>2, <1>3, <1>4

-----------------------------------------------------------------------------
LEMMA ProxyInvInit == ProxyInit => ProxyInv
<1> SUFFICES ASSUME ProxyInit  PROVE ProxyInv
  OBVIOUS
<1>1. /\ conn = NewConn /\ ~running /\ running \in BOOLEAN /\ nested = FALSE
      /\ parsing = FALSE /\ silent \in BOOLEAN
  BY DEF ProxyInit
<1>2. NewConn \in Conn
  BY DEF NewConn, Conn, ProxyState, OutBuffer, reset, Parser, ParseState
<1>3. Clean(NewConn)
  BY <1>2 DEF Clean, NewConn, Conn
<1>4. Waiting(conn)
  BY <1>1, <1>2, <1>3, CleanWaits DEF Waiting
<1> QED  BY <1>1, <1>4 DEF ProxyInv

LEMMA ProxyInvNext == ProxyInv /\ [ProxyNext]_proxyVars => ProxyInv'
<1> SUFFICES ASSUME ProxyInv, [ProxyNext]_proxyVars  PROVE ProxyInv'
  OBVIOUS
<1>1. CASE RWEventHandle
  BY <1>1, RWEventHandleKeeps
<1>2. CASE PeerEvent
  <2>1. CASE resolverError
    BY <2>1, resolverFailsKeeps DEF resolverError, Idle
  <2>2. ASSUME NEW s \in {"client", "server"}, errorHandle(s)  PROVE ProxyInv'
    BY <2>2, forceCloseKeeps DEF errorHandle, Idle
  <2> QED  BY <1>2, <2>1, <2>2, acceptKeeps, sendQueryKeeps, recvAnswerKeeps, rwEventKeeps
           DEF PeerEvent
<1>3. CASE Timeout
  <2>1. CASE resolverTimeout
    BY <2>1, resolverFailsKeeps DEF resolverTimeout, resolverError, Idle
  <2>2. ASSUME NEW s \in {"client", "server"}, timeoutHandle(s)  PROVE ProxyInv'
    BY <2>2, forceCloseKeeps DEF timeoutHandle, Idle
  <2> QED  BY <1>3, <2>1, <2>2 DEF Timeout
<1>4. CASE goSilent
  BY <1>4 DEF goSilent, ProxyInv
<1>5. CASE UNCHANGED proxyVars
  BY <1>5 DEF proxyVars, ProxyInv
<1> QED  BY <1>1, <1>2, <1>3, <1>4, <1>5 DEF ProxyNext

LEMMA ProxyInvAlways == Proxy => []ProxyInv
BY ProxyInvInit, ProxyInvNext, PTL DEF Proxy

\* The object's fields are what the code can put there; a closed socket has no event enabled
\* and no handler of closeHandle left, and no TLS context once the callback is over.
THEOREM ProxyTypeCorrect == Proxy => []ProxyTypeOK
<1>1. ASSUME ProxyInv  PROVE ProxyTypeOK
  <2>1. conn \in Conn /\ Sockets(conn) /\ (Idle => conn.ssl \subseteq conn.open)
    BY <1>1, BetweenEvents DEF Idle, ProxyInv, Busy, Parsing
  <2>2. \A h \in conn.closing : h[1] \in conn.open
    <3> SUFFICES ASSUME NEW h \in conn.closing  PROVE h[1] \in conn.open
      OBVIOUS
    <3>1. PICK s \in Sock, e \in Event : h = <<s, e>>
      BY <2>1 DEF Conn
    <3> QED  BY <2>1, <3>1 DEF Sockets
  <2> QED  BY <2>1, <2>2 DEF ProxyTypeOK, Conn, Sockets
<1> QED  BY <1>1, ProxyInvAlways, PTL

\* recycle() is called once for an object in use, by whichever callback closes its last
\* socket, and leaves nothing of the old client, server or query in it.
THEOREM ProxyRecycledClean == Proxy => []RecycledClean
<1>1. ASSUME ProxyInv  PROVE RecycledClean
  BY <1>1, BetweenEvents DEF RecycledClean, Clean, ProxyInv, Busy, Parsing
<1> QED  BY <1>1, ProxyInvAlways, PTL

\* An object out of the queue keeps a socket whose events or timeout bring it back, unless a
\* second header of one read overtook the query of the first.
THEOREM ProxyNeverLeaked == Proxy => []NeverLeaked
<1>1. ASSUME ProxyInv  PROVE NeverLeaked
  BY <1>1, BetweenEvents DEF NeverLeaked, Idle, Held
<1> QED  BY <1>1, ProxyInvAlways, PTL

\* Between callbacks DNS_ON_PROCESS means that a query is under way for a client without a
\* server, however many headers a read held; and a query under way has its callback, and
\* DNS_ON_PROCESS, unless a later header of the same read overtook it.
THEOREM ProxyResolverInStep == Proxy => []ResolverInStep
<1>1. ASSUME ProxyInv  PROVE ResolverInStep
  <2> SUFFICES ASSUME ~running  PROVE ResolverInStep
    BY DEF ResolverInStep, Idle
  <2>1. Querying(conn)
    BY <1>1, BetweenEvents
  <2> QED  BY <2>1 DEF Querying, ResolverInStep
<1> QED  BY <1>1, ProxyInvAlways, PTL

\* A complete request without a server waits for a query under way, or has its notification
\* and the write event; only one completed inside the resolver's callback is left waiting.
THEOREM ProxyRequestAwaited == Proxy => []RequestAwaited
<1>1. ASSUME ProxyInv  PROVE RequestAwaited
  <2> SUFFICES ASSUME ~running, conn.state = "CLIENT_RECV_REQUEST_DONE", ~conn.misled
               PROVE  \/ conn.resolve = "process" /\ "server" \notin conn.open
                      \/ conn.resolve = "err" /\ conn.out = "note"
                         /\ "write" \in conn.armed["client"]
    BY DEF RequestAwaited, Idle
  <2>1. Awaited(conn)
    BY <1>1, BetweenEvents DEF Settled
  <2> QED  BY <2>1 DEF Awaited
<1> QED  BY <1>1, ProxyInvAlways, PTL

=============================================================================
