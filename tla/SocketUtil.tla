----------------------------- MODULE SocketUtil -----------------------------
(***************************************************************************)
(* net/SocketUtil.cpp: making a socket that listens, accepts or connects.  *)
(* A Socket is [exist, stage]: it has a descriptor, and its stage_.  An    *)
(* operation yields the set of its outcomes [ret, sock]; a system call may *)
(* fail.                                                                   *)
(***************************************************************************)
EXTENDS Integers

NewSocket == [exist |-> FALSE, stage |-> "UINIT"]
outcome(r, k) == [ret |-> r, sock |-> k]

\* PackSockAddr: 0, or -1 for an address or port that is none.
PackSockAddr == {0, -1}
\* setsockopt, on a socket that exists.
SetAddrReuseable(k) == IF k.exist THEN BOOLEAN ELSE {FALSE}
SetPortReuseable(k) == IF k.exist THEN BOOLEAN ELSE {FALSE}

InitSocket(k) == {outcome(0, [k EXCEPT !.exist = TRUE]), outcome(-1, k)}
Bind(k) ==
    {outcome(-1, k)} \cup IF k.exist /\ 0 \in PackSockAddr
                          THEN {outcome(0, [k EXCEPT !.stage = "BIND"])} ELSE {}
Listen(k) ==
    {outcome(-1, k)} \cup IF k.stage = "BIND" THEN {outcome(0, [k EXCEPT !.stage = "LISTEN"])}
                          ELSE {}
\* Accept: 0, 1 if there is nobody to accept, -1 on any other error.
Accept(k) == {outcome(0, [exist |-> TRUE, stage |-> "ACCEPT"]), outcome(1, k), outcome(-1, k)}
Close(k) == IF k.exist THEN [exist |-> FALSE, stage |-> "CLOSE"] ELSE k
\* Connect: 0, 1 while it is in progress, -1; an error of connect() closes the socket, one
\* before it leaves the socket as it was.
Connect(k) ==
    {outcome(-1, k) : p \in PackSockAddr \ {0}}
    \cup {outcome(-1, Close([k EXCEPT !.exist = TRUE]))}
    \cup {outcome(r, [exist |-> TRUE, stage |-> "CONNECT"]) : r \in {0, 1}}

\* CreateListenSocket: each call's failure has its code, and leaves the socket as far as it
\* was made.
CreateListenSocket(k) ==
    LET made == {o.sock : o \in {p \in InitSocket(k) : p.ret = 0}}
        bound == UNION {{o.sock : o \in {p \in Bind(m) : p.ret = 0}} : m \in made}
    IN  {o \in InitSocket(k) : o.ret # 0}
        \cup {outcome(1, m) : m \in {n \in made : FALSE \in SetAddrReuseable(n)}}
        \cup {outcome(2, m) : m \in {n \in made : FALSE \in SetPortReuseable(n)}}
        \cup {outcome(4, o.sock) : o \in {p \in UNION {Bind(m) : m \in made} : p.ret # 0}}
        \cup UNION {{outcome(IF o.ret = 0 THEN 0 ELSE 5, o.sock) : o \in Listen(b)} : b \in bound}
\* CreateUDPConnect: Connect, then the options; a failure of those leaves the socket open.
CreateUDPConnect(k) ==
    UNION {{o} \cup IF o.ret >= 0 /\ FALSE \in SetAddrReuseable(o.sock) \cup SetPortReuseable(o.sock)
                    THEN {outcome(-1, o.sock)} ELSE {}
           : o \in Connect(k)}
=============================================================================
