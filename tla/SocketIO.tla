------------------------------ MODULE SocketIO ------------------------------
(***************************************************************************)
(* What one call on a socket can return, layer by layer: ssl/SSLContext,   *)
(* net/SocketUtil, net/Buffer, net/Socket.  A result is a record           *)
(*    ret    what the function returns                                     *)
(*    want   the event a call that stopped waits for: epoll's, or the one  *)
(*           OpenSSL names; "none" if none                                 *)
(*    ssl    whether the socket has a TLS context afterwards               *)
(* and, of a whole buffer, whether bytes were moved (bytes) and whether    *)
(* none are left (done).                                                   *)
(***************************************************************************)
EXTENDS Naturals

Event == {"read", "write"}

\* What is in the global SSL_CTX of either role after its initialisation: nothing if it could
\* not be made (or its CA path not be loaded), and if a later call fails, one that is only
\* partly configured, which stays.
initClientContext == {"none", "partial", "ready"}
initServerContext == {"none", "partial", "ready"}
\* getClientSSLCTX and getServerSSLCTX: no initialisation without the paths it needs.
getClientSSLCTX == {"none"} \cup initClientContext
getServerSSLCTX == {"none"} \cup initServerContext
\* SSLContext::init: whether SSL_new gave an SSL; bindSocket needs one.
sctxInit(role) == {g # "none" : g \in IF role = "client" THEN getClientSSLCTX ELSE getServerSSLCTX}
bindSocket(made) == IF made THEN {"OK", "ERR"} ELSE {"ERR"}
\* Socket::prepareSSLContext: towards a server the client's role, and the other way round.
prepareSSLContext(s) ==
    UNION {bindSocket(made) : made \in sctxInit(IF s = "server" THEN "client" ELSE "server")}

\* SSLContext::recv and send: an error destroys the context.
sctxIO == {[ret |-> "OK", want |-> "none", ssl |-> TRUE],
           [ret |-> "ERROR", want |-> "none", ssl |-> FALSE]}
          \cup {[ret |-> "RECALL", want |-> e, ssl |-> TRUE] : e \in Event}
sctxRecv == sctxIO
sctxSend == sctxIO
\* SSLContext::accept and connect.
sctxAccept == sctxIO
sctxConnect == sctxIO
\* SSLContext::close.
sctxClose == sctxIO

\* SocketUtil::Recv.
Recv(ssl) == IF ssl THEN sctxRecv
             ELSE {[ret |-> "OK", want |-> "none", ssl |-> FALSE],
                   [ret |-> "RECALL", want |-> "read", ssl |-> FALSE],
                   [ret |-> "ERROR", want |-> "none", ssl |-> FALSE]}
\* SocketUtil::Send: without TLS every error counts as EAGAIN.
Send(ssl) == IF ssl THEN sctxSend
             ELSE {[ret |-> "OK", want |-> "none", ssl |-> FALSE],
                   [ret |-> "RECALL", want |-> "write", ssl |-> FALSE]}

\* Buffer::recvFromSocket: Recv until it does not return OK.
recvFromSocket(ssl) ==
    {[bytes |-> b, ret |-> IF r.ret = "ERROR" THEN "ERROR" ELSE "OK",
      want |-> r.want, ssl |-> r.ssl] : b \in BOOLEAN, r \in {q \in Recv(ssl) : q.ret # "OK"}}
\* Buffer::sendToSocket: Send until the buffer is empty or it does not return OK; what it
\* returned is lost in the comparison, so the caller sees no error.
sendToSocket(ssl, unsent) ==
    {[done |-> TRUE, ret |-> "OK", want |-> "none", ssl |-> ssl]}
    \cup IF unsent
         THEN {[done |-> FALSE, ret |-> "OK", want |-> r.want, ssl |-> r.ssl]
               : r \in {q \in Send(ssl) : q.ret # "OK"}}
         ELSE {}

\* Socket::recvNIO and sendNIO: nothing is tried on a socket that was closed.
Closed == [bytes |-> FALSE, done |-> FALSE, ret |-> "ERROR", want |-> "none", ssl |-> FALSE]
recvNIO(exist, ssl) == IF exist THEN recvFromSocket(ssl) ELSE {Closed}
sendNIO(exist, ssl, unsent) == IF exist THEN sendToSocket(ssl, unsent) ELSE {Closed}
=============================================================================
