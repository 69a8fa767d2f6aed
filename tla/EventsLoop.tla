----------------------------- MODULE EventsLoop -----------------------------
(***************************************************************************)
(* The reactor of tigerso: net/EventsLoop.cpp (epoll), net/Channel.cpp,    *)
(* net/TimeWheelEvent.cpp (idle timeouts) and the part of net/Socket.cpp   *)
(* that registers, arms and closes a socket.                               *)
(*                                                                         *)
(* The loop is one thread.  What makes it hard is that callbacks run in    *)
(* the middle of a batch of epoll events and may register and close any    *)
(* socket: Channel objects are heap memory whose address the batch, the    *)
(* kernel, the time wheel and the sockets all hold, and both addresses and *)
(* file descriptors are reused.  A callback is modelled by what it may     *)
(* call, in any number and order, before it returns a code.                *)
(***************************************************************************)
EXTENDS Naturals, FiniteSets

CONSTANTS
    Client,      \* Socket objects of accepted or outgoing connections
    Listener,    \* Socket objects that listen
    TimerFd,     \* the Socket object TimeWheelEvent::_timerfd
    Chan,        \* addresses `new Channel` can return
    Fd,          \* file descriptors the kernel can return
    NodeNum,     \* TimeWheelEvent::_nodeNum, slots of the time wheel
    Arm,         \* the interest sets callbacks arm (a bound on the inputs)
    Codes,       \* the codes callbacks return (a bound on the inputs)
    MaxBatch,    \* channelNum_, most events one epoll_wait reports
    NoChan,      \* nullptr as a Channel*
    NoSock,      \* Channel::sock_ of memory that holds no Channel
    NoFd         \* the descriptor -1

Sock == Client \cup Listener \cup {TimerFd}

ASSUME EventsLoopAssumption ==
    /\ NodeNum \in Nat /\ NodeNum > 1
    /\ MaxBatch \in Nat \ {0}
    /\ TimerFd \notin Client \cup Listener
    /\ Client \cap Listener = {}
    /\ Fd \subseteq Nat
    /\ Arm \subseteq SUBSET {"IN", "OUT"}
    /\ Codes \subseteq {"CONTINUE", "BREAK", "DROPWAITED"}
    /\ NoChan \notin Chan /\ NoSock \notin Sock /\ NoFd \notin Fd

VARIABLES
    sockfd,       \* Socket::sockfd_
    channelptr,   \* Socket::channelptr
    owner,        \* Channel::sock_, NoSock where the address is free
    chfd,         \* Channel::sockfd, NoFd once unregistered
    events,       \* Channel::events.readFlag / writeFlag as a set
    epoll,        \* the kernel's interest list: descriptor -> data.ptr
    needDeleted,  \* needDeletedChannelSet_
    wheel,        \* ChannelSet of every TimeNode
    current,      \* _current
    idle,         \* history: clock jumps since the channel was last updated
    phase,        \* where the loop thread is
    ready,        \* entries of epevents_ not yet looked at
    mask,         \* the interest those entries were reported for
    cnptr,        \* the Channel* of the entry being dispatched
    evs,          \* stages of that entry still to run
    tmo           \* the Channel* whose timeout callback runs

objVars == <<sockfd, channelptr, owner, chfd, events, epoll, needDeleted>>
wheelVars == <<wheel, current, idle>>
ctlVars == <<phase, ready, mask, cnptr, evs, tmo>>
loopVars == <<sockfd, channelptr, owner, chfd, events, epoll, needDeleted,
              wheel, current, idle, phase, ready, mask, cnptr, evs, tmo>>

IO == {"IN", "OUT"}
Stages == {"RDHUP", "HUP", "ERR"} \cup IO
Slots == 0 .. (NodeNum - 1)
Phases == {"init", "wait", "batch", "dispatch", "callback", "clear",
           "timeout", "stopped"}

\* The order in which waitChannel looks at the stages of one entry.  (before_cb and
\* after_cb are never set by the program.)
Rank(e) == CASE e = "RDHUP" -> 1 [] e = "HUP" -> 2 [] e = "ERR" -> 3
             [] e = "IN" -> 4 [] OTHER -> 5
FirstStage(E) == CHOOSE e \in E : \A x \in E : Rank(e) <= Rank(x)

\* A Channel object lives at address c (new has returned it, delete has not run).
Allocated(c) == owner[c] # NoSock
\* The macro validChannel: cnptr && cnptr->sockfd > 0.
validChannel(c) == chfd[c] # NoFd
\* Descriptors accept, socket and timerfd_create may return: the kernel takes the
\* lowest free one.
FreeFd == {f \in Fd : \A s \in Sock : sockfd[s] # f}
LowestFd(f) == f \in FreeFd /\ \A g \in FreeFd : f <= g
FreeChan == {c \in Chan : ~Allocated(c)}

-----------------------------------------------------------------------------
(* The time wheel.  The operators give the next value of wheel and idle.    *)

\* isSkipChannel: listeners and the timer itself never time out.
isSkipChannel(c) == ~validChannel(c) \/ owner[c] \notin Client

\* Faulty variant: the circular list is not closed.
NextNodeOpen == current + 1
NextNode == IF current = NodeNum - 1 THEN 0 ELSE current + 1

\* eraseChannel: walk the circle from _current, stop at the first node that has it.
Distance(i) == IF i >= current THEN i - current ELSE i + NodeNum - current
eraseFrom(c) == {i \in Slots : /\ c \in wheel[i]
                               /\ \A j \in Slots : c \in wheel[j] => Distance(i) <= Distance(j)}
erased(c) == [i \in Slots |-> IF i \in eraseFrom(c) THEN wheel[i] \ {c} ELSE wheel[i]]

\* Faulty variants of timer_.updateChannel: the old node keeps the channel; the
\* channel goes into the node cleared next; the channel is erased but not inserted.
timerUpdateNoErase(c) ==
    IF isSkipChannel(c) THEN UNCHANGED <<wheel, idle>>
    ELSE /\ wheel' = [wheel EXCEPT ![current] = @ \cup {c}]
         /\ idle' = [idle EXCEPT ![c] = 0]
timerUpdateNextNode(c) ==
    IF isSkipChannel(c) THEN UNCHANGED <<wheel, idle>>
    ELSE /\ wheel' = [erased(c) EXCEPT ![NextNode] = @ \cup {c}]
         /\ idle' = [idle EXCEPT ![c] = 0]
timerUpdateNoInsert(c) ==
    IF isSkipChannel(c) THEN UNCHANGED <<wheel, idle>>
    ELSE wheel' = erased(c) /\ idle' = [idle EXCEPT ![c] = 0]

\* timer_.updateChannel(c): move c into the current node.
timerUpdate(c) ==
    IF isSkipChannel(c) THEN UNCHANGED <<wheel, idle>>
    ELSE /\ wheel' = [erased(c) EXCEPT ![current] = @ \cup {c}]
         /\ idle' = [idle EXCEPT ![c] = 0]

-----------------------------------------------------------------------------
(* What a callback may call.                                                *)

\* registerChannel for a socket that accept, connect or listen just opened:
\* a new Channel, its entry in the time wheel, EPOLL_CTL_ADD (or MOD on EEXIST)
\* and the interest the caller then enables.
registerChannel(s, f, c, E) ==
    /\ sockfd[s] = NoFd /\ LowestFd(f) /\ c \in FreeChan
    /\ sockfd' = [sockfd EXCEPT ![s] = f]
    /\ channelptr' = [channelptr EXCEPT ![s] = c]
    /\ owner' = [owner EXCEPT ![c] = s]
    /\ chfd' = [chfd EXCEPT ![c] = f]
    /\ events' = [events EXCEPT ![c] = E]
    /\ epoll' = [epoll EXCEPT ![f] = c]
    /\ IF s \in Client
       THEN /\ wheel' = [wheel EXCEPT ![current] = @ \cup {c}]
            /\ idle' = [idle EXCEPT ![c] = 0]
       ELSE UNCHANGED <<wheel, idle>>
    /\ UNCHANGED <<needDeleted, current>>

\* Faulty variants of tcpClose: unregisterChannel deletes the channel at once (the
\* line it has commented out); unregisterChannel leaves the channel's descriptor.
tcpCloseDeletesNow(s) ==
    LET c == channelptr[s] IN
    /\ sockfd[s] # NoFd
    /\ sockfd' = [sockfd EXCEPT ![s] = NoFd]
    /\ channelptr' = [channelptr EXCEPT ![s] = NoChan]
    /\ epoll' = [epoll EXCEPT ![chfd[c]] = NoChan]
    /\ chfd' = [chfd EXCEPT ![c] = NoFd]
    /\ events' = [events EXCEPT ![c] = {}]
    /\ owner' = [owner EXCEPT ![c] = NoSock]
    /\ wheel' = erased(c)
    /\ idle' = [idle EXCEPT ![c] = 0]
    /\ UNCHANGED <<needDeleted, current>>
tcpCloseKeepsFd(s) ==
    LET c == channelptr[s] IN
    /\ sockfd[s] # NoFd
    /\ sockfd' = [sockfd EXCEPT ![s] = NoFd]
    /\ channelptr' = [channelptr EXCEPT ![s] = NoChan]
    /\ epoll' = [epoll EXCEPT ![chfd[c]] = NoChan]
    /\ events' = [events EXCEPT ![c] = {}]
    /\ needDeleted' = needDeleted \cup {c}
    /\ wheel' = erased(c)
    /\ idle' = [idle EXCEPT ![c] = 0]
    /\ UNCHANGED <<chfd, owner, current>>

\* Channel::remove and unregisterChannel: EPOLL_CTL_DEL, invalidate, queue for
\* deletion, take out of the wheel.  Then Socket::tcpClose closes the descriptor.
tcpClose(s) ==
    LET c == channelptr[s] IN
    /\ sockfd[s] # NoFd
    /\ sockfd' = [sockfd EXCEPT ![s] = NoFd]
    /\ channelptr' = [channelptr EXCEPT ![s] = NoChan]
    /\ epoll' = [epoll EXCEPT ![chfd[c]] = NoChan]
    /\ chfd' = [chfd EXCEPT ![c] = NoFd]
    /\ events' = [events EXCEPT ![c] = {}]
    /\ needDeleted' = needDeleted \cup {c}
    /\ wheel' = erased(c)
    /\ idle' = [idle EXCEPT ![c] = 0]
    /\ UNCHANGED <<owner, current>>

\* Socket::enableEvent / disableEvent, each followed by Channel::update: guarded
\* by exist() and a channel; the kernel's interest becomes E.
setEvents(s, E) ==
    /\ sockfd[s] # NoFd /\ channelptr[s] # NoChan
    /\ events' = [events EXCEPT ![channelptr[s]] = E]
    /\ epoll' = [epoll EXCEPT ![chfd[channelptr[s]]] = channelptr[s]]
    /\ UNCHANGED <<sockfd, channelptr, owner, chfd, needDeleted>>
    /\ UNCHANGED wheelVars

\* cleanNeedDeletedChannels: delete every queued Channel.
cleanNeedDeletedChannels ==
    /\ owner' = [c \in Chan |-> IF c \in needDeleted THEN NoSock ELSE owner[c]]
    /\ needDeleted' = {}
    /\ UNCHANGED <<sockfd, channelptr, chfd, events, epoll>>
    /\ UNCHANGED wheelVars

-----------------------------------------------------------------------------
(* EventsLoop::loop and waitChannel.                                        *)

LoopInit ==
    /\ sockfd = [s \in Sock |-> NoFd]
    /\ channelptr = [s \in Sock |-> NoChan]
    /\ owner = [c \in Chan |-> NoSock]
    /\ chfd = [c \in Chan |-> NoFd]
    /\ events = [c \in Chan |-> {}]
    /\ epoll = [f \in Fd |-> NoChan]
    /\ needDeleted = {}
    /\ wheel = [i \in Slots |-> {}]
    /\ current = 0
    /\ idle = [c \in Chan |-> 0]
    /\ phase = "init"
    /\ ready = {}
    /\ mask = [c \in Chan |-> {}]
    /\ cnptr = NoChan
    /\ evs = {}
    /\ tmo = NoChan

\* Acceptor::addIntoFactory before the loop starts.
addIntoFactory(l, f, c) ==
    /\ phase = "init" /\ l \in Listener
    /\ registerChannel(l, f, c, {"IN"})
    /\ UNCHANGED ctlVars

\* loop(): register2EventsLoop creates the timer and arms it, then the loop runs.
loop(f, c) ==
    /\ phase = "init"
    /\ registerChannel(TimerFd, f, c, {"IN"})
    /\ phase' = "wait"
    /\ UNCHANGED <<ready, mask, cnptr, evs, tmo>>

\* epoll_wait returns the set R of entries.
epollWait(R) ==
    /\ phase = "wait"
    /\ R \subseteq {epoll[f] : f \in Fd} \ {NoChan} /\ Cardinality(R) <= MaxBatch
    /\ ready' = R
    /\ mask' = [c \in Chan |-> IF c \in R THEN events[c] ELSE {}]
    /\ phase' = "batch"
    /\ UNCHANGED <<cnptr, evs, tmo>> /\ UNCHANGED objVars /\ UNCHANGED wheelVars

\* epoll_wait returns -1 (EINTR included): loop_ = false and loop() returns.
epollError ==
    /\ phase = "wait"
    /\ phase' = "stopped"
    /\ UNCHANGED <<ready, mask, cnptr, evs, tmo>> /\ UNCHANGED objVars /\ UNCHANGED wheelVars

\* An entry whose channel an earlier callback of this batch closed is skipped.
skipEntry(c) ==
    /\ phase = "batch" /\ c \in ready
    /\ ~validChannel(c) \/ sockfd[owner[c]] = NoFd
    /\ ready' = ready \ {c}
    /\ mask' = [mask EXCEPT ![c] = {}]
    /\ UNCHANGED <<phase, cnptr, evs, tmo>> /\ UNCHANGED objVars /\ UNCHANGED wheelVars

\* The events an entry can carry: RDHUP, HUP and ERR always, IN and OUT if they
\* were of interest at epoll_wait.  The timerfd only ever becomes readable.
reportable(c) == IF owner[c] = TimerFd THEN mask[c] \cap {"IN"}
                 ELSE mask[c] \cup (Stages \ IO)

beginEntry(c, E) ==
    /\ phase = "batch" /\ c \in ready
    /\ validChannel(c) /\ sockfd[owner[c]] # NoFd
    /\ E \subseteq reportable(c)
    /\ ready' = ready \ {c}
    /\ mask' = [mask EXCEPT ![c] = {}]
    /\ cnptr' = c /\ evs' = E
    /\ phase' = "dispatch"
    /\ UNCHANGED tmo /\ UNCHANGED objVars /\ UNCHANGED wheelVars

\* The next stage's callback is called; every stage checks validChannel again.
callStage ==
    /\ phase = "dispatch" /\ evs # {} /\ validChannel(cnptr)
    /\ owner[cnptr] # TimerFd
    /\ evs' = evs \ {FirstStage(evs)}
    /\ phase' = "callback"
    /\ UNCHANGED <<ready, mask, cnptr, tmo>> /\ UNCHANGED objVars /\ UNCHANGED wheelVars

\* No stage left, or the channel was closed by a stage: timer_.updateChannel(cnptr).
endEntry ==
    /\ phase = "dispatch" /\ (evs = {} \/ ~validChannel(cnptr))
    /\ timerUpdate(cnptr)
    /\ cnptr' = NoChan /\ evs' = {}
    /\ phase' = "batch"
    /\ UNCHANGED <<ready, mask, tmo, current>> /\ UNCHANGED objVars

\* Faulty variant: the batch ends without cleanNeedDeletedChannels.
endBatchUncleaned ==
    /\ phase = "batch" /\ ready = {}
    /\ phase' = "wait"
    /\ UNCHANGED <<ready, mask, cnptr, evs, tmo>> /\ UNCHANGED objVars /\ UNCHANGED wheelVars
\* The batch is done: cleanNeedDeletedChannels and back to epoll_wait.
endBatch ==
    /\ phase = "batch" /\ ready = {}
    /\ cleanNeedDeletedChannels
    /\ phase' = "wait"
    /\ UNCHANGED <<ready, mask, cnptr, evs, tmo>>

-----------------------------------------------------------------------------
(* A callback returns (DECIDE_EVENTCALLBACK).                               *)

stay == UNCHANGED ctlVars

\* CONTINUE: on to the next stage of the same entry.
returnContinue ==
    /\ phase' = "dispatch"
    /\ UNCHANGED <<ready, mask, cnptr, evs, tmo>>

\* BREAK: timer_.updateChannel(cnptr), the entry's other stages are dropped.
returnBreak ==
    /\ phase = "callback"
    /\ timerUpdate(cnptr)
    /\ cnptr' = NoChan /\ evs' = {}
    /\ phase' = "batch"
    /\ UNCHANGED <<ready, mask, tmo, current>> /\ UNCHANGED objVars

\* DROPWAITED: delete the queued channels, drop the rest of the batch.
returnDropWaited ==
    /\ phase = "callback"
    /\ cleanNeedDeletedChannels
    /\ ready' = {} /\ mask' = [c \in Chan |-> {}]
    /\ cnptr' = NoChan /\ evs' = {}
    /\ phase' = "wait"
    /\ UNCHANGED tmo

-----------------------------------------------------------------------------
(* TimeWheelEvent::clockEventHandle, the read callback of the timer channel. *)

clockJump ==
    /\ phase = "dispatch" /\ "IN" \in evs /\ validChannel(cnptr)
    /\ owner[cnptr] = TimerFd
    /\ current' = NextNode
    /\ idle' = [c \in Chan |-> IF validChannel(c) /\ owner[c] \in Client /\ idle[c] <= NodeNum
                              THEN idle[c] + 1 ELSE idle[c]]
    /\ evs' = {}
    /\ phase' = "clear"
    /\ UNCHANGED <<wheel, ready, mask, cnptr, tmo>> /\ UNCHANGED objVars

\* clearCurrentTimeNode takes any channel of the node and calls its timeout callback.
beginTimeout(c) ==
    /\ phase = "clear" /\ c \in wheel[current]
    /\ tmo' = c
    /\ phase' = "timeout"
    /\ UNCHANGED <<ready, mask, cnptr, evs>> /\ UNCHANGED objVars /\ UNCHANGED wheelVars

\* Every timeout callback of the repository ends by closing its own socket
\* (HttpConnection::timeoutHandle, HttpProxyConnection::timeoutHandle,
\* DNSResolver::errorHandle, and sockptr->close() where none is set); then the
\* channel is erased from the node.
endTimeout ==
    /\ phase = "timeout"
    /\ tcpClose(owner[tmo])
    /\ tmo' = NoChan
    /\ phase' = "clear"
    /\ UNCHANGED <<ready, mask, cnptr, evs>>

endClear ==
    /\ phase = "clear" /\ wheel[current] = {}
    /\ phase' = "dispatch"
    /\ UNCHANGED <<ready, mask, cnptr, evs, tmo>> /\ UNCHANGED objVars /\ UNCHANGED wheelVars

-----------------------------------------------------------------------------
(* The calls of an arbitrary callback.                                      *)

UserSock == Client \cup Listener

callRegister(s, f, c, E) ==
    /\ phase = "callback"
    /\ registerChannel(s, f, c, E)
    /\ stay

\* A timeout callback may close other sockets before its own (a proxy connection
\* closes both ends) but registers none.
callClose(s) ==
    /\ phase \in {"callback", "timeout"}
    /\ phase = "timeout" => s # owner[tmo]
    /\ tcpClose(s)
    /\ stay

callSetEvents(s, E) ==
    /\ phase \in {"callback", "timeout"}
    /\ setEvents(s, E)
    /\ stay

callReturnContinue ==
    /\ phase = "callback"
    /\ returnContinue
    /\ UNCHANGED objVars /\ UNCHANGED wheelVars

Callback ==
    \/ \E s \in UserSock, f \in Fd, c \in Chan, E \in Arm : callRegister(s, f, c, E)
    \/ \E s \in UserSock : callClose(s)
    \/ \E s \in UserSock, E \in Arm : callSetEvents(s, E)

Return ==
    \/ "CONTINUE" \in Codes /\ callReturnContinue
    \/ "BREAK" \in Codes /\ returnBreak
    \/ "DROPWAITED" \in Codes /\ returnDropWaited

Timer ==
    \/ clockJump
    \/ \E c \in Chan : beginTimeout(c)
    \/ endTimeout
    \/ endClear

Dispatch ==
    \/ \E c \in Chan : skipEntry(c)
    \/ \E c \in Chan, E \in SUBSET Stages : E # {} /\ beginEntry(c, E)
    \/ callStage
    \/ endEntry
    \/ endBatch

Wait ==
    \/ \E l \in Listener, f \in Fd, c \in Chan : addIntoFactory(l, f, c)
    \/ \E f \in Fd, c \in Chan : loop(f, c)
    \/ \E R \in SUBSET Chan : epollWait(R)
    \/ epollError

LoopNext == Wait \/ Dispatch \/ Return \/ Timer \/ Callback

Loop == LoopInit /\ [][LoopNext]_loopVars

-----------------------------------------------------------------------------
(* Properties.                                                              *)

TypeOK ==
    /\ sockfd \in [Sock -> Fd \cup {NoFd}]
    /\ channelptr \in [Sock -> Chan \cup {NoChan}]
    /\ owner \in [Chan -> Sock \cup {NoSock}]
    /\ chfd \in [Chan -> Fd \cup {NoFd}]
    /\ events \in [Chan -> SUBSET IO]
    /\ epoll \in [Fd -> Chan \cup {NoChan}]
    /\ needDeleted \in SUBSET Chan
    /\ wheel \in [Slots -> SUBSET Chan]
    /\ current \in Slots
    /\ idle \in [Chan -> 0 .. NodeNum + 1]
    /\ phase \in Phases
    /\ ready \in SUBSET Chan
    /\ mask \in [Chan -> SUBSET IO]
    /\ cnptr \in Chan \cup {NoChan}
    /\ evs \in SUBSET Stages
    /\ tmo \in Chan \cup {NoChan}

\* Memory safety of deferred deletion: no Channel* that the kernel, a socket, the
\* time wheel, the unprocessed part of epevents_, the entry in hand or the timeout
\* in hand holds has been deleted.  unregisterChannel only queues a channel;
\* cleanNeedDeletedChannels runs when the batch is over or dropped.
NoDanglingChannel ==
    /\ \A s \in Sock : channelptr[s] # NoChan => Allocated(channelptr[s])
    /\ \A f \in Fd : epoll[f] # NoChan => Allocated(epoll[f])
    /\ \A i \in Slots : \A c \in wheel[i] : Allocated(c)
    /\ \A c \in ready : Allocated(c)
    /\ cnptr # NoChan => Allocated(cnptr)
    /\ tmo # NoChan => Allocated(tmo)

\* Events reach the socket they were reported for: a valid channel is the channel
\* of its socket, has its socket's descriptor and is what the kernel holds for that
\* descriptor, whatever descriptors and addresses were reused; and every open
\* socket has such a channel.
ChannelMatchesSocket ==
    /\ \A c \in Chan : validChannel(c) =>
          /\ Allocated(c)
          /\ channelptr[owner[c]] = c
          /\ sockfd[owner[c]] = chfd[c]
          /\ epoll[chfd[c]] = c
    /\ \A s \in Sock : sockfd[s] # NoFd =>
          channelptr[s] # NoChan /\ validChannel(channelptr[s]) /\ owner[channelptr[s]] = s

\* The time wheel holds each open connection exactly once and nothing else, so
\* none is forgotten and eraseChannel may stop at its first hit.
TimedOnce ==
    \A c \in Chan :
        Cardinality({i \in Slots : c \in wheel[i]}) =
            IF validChannel(c) /\ owner[c] \in Client THEN 1 ELSE 0

\* A connection is timed out after exactly NodeNum clock jumps without an event:
\* the node being cleared holds channels that idle that long, and between clock
\* events no connection has.
TimeoutAfterFullTurn ==
    \A c \in Chan : validChannel(c) =>
        IF phase \in {"clear", "timeout"} /\ c \in wheel[current]
        THEN idle[c] = NodeNum ELSE idle[c] < NodeNum

\* Whenever the loop waits, every Channel object still in memory is the channel of an open
\* socket: whatever batch, timeout or return code closed its socket, the object that
\* unregisterChannel queued was deleted before the next epoll_wait.
NoChannelLeak ==
    phase = "wait" => \A c \in Chan : Allocated(c) => validChannel(c)

=============================================================================
