# tigerso in TLA+

tigerso is an HTTP server and proxy in C++: an epoll reactor with idle timeouts, an
acceptor and a factory of connection objects, an HTTP(S) connection driven by
callbacks, a ring buffer for bodies, a thread pool, a DNS cache and resolver, and a
daemon that forks workers. This directory models the parts of it whose correctness
depends on the order in which things happen, checks them with TLC on small instances
and proves the safety properties with TLAPS for every instance.

`PROJECT.json` lists the components, the runs, the code lines behind each
definition, the hazards, the findings and the theorems.

## The system and what is hard about it

| Part | State | Operations | What makes it hard |
| --- | --- | --- | --- |
| `net/EventsLoop`, `net/Channel` | epoll interest list, `needDeletedChannelSet_`, the batch `epevents_` | register, unregister, update, `waitChannel`, deferred delete | callbacks close and open sockets in the middle of a batch that holds raw `Channel*`; descriptors and heap addresses come back |
| `net/TimeWheelEvent` | circle of nodes with channel sets, `_current` | update, erase, clock jump, clear a node | a channel must sit in exactly one node; timeouts call back into code that closes sockets |
| `net/Socket` | descriptor, channel, buffers, TLS context | enable/disable events, close, reset | `close` may need to be called again (TLS) |
| `net/Acceptor`, `net/ConnectionFactory` | listener, `connections_`, reuse queue `gc_` | accept until `EAGAIN`, create or reuse, recycle, re-listen | objects are reused: recycled twice or too early, two clients share one |
| `http/HttpConnection` | `state_`, handlers installed in the channel | `readHandle`, `writeHandle`, `closeHandle`, `timeoutHandle`, TLS handshake | any socket call may ask to be called again; `while(1)` over a switch |
| `thread/*` | mutex, two conditions, task deque, `running_` | `run`, `take`, `start`, `stop` | interleavings, spurious and lost wake-ups, stop with sleepers |
| `net/RingBuffer` | two pointers into a circular memory | write, read, fill from a file, drain to file or socket | full against empty, wrap-around, unsigned arithmetic |
| `dns/DNSCache`, `core/SysUtil` | shared hash table, process-shared mutex, private overflow map | query, update, flush of the private map | try-lock, several processes, a process that dies inside an update, bounded probing |
| `dns/DNSResolver` | one UDP exchange | query, answer, timeout | lost and late answers, a callback into a connection that may be gone |
| `http/HttpProxyConnection` | two sockets, state machine, resolver | as `HttpConnection`, twice | half of it closes first |
| `http/HttpBodyFile`, `core/File`, `net/Buffer` | offsets and a chunk state machine | partial sends and resumption | resume exactly where a `RECALL` stopped |
| `core/DaemonBase` | parent, children, pid file, flags set by signals | fork, restart, stop | coalesced signals, races on the pid |
| `ssl/CertCache`, `core/FileLock` | certificate files and locks | store, load | several processes, torn files |
| `http/HttpParser`, `http/HttpMessage` | parse state, labels, handles | parse in pieces, clear | a clear drops more than the message |
| messages' text, configuration, logging, hashes | text | conversions | not concurrent, not stateful |

The reactor is single threaded. `EventsLoop::waitChannel` takes a batch from
`epoll_wait`, and for each entry runs the stages RDHUP, HUP, ERR, IN, OUT by calling
the handlers the socket's owner installed in its `Channel`. A handler may register,
arm and close any socket and answers CONTINUE, BREAK or DROPWAITED. The acceptor, the
connections and the resolver are nothing but such handlers; the time wheel is one
too, on a timerfd, and calls the connections' timeout handlers. The factory hands out
connection objects and takes them back. `DaemonBase` forks workers, each with its own
loop; the workers share the DNS cache and the certificate cache and nothing else.

## Modules

| Module | Models |
| --- | --- |
| `EventsLoop` | `net/EventsLoop.cpp`, `net/Channel.cpp`, `net/TimeWheelEvent.cpp` and the registering, arming and closing part of `net/Socket.cpp` |
| `HttpServer` (extends `EventsLoop`) | `net/Acceptor.cpp`, `net/ConnectionFactory.cpp`, `net/Connection.cpp`, `http/HttpConnection.cpp` |
| `HttpProxyConnection` (extends the next four) | `http/HttpProxyConnection.cpp` and the life of `dns/DNSResolver.cpp` |
| `HttpParser` | `http/HttpParser.cpp`, the parsing part of `http/HttpMessage.cpp` |
| `SocketIO` | what a read, write, handshake or shutdown can return: `ssl/SSLContext.cpp`, `net/SocketUtil.cpp`, `net/Buffer.cpp`, `net/Socket.cpp` |
| `SocketUtil` | making sockets: bind, listen, accept, connect |
| `DNSMessage` | the query and the walk over the answer in `dns/DNSResolver.cpp` |
| `DNSCache` | `dns/DNSCache.cpp` with `ShmMutex` and `LockTryGuard` of `core/SysUtil.cpp` |
| `DaemonBase` | `core/DaemonBase.cpp` |
| `CertCache` | `ssl/CertCache.cpp`, `core/FileLock.cpp`, `SSLHelper::resignContextCert` |
| `HttpBodyFile` | `http/HttpBodyFile.cpp`, `core/File.cpp`, `Buffer::sendToSocket` for a message |
| `ThreadPool` | `thread/ThreadPool.h`, `ThreadMutex.h`, `Condition.h` |
| `RingBuffer` | `net/RingBuffer.cpp` |
| `Fifo` | what a ring buffer promises: a bounded queue of bytes |
| `MCEventsLoop`, `MCHttpServer`, `MCThreadPool`, `MCDNSCache`, `MCCertCache` | constants and symmetries of the instances |
| `EventsLoopProofs`, `HttpServerProofs` (extends it), `HttpProxyConnectionProofs`, `DNSCacheProofs`, `DaemonBaseProofs`, `HttpBodyFileProofs`, `ThreadPoolProofs`, `RingBufferProofs` | inductive invariants, theorems and proofs |

Operators named "faulty variant" are not part of any specification. Each is a
plausible mistake in the operator it stands before; with it in place TLC finds the
property named under "mutants" violated.

### EventsLoop

State: `sockfd` and `channelptr` per `Socket`; per heap address `owner`
(`Channel::sock_`, `NoSock` where no `Channel` lives), `chfd` and `events`; the
kernel's interest list `epoll`; `needDeleted`; the wheel (`wheel`, `current`) and the
history `idle` (clock jumps since a channel was last moved, capped at `NodeNum + 1`);
and where the loop thread is: `phase`, the unprocessed entries `ready` with the
interest they were reported for (`mask`), the entry in hand `cnptr` with its
remaining stages `evs`, and the timeout in hand `tmo`.

A callback is not modelled by what some callback does but by everything a callback
may do: any number of `callRegister`, `callClose` and `callSetEvents` steps on any
socket, then one of the codes in `Codes`. `new Channel` may return any free address,
including one deleted a moment ago; the kernel returns the lowest free descriptor.
`registerChannel` and `tcpClose` are whole calls (the loop has one thread), in the
order of the code: `EPOLL_CTL_DEL`, invalidate, queue, erase from the wheel, close.
`epollError` is `epoll_wait` returning -1, on which `loop()` returns.

A timeout callback is any number of closes of other sockets and then the close of
its own: each timeout callback of the repository ends that way.

### HttpServer

Adds, per connection, `state`, whether a TLS context is active (`ssl`), the installed
handlers (`readcb`, `writecb`), and the factory's `created` and `gc`. A connection is
named by its socket. The callback of the loop is refined: `callHandler` looks up the
installed handler, each case of the handler's switch is an action, `handlerReturns`
hands its code to the loop. The bytes are abstracted: a read may fail, have nothing
yet, complete a request, or deliver something the parser rejects; a TLS call may
succeed, ask for reading or writing, or fail. `acceptNone` also recycles the
connection object that `acceptHandle` has taken before `accept` failed.
`timedOut` is a history variable: `timeoutHandle` closes without recycling, so those
objects are not used again; `ConnectionsAccounted` says no other path loses one.

`SocketUtil` gives the results of creating the listening socket and of `accept`.

`HttpNoContext` is the server with TLS switched on and no certificate, where
`prepareSSLContext` fails and its result is not looked at.

### HttpProxyConnection

The connection object is one record `conn`: the proxy state, which of the sockets
client, server and udp (the resolver's) exist, for what they are armed, which handlers
`closeHandle` has replaced, who has a TLS context, the two parsers, the two shared
buffers (`switchBuffers` makes the client's in buffer the server's out buffer and the
other way round), `resolveState_`, whether the resolver has its callback, and whether
the object is in the factory's queue. A called function is an operator on the record;
a step is one event callback, one turn of the `while(1)` in `RWEventHandle`
(`running`), or one callback of the parser in such a turn (`parsing`). `serverConnectHandle` may call `RWEventHandle` from inside the resolver's
callback: `nested` keeps that, because `callHandle` assigns `resolveState_` only when
the callback has returned. What a socket, OpenSSL, the parser or the name server
answers is any result of `SocketIO`, `HttpParser` and `DNSMessage`. `silent` is the
moment from which no peer sends anything; after it only the time wheel acts.

The module does not extend `EventsLoop`: it uses what is proved there, that an event
reaches only a socket that is open and armed, and that an open socket that stays idle
times out.

A read may hold several messages. A header that is complete while an earlier one's query
is under way calls `resolve()` again, as long as the handle for the end of the header is
set. If the address is then at hand (an address, or cached), the connection is made and
`resolveState_` says DNS_UINIT while the UDP socket of the first query stays armed
(`dns/DNSResolver.cpp:48-57`). The history variable `overtaken` records this until the
object is recycled: the agreement of resolver and socket, and the way back to the queue,
are lost with it, and `ResolverInStep`, `NeverLeaked` and `SilentRecycled` name it as their
only exception (see "Also observed").

`HttpParser` keeps the parse state, the label "no body" and "tunnel" and whether the
handle for the end of the header is set. `http_parser` itself is external and is
represented by the callback it may make next on the bytes it has left, any number of
them in one read: after a message it goes on with the next one, except after a CONNECT.
`parseReturns` is what `HttpMessage::parse` makes of it, where a request that is complete
counts as complete although bytes are left, and a response does not.

`DNSMessage` keeps of a message what the code's walk tells apart: labels, ends of
names, compression pointers that the code recognises and those from offset 256 on that
it takes for a long label, and the type of each record.

### DNSCache

`array` is the shared table; a name is a sequence of characters in a field that is not
cleared when a shorter name is copied over it; `Word` gives the eight 16-bit words of
a digest, as slots. The comparison in `updateNode` reads `sizeof(host)` characters, of a
short name also what lies behind its terminator, which the model leaves open
(`sameName`). `updateNode` is three steps (time, name, address), because a
process may die between them. `shmCache` is the private map of each process. The time
is read twice in one update and may differ by a second. `crash` leaves the mutex
locked, as a mutex that is not robust is; `creatorExits` is the parent, which destroys
the mutex under the workers.

### DaemonBase

The parent is at one of the points between which a signal makes a difference; signals
pending are a set, so two of the same kind are one. `child` is the state of each
process identifier, which is used again once it was reaped. A worker is "forked" until
line 227, "child" until line 228 and then in its loop: a SIGTERM has another effect in
each. `forgotten`, `missed` and `early` are history variables for the three ways in
which the parent's book can differ from the truth: a stopped worker reported by
`WUNTRACED`, a SIGTERM before line 228, and a worker reaped before it was stored.

### CertCache

One step per field written and read; a field that is being copied has the value
`Torn`. The file lock is granted or not and nobody waits for it or looks at the
result, as in the code. `first` remembers the pair with which a name was first stored.

### HttpBodyFile

Bytes are numbered, and `wire` is what the peer has read: bytes, sizes and line ends.
`Frame` is what it should read, defined directly. The ring is its bytes (`ringbuf`) and
the offsets of its two pointers (`ptr`), moved as `net/RingBuffer` moves them, because the
drains are not those of a queue: a drain that takes everything while `_writeptr` stands at
`_capacity` never ends (run `ring_drain`). Two places here meet it.
 - A flush in `writeIn`, `mode` or `closeFile` goes on appending old memory to the file:
   phase "spin", after which nothing more is modelled. Each flush of a full ring moves its
   start by a slot, so pieces of `RingSize - 1`, 1 and 1 bytes and `closeFile` are enough.
 - `sendContent` goes on sending old memory: phase "garbage". It takes a stop that leaves
   `_readptr` behind the first slot, or the position a flush has left. `writeInFromFile` may
   also be asked to fill a ring with room whose `_writeptr` is at `_capacity`; it asks the
   file for no byte and takes the answer for an error (`refillFails`).

The chunk senders clear the ring before they fill it and never meet either. The socket
takes any number of bytes each time, so a send may stop anywhere. `chunked` survives from
message to message, as in the code. Four places of the code do not resume a send that
stopped half way: `File::send2Socket` after a short `sendfile` of a chunk and after EAGAIN
without an offset, `sendFileChunk` in a line end, `sendChunk` in the last chunk of an empty
body, and `sendContent` with the ring as above. `hist.cut` records that one was met, and
`WireIsFrame` and `SenderFinishes` are about the messages in which none was.
`WrittenInOrder` says what the ring's defect leaves of the writing: the bytes are in order
whenever a call returns, and only a body longer than the ring meets a call that does not.

### ThreadPool

`pc` gives the place of every thread; acquiring, testing, waiting, pushing, popping,
releasing and clearing `holder_` are separate steps, so that the mutex and not the
model makes the critical sections atomic. `pthread_cond_wait` may return without a
notify (`spuriousWakeup`). `accepted` and `taken` are history variables. `running_`
is read without the lock in `runInThread`, as in the code. `NoLostWakeup` is the safety
side of the liveness properties: it counts, for the sleepers of each condition, the
threads that are awake and will look at the queue again.

### RingBuffer and Fifo

Offsets 0 to `Capacity`, where `Capacity` (one past the end) is a position of its
own as in the code, the memory itself, and `out`, what the last call delivered.
Differences are converted to `size_t` (modulo `SizeMod`). `CharRing` has the
operations on memory and `writeInFromFile`; `Ring` adds the four drains, one step per
turn of their loops. `RefinesFifo` maps the two offsets and the memory to a sequence
and requires every step to be a step of `Fifo`.

## Runs

| Run | Instance | Shows |
| --- | --- | --- |
| `loop` | 2 clients, 1 listener, timer, 4 addresses, 4 descriptors, 3 nodes, batches of 2, all codes | memory safety, no leak, correspondence of sockets and channels, the wheel |
| `http` | 2 connection objects, 2 nodes, plain, with fairness | handlers return, silent peers are closed |
| `https` | 2 connection objects, TLS, batches of 2 | reuse, accounting, arming and states of connections with calls that ask to be called again; the handlers' steps refine the loop's callbacks (`Loop`) |
| `http_no_context` | 2 connection objects, TLS without certificate | violated: a connection is recycled twice, its id ends twice in the reuse queue (`QueuedOnce`) |
| `proxy` | 1 object reused for ever, 2 hosts, requests GET, HEAD and CONNECT, any number of messages in a read | the object is recycled once and clean, never lost, resolver and request in step; silence recycles it |
| `body` | ring of 5, bodies of 0 to 12 bytes, one message after another | framing, order of the written bytes and which bodies meet the endless flush, termination of the senders |
| `dns` | 2 workers, 3 names, 2 slots, 3 updates, 3 seconds | answers are of the host, live, found and (for names as long as a pointer) not shortened, with crashes |
| `daemon` | 3 process identifiers, 1 or 2 workers, 2 deaths, 1 reload or stop signal | the book of children, replacement, bound, stop |
| `cert` | 2 workers, 1 certificate, 2 signed pairs | violated: a stored pair is replaced |
| `pool` | 2 workers, 2 callers, 2 tasks each, with fairness | bound and order of the queue; no notify is lost (`NoLostWakeup`) and nothing sleeps for ever while the pool runs; `stop` returns |
| `ring` | 5 slots, 2 byte values | the buffer is a bounded queue |
| `ring_drain` | 4 slots | violated: drains and writes disagree on where the end is |

Bounds. Four addresses are the timer, the listener, one connection and one channel
waiting for deletion, so that reuse of addresses and descriptors inside a batch happens;
batches of two make an entry stale while another is dispatched; three nodes tell "this
node", "the next" and "the others" apart. The acceptor takes a connection object before
it calls `accept`, so `n` objects allow `n - 1` open connections. Two workers make
`notify` and `notifyAll` differ and a queue of two be full, half full and empty. Five
slots give every relative position of the pointers, both ways round; two byte values
tell orders apart. `SizeMod` only has to exceed twice the capacity. The proxy run has no
bound besides the number of hosts: two make a request for another host than the last one
happen. A ring of five holds the size and line ends of a chunk, as the code's does; with
twelve bytes there are several chunks, a last one that is full and one that is not, bodies
shorter than the ring, and enough flushes to bring the pointers to every position. Three names, of which one begins
another and one is shorter than a pointer, fight for two slots, and a time to live of 0
and of 2 seconds makes entries expire between two updates. Three process identifiers for
two workers let one be used again while the other still runs. The theorems below do not
depend on these numbers.

Deadlock is not checked where the system may stop: the loop returns after a failed
`epoll_wait` (or has no address left in the instance), a pool that has stopped may
leave callers of `run()` waiting, the daemon exits, the clock and the updates of the
caches are bounded, and a proxy object waits for a client.

### Fairness

The loop's thread takes its next step when it has one, callbacks return, and a timer
that expires every second is reported by `epoll_wait` again and again even if other
events are reported in between (strong fairness on reporting it). DROPWAITED is
excluded from the run with fairness: no callback of the program returns it, and a
callback that always did could starve the timer. In the pool a thread that competes
for the mutex again and again gets it (strong fairness per thread: other threads,
woken spuriously or not, take the mutex in between, so weak fairness would say
nothing); spurious wake-ups and calls of `run()` and `stop()` are never required to
happen. In the proxy the loop's thread goes on and the time wheel comes round (weak
fairness of the timeouts, justified by `TimedOnce` and `TimeoutAfterFullTurn`); no
peer has to answer. In the daemon the kernel runs every process, delivers pending
signals, and a stopped worker is continued. In the body's run the peer keeps reading,
so that a socket that becomes writable again and again takes something.

## Findings

- `http_no_context`: without a TLS context `SSLHandShake` returns `closeHandle`'s
  `EVENT_CALLBACK_BREAK`, which has the value of `TIGERSO_IO_OK`. `readHandle` goes on
  with a connection that is already in the reuse queue, fails to read and recycles it
  again; the trace ends with `gc` holding one connection twice.
- `ring_drain`: `writeIn` may leave `_writeptr` at `_capacity`, the drains reduce
  `_readptr` modulo `_capacity`; an emptied buffer then has `size() == _capacity` and
  `while(size())` goes on. `HttpBodyFile::writeIn` flushes exactly when the buffer is
  full, each flush moves the start by one slot, and the position is reached by a body one
  byte longer than the ring: `closeFile` then fills the disk. Module `HttpBodyFile` has
  this in its phases "spin" and "garbage".
- `cert`: two workers that miss the same certificate both sign and both store; the
  data is written outside the lock, and the lock neither waits nor is looked at. A pair
  that was stored, and that a client was shown, is replaced or torn. This is about workers
  with one table, which is made before they are forked: every `DaemonBase` has an
  `OpensslInitializer` (`core/DaemonBase.h:59`), whose constructor makes it
  (`ssl/SSLContext.cpp:462`). In a process where nobody did, `resignContextCert` makes it at
  the first certificate (`ssl/SSLHelper.cpp:266`), and `SharedMemory::init` unlinks the name
  and makes a new segment (`core/SysUtil.cpp:139-140`), so that the table is private.

### Also observed

Behaviour of the code that the models contain or that reading it for them showed, and
that no statement of the repository contradicts.

Proxy. The client's channel has no write callback, so a write event enabled for it is
never served: the 503 after a failed lookup waits for the idle timeout.
`request_.clear()` drops the handle for the end of the header, which is set in
`PROXY_INIT` only: later requests go to the first server, whatever host they name. A
request completed while `RWEventHandle` runs inside the resolver's callback meets a
stale `DNS_ON_PROCESS` and waits for nothing (`misled`). Closing the server on RDHUP
leaves the client deaf until it times out. The bytes of a CONNECT stay in the buffer
and are sent to the server with the next request. The labels a HEAD request sets are
lost when the host is new. An error of `SSL_write` drops the context, and the next
send goes out in the clear. A failed initialisation leaves a partly configured
`SSL_CTX` in place. When a pipelined header has overtaken a query (`overtaken`), the answer
of that query still arrives and calls `serverConnectHandle` again: a server that is
connected gets a second descriptor in the same object, the first one is left open and
unwatched, and the request goes to the address of the wrong host; if the client has gone
meanwhile and the connect fails, the object is lost to the factory.

DNS. A compression pointer to an offset from 256 on is taken for a label; its two octets
are added, not combined. A message whose first two octets contain a zero counts as
empty. Two queries within a second have the same identifier. A worker that dies with the
lock leaves the cache unusable. `updateNode` compares `sizeof(host)`, eight, characters:
too few of a long name, and of a short one also what lies behind it, so that an older
answer may replace a newer one. `getStickDNSNode` returns the second record and not the
first.

Body. After a short `sendfile` with an offset the offset is advanced twice
(`core/File.cpp:141`); without an offset EAGAIN stores -1 as the position
(`core/File.cpp:218`); `sendFileChunk` takes a line end of which one byte was sent for
sent (`http/HttpBodyFile.cpp:161`); `sendContent`, which sends bodies without chunks over
TLS (and in the clear if `HttpBodyFile::sendfile` were ever false), meets the drain of
`ring_drain`; the last chunk of an empty body starts again when
it was interrupted. `writeIn` without a file name never returns once the ring is full.
`chunked` is never reset. A body that is only in the ring is not sent.

Daemon. One `waitpid` per SIGCHLD leaves zombies when signals merge; a worker reaped
before its pid was stored is never replaced; a SIGTERM before line 228 is lost; a pid
file left by a crash prevents a restart; two daemons started at once may both find no
pid file (not in the model); `__childrens` is a `std::set` changed inside a signal
handler (the model takes the handler for one step).

Threads. `ThreadMutex::unlock` clears `holder_` after it has released the mutex and may
erase the id of the next owner; only an assertion reads it.

Certificates. `getKeyName` writes one octet behind its buffer (`ssl/CertCache.cpp:127`).
`FileLock::init` keeps its write lock when it has no content to write.

## Theorems

All are about arbitrary constants that satisfy the named assumption of the module. Most
assumptions only give the constants their kind (`MaxTime` is a number, `NoPid` is no
process). Those that say more:
 - `HttpServerAssumption`: `Arm`, what the loop's clients may arm, has `{"IN"}` and
   `{"OUT"}`, and `Codes` has CONTINUE and BREAK. The handlers of the server arm and
   return exactly these; a loop that excluded them would not be the one they run in.
 - `DNSCacheAssumption`: a name has no 0 and fits the field of a node (`HOST_MAXLENGTH` is
   256, a domain name has at most 253 characters; the code does not test it); a pointer is
   not larger than that field; the table has a slot; a digest has a word; marks such as
   `Free` and `NoAddr` are not processes or answers.
 - `RingBufferAssumption`: `SizeMod`, the range of `size_t`, exceeds twice the capacity.

`EventsLoopProofs`: type correctness, `NoDanglingChannel`, `ChannelMatchesSocket`,
`TimedOnce`, `TimeoutAfterFullTurn` and `NoChannelLeak`. None of them is inductive alone. The
invariant `LoopInv` is the conjunction of
 - `ObjInv`: types, and the correspondence of socket, channel and kernel entry in both
   directions; a queued channel is allocated and invalid; an allocated channel is
   valid or queued; a free address is invalid;
 - `WheelInv`: a channel is in a node exactly if it is a valid channel of a client,
   and then in one node only;
 - `Aged`: a channel `d` nodes behind `_current` has been idle for `d` jumps; this
   is what turns "the node being cleared" into "idle for a full turn";
 - `CtlInv`: what the batch, the entry and the timeout in hand hold is allocated.
The wheel part needs the object part (what `eraseChannel` is called with), and the
control part needs that only `cleanNeedDeletedChannels` frees memory, at points where
nothing is in hand. `NoChannelLeak` needs besides that nothing is queued for deletion
whenever the loop waits (`NothingQueued`).

`HttpServerProofs`: `Http => Loop`, so that all of the above holds of the server, and
types, `ReuseQueueSound`, `ConnectionsAccounted`, `ReadHandleHasCase` and
`ArmedForOneEvent`. A handler's step is mapped to the loop's callback that makes the same
call, or to none. The invariant `HttpInv` is `LoopInv` with
 - `ConnType` and `Called`: what the handler in hand may rely on, that its connection is
   open and has the channel the loop is dispatching;
 - `Books`: the two accounting properties in one, per connection. They need each other:
   that a closed connection is not yet in the queue when it is recycled follows from the
   accounting of the open ones, and what a reused one looks like from the queue;
 - `Wired`: who can call `readHandle`. `ReadHandleHasCase` is about a handler that is
   called; the danger is an event that was reported before the connection began to send.
   `NoReadWhileSending` says that while a response is sent no IN is on its way to
   `readHandle`, in the rest of the batch or of the entry, and `NotCrossed` that a TLS
   write waiting for IN and a TLS read waiting for OUT are never installed together.
`HttpKeepsLoopPromises` puts the loop's theorems together for the server with its handlers.
The specification is that of a server whose TLS context is loaded; without a certificate
`ReuseQueueSound` is false (run `http_no_context`).

`HttpProxyConnectionProofs`: types, `RecycledClean`, `NeverLeaked`, `ResolverInStep` and
`RequestAwaited`, for any set of hosts. `ProxyInv` distinguishes the object between two
events (`Waiting`, `Settled`) from the object inside `RWEventHandle` (`Busy`), where less is
true, from the object between two callbacks of the parser (`Parsing`), where the request
may be complete and the next one begun, and these from the object inside the resolver's
callback, where `resolveState_` is stale.
The parts that are not obvious: an object without a client has a server whose every armed
event closes it (`Held`), so that nothing else runs on half an object; an object with a
TLS client has lost the handle for the end of the header (`Messages`), which is why no
query ever runs beside TLS; and DNS_ON_PROCESS belongs to an armed UDP socket and to a client
in the clear that has no server (`Querying`), while an armed UDP socket without it is that of
an overtaken query, the one case in which `Held` is lost. Each operator of the model has a lemma that
says which fields of the object it changes; the proofs of the handlers use these alone.

`DNSCacheProofs`: `AnswerForHost`, `AnswerLives`, `StoredIsFound` and the action property
`ExpiryNotShortened`, for any processes, names, digests and table. `DNSInv` says that a
node is `Whole`, that is, unused or with name, expiry and address of one answer, unless
it is in the hand of the process that owns the mutex, or the mutex is `Frozen`: owned by
a process that is dead or was started again. In both cases nobody reads the table. This is
the argument by which a death inside `updateNode` is harmless to answers, at the price
noted under the findings: the table is lost for good. `DNSFrozenForGood` states that price:
from the death on nobody enters the table and no node changes, through every restart. `InCall` records what a process
knows at each of the three assignments. It holds on the instance of `dns` (796184 states).

`DaemonBaseProofs`: `BookRight` and `WorkersBounded`, from `DaemonInv`: nothing is forked
before the daemon runs, `fork`'s result is in hand exactly between fork and store
(`InHand`), who lives and was not stopped is in the book or in hand, also after the parent
is gone (`Booked`), and the book with the one in hand is within a configuration
(`Bounded`; `WorkersBounded` itself, about those alive, is not inductive, because a
worker that ends is replaced before the book has lost it or after).

`HttpBodyFileProofs`: `WrittenInOrder` and `WireIsFrame`, for every size of the ring and of
the body. `WriteInv`: while a body is written, the ring is within its size, file and ring
are the bytes in order, and `_writeptr` is no further than the bytes written so far
(`WritingType`), which is why it does not reach `_capacity` before the body is longer than
the ring (`HangsLate`); sending changes all of them, but only `clear` returns to writing. For what
is sent, `FrameInv` adds `SendInv`. `WireIsFrame` speaks of the whole message and of a prefix,
and says nothing of where the sender goes on after it was interrupted; the invariant says, for
each state of the chunk machine (`Chunks`) and of the sender of a body with a length
(`Contents`), that the bytes the socket took, those in the ring, and those that this state
will still produce are the frame (`wire \o (ringbuf \o RestOfChunk(o)) = Frame`, and so on), with
`sendfile` and with the ring. A new message starts clean (`Unsent`). The theorem is about messages
that were flushed and not cut (`hist`), as the property is. The frame of a chunked body is a
recursive function of the bytes that are left; that it is a sequence, and what it is one chunk
further on, is shown with a least counterexample (`LeastElement`, from the well-foundedness of
the naturals). `FrameInv` holds on the instance of `body` (139116 states).

`ThreadPoolProofs`: types, `QueueBounded`, `TasksInOrder` and `NoLostWakeup`, from `PoolInv`, which
adds that a thread inside a critical section owns the mutex (`Exclusive`), that a
thread about to push has room (`RoomToPush`, the fact that the repeated test
establishes and exclusion preserves) and that a caller in `run()` has a task
(`Submitting`). `NoLostWakeup` needs `MaySleep` besides: a thread between its test and its sleep
still has the mutex, so the queue is then still empty (a worker) or full (a caller).
Each push wakes one worker and uses up one caller, each pop the reverse, so that both
counts keep step with the length of the queue; `OneMore` and `OneLess` are the lemmas about
cardinalities. It is here that `ThreadPoolAssumption` is used for finitely many callers.

`RingBufferProofs`: types, `SlotReserved` and `RefinesFifo` of `CharRing`, from
`RingInv`, which adds `Apart`: while the write offset stands at `Capacity`, one past the
last slot, the read offset is not at the first slot. At that one pair
`Capacity - (w - r) - 1` is negative and wraps as `size_t`, so a ring with no slot left
would report almost unlimited room. `Apart` states `SlotReserved` on the offsets alone, and
the induction needs the types with it. For the refinement, `Content` is put as a function
of memory and offsets (`Held`), and lemmas say what one copy behind the newest byte, two
copies around the end, and an advance of the read offset do to it. Every operation is then
a `Put`, a `Get`, a `Clear` or nothing. The drains to a socket or a file are not part of
`CharRing`: with them the property is false (run `ring_drain`).

Only model-checked:
 - the liveness properties `HandlerReturns`, `SilentPeerClosed`, `RunReturns`,
   `TaskTaken`, `StopReturns`, `StopReachesAll`, `WorkersReplaced`, `SilentRecycled` and
   `SenderFinishes`: fairness and ENABLED are out of the prover's reach.
All other properties of the passing runs are theorems. The three violated ones are
findings.

## Not modelled

Text processing: header fields and the formatting of messages, configuration, logging,
hashes and digests. The vendored `http_parser` and OpenSSL are external and represented
by the results the code distinguishes. `HttpProxy` is an earlier proxy that the program
does not use; the `TCP_TUNNEL` state of the present one is never entered
(`isNeedTunnelSSL` returns false). The fixed DNS entries, the growing
of `Buffer`, the blocking branches of `File`, and the reference count of `ShmMutex`,
which nothing reads, are left out. The constructor of `ShmMutex` compares `mutex_ptr`
with NULL (`core/SysUtil.cpp:175`) where it means to assign it; the models are of processes in
which the uninitialised pointer is NULL, as otherwise no mutex is made and the constructor
writes through it. Of `DaemonBase`, failing forks in `daemonlize` and failing `sigaction`
calls are left out. What `HttpBodyFile` does after a flush that does not end is left out.
The identifier counter of `ConnectionFactory` is not bounded. The order in which callers start and stop the pool more than once is left out:
the code does not support it.

## Plan

1. The proxy connection on top of `EventsLoop` in one module, with the two sockets as
   clients of the loop, so that "an event reaches only an open and armed socket" is used
   as a theorem instead of as a guard.
2. The drains of `RingBuffer` with a corrected end, once the code has one, as steps of
   `Fifo`.
