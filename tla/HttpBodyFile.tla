---------------------------- MODULE HttpBodyFile ----------------------------
(***************************************************************************)
(* The body of an HTTP message (http/HttpBodyFile) over its file           *)
(* (core/File) and its ring buffer, from the first byte written to it to   *)
(* the last byte of its framing on the socket (Buffer::sendToSocket).      *)
(*                                                                         *)
(* The ring buffer is what it holds, ringbuf, and where its two pointers   *)
(* stand, ptr: a drain that takes all while _writeptr stands at _capacity  *)
(* never ends (RingBufferDrain.cfg), neither one to the file (flushFile)   *)
(* nor one to a socket (sendContent).  Bytes are numbered in the order     *)
(* they are handed to writeIn.  Sockets are non-blocking, as those of the  *)
(* server are; the disk does not fail; the file is left on it (no          *)
(* unlinkAfterSend).                                                       *)
(*                                                                         *)
(* Four places do not resume a send that stopped half way; `cut` records   *)
(* that one of them was met (see takes and stopped, sendChunkEnd, recall,  *)
(* and sendContent with refillFails).                                      *)
(***************************************************************************)
EXTENDS Integers, Sequences, SequencesExt

CONSTANTS RingSize,     \* RINGBUFFER_DEFAULT_LENGTH = HTTP_FILE_CACHE_SIZE
          MaxBytes,     \* bound: bytes of one body
          MaxStops      \* bound: EAGAINs of one sendfile without an offset (each lowers cur_)

\* The ring has room for a chunk's size and line ends (RINGBUFFER_MIN_LENGTH is 1024).
ASSUME BodyAssumption == RingSize \in Nat /\ RingSize >= 5 /\ MaxBytes \in Nat /\ MaxStops \in Nat

VARIABLES
    phase,      \* "write", "wait" for a writable socket, in "send", "done", "error"; in a
                \* call that does not return: "spin" in writing, "garbage" in sending
    file,       \* the File: its name and contents, fd_ and its position, readdone_, cur_
    ringbuf,    \* the bytes _ringbuf holds
    ptr,        \* its _readptr and _writeptr, as offsets r and w
    body,       \* _readoffset, _chunksize, _chunkstate, _sendContentDone
    chunked,    \* chunked; no function sets it back
    path,       \* how the socket is written: "tls", "plain" (sendfile off), "sendfile"
    call,       \* the loop of File::send2Socket: running, left, old_off
    wire,       \* what the socket took of this message's body (until it was cut)
    hist        \* of this message: bytes written, flushed before sending, cut

vars == <<phase, file, ringbuf, ptr, body, chunked, path, call, wire, hist>>

Path == {"tls", "plain", "sendfile"}

\* What a socket carries: bytes of the body, the digits of a chunk's size, CR and LF.
Token(kind, n) == [kind |-> kind, n |-> n]
Data(from, to) == [i \in 1 .. to - from + 1 |-> Token("byte", from + i - 1)]
CRLF == <<Token("cr", 0), Token("lf", 0)>>
inter2HexString(n) == <<Token("size", n)>>
LastChunk == inter2HexString(0) \o CRLF \o CRLF

Least(a, b) == IF a < b THEN a ELSE b
First(s, k) == SubSeq(s, 1, k)
Rest(s, k) == SubSeq(s, k + 1, Len(s))

-----------------------------------------------------------------------------
(* core/File                                                                 *)

NewFile == [named |-> FALSE, exists |-> FALSE, bytes |-> <<>>,
            fd |-> "none", pos |-> 0, readdone |-> FALSE, cur |-> 0]

testExist(f) == f.named /\ f.exists
getFileSize(f) == IF testExist(f) THEN Len(f.bytes) ELSE 0

\* File::reset: fd_ is closed, even one continuousReadOut has closed already.
fileReset(f) == [f EXCEPT !.fd = "none", !.pos = 0, !.readdone = FALSE, !.cur = 0]
\* File::appendWriteIn: fails without a name.
appendWriteIn(f, s) == [f EXCEPT !.exists = TRUE, !.bytes = @ \o s]

\* File::continuousReadOut as RingBuffer::writeInFromFile uses it, for all its room: a short
\* read is the last one and closes fd_, whose number stays.  Once closed, read() fails.
\* Faulty variant first: a read of all that was asked for counts as the last one.
readDoneAlways(f, len) == Least(len, Len(f.bytes) - f.pos) <= len
readDone(f, len) == Least(len, Len(f.bytes) - f.pos) < len
continuousReadOut(f, len) ==
    LET n == Least(len, Len(f.bytes) - f.pos)
    IN  [f EXCEPT !.fd = IF readDone(f, len) THEN "stale" ELSE "open",
                  !.readdone = readDone(f, len),
                  !.pos = @ + n]
bytesRead(f, len) == SubSeq(f.bytes, f.pos + 1, f.pos + Least(len, Len(f.bytes) - f.pos))

-----------------------------------------------------------------------------
(* The pointers of net/RingBuffer, in the operations HttpBodyFile uses       *)
(* (RingBuffer.tla has the memory they point into as well).                  *)

Capacity == RingSize + 1
Cleared == [r |-> 0, w |-> 0]

space == RingSize - Len(ringbuf)

\* writeIn of n bytes that fit: at the end of the memory, wrapped only if they go past it.
writtenIn(p, n) ==
    [p EXCEPT !.w = IF @ >= p.r /\ n > Capacity - @ THEN n - (Capacity - @) ELSE @ + n]
\* writeInFromFile that read n bytes: the second read, to the beginning of the memory, has
\* room only if _readptr is past the first slot.
writtenInFromFile(p, n) ==
    [p EXCEPT !.w = IF @ >= p.r /\ p.r > 1 /\ n >= Capacity - @ THEN n - (Capacity - @) ELSE @ + n]
\* Its first read asks for no byte, which continuousReadOut calls an error.
refillRefused == ptr.w = Capacity /\ space > 0
\* A drain, after k bytes.
drained(p, k) == [p EXCEPT !.r = (@ + k) % Capacity]
\* A drain that takes all: _readptr is wrapped to 0, _writeptr is not, size() is _capacity.
drainsForEver(p) == p.w = Capacity

-----------------------------------------------------------------------------
(* What a body keeps, and HttpBodyFile::reset.                               *)

NewBody == [readoffset |-> 0, chunksize |-> RingSize, chunkstate |-> "UINIT",
            contentDone |-> FALSE]
NoCall == [running |-> FALSE, left |-> 0, old |-> 0]
NewHist == [bytes |-> 0, flushed |-> TRUE, cut |-> FALSE]

\* Faulty variant: _readoffset is kept.
resetKeepsOffset ==
    /\ body' = [NewBody EXCEPT !.readoffset = body.readoffset]
    /\ file' = NewFile /\ ringbuf' = <<>> /\ ptr' = Cleared /\ call' = NoCall
reset ==
    /\ file' = NewFile
    /\ ringbuf' = <<>> /\ ptr' = Cleared
    /\ body' = NewBody
    /\ call' = NoCall

BodyInit ==
    /\ phase = "write" /\ file = NewFile /\ ringbuf = <<>> /\ ptr = Cleared
    /\ body = NewBody /\ chunked = FALSE /\ path = "plain"
    /\ call = NoCall /\ wire = <<>> /\ hist = NewHist

-----------------------------------------------------------------------------
(* Writing                                                                   *)

\* HttpMessage::setBodyFileName and HttpBodyFile::setFile: a new file, or a static one of n
\* bytes.
setFile ==
    /\ phase = "write" /\ ~file.named /\ ringbuf = <<>>
    /\ \E n \in 0 .. MaxBytes, exists \in BOOLEAN :
          /\ exists \/ n = 0
          /\ file' = [NewFile EXCEPT !.named = TRUE, !.exists = exists, !.bytes = Data(1, n)]
          /\ hist' = [NewHist EXCEPT !.bytes = n]
    /\ ptr' = Cleared
    /\ UNCHANGED <<phase, ringbuf, body, chunked, path, call, wire>>

\* HttpBodyFile::flushFile, RingBuffer::readOut2File: what the ring holds goes to the end of
\* the file, but with _writeptr at _capacity the loop goes on with the bytes of old memory.
overruns == file.named /\ ringbuf # <<>> /\ drainsForEver(ptr)
flushed == IF file.named /\ ringbuf # <<>> THEN appendWriteIn(file, ringbuf) ELSE file
leftUnflushed == IF file.named THEN <<>> ELSE ringbuf
ringFlushed ==
    /\ ringbuf' = leftUnflushed
    /\ ptr' = IF file.named THEN drained(ptr, Len(ringbuf)) ELSE ptr
    /\ phase' = IF overruns THEN "spin" ELSE phase
flushFile == file' = flushed /\ ringFlushed

\* HttpBodyFile::writeIn of len bytes: into the ring, past it, or through it.
writeInRing(s) ==
    /\ Len(s) < space
    /\ ringbuf' = ringbuf \o s
    /\ ptr' = writtenIn(ptr, Len(s))
    /\ UNCHANGED <<phase, file>>
\* Faulty variant: what the ring holds is not flushed first.
writeInFileUnflushed(s) ==
    /\ Len(s) >= space /\ Len(s) >= RingSize
    /\ file' = IF file.named THEN appendWriteIn(file, s) ELSE file
    /\ UNCHANGED <<phase, ringbuf, ptr>>
writeInFile(s) ==
    /\ Len(s) >= space /\ Len(s) >= RingSize
    /\ ringFlushed
    /\ file' = IF file.named /\ ~overruns THEN appendWriteIn(flushed, s) ELSE flushed
\* The ring is filled up, flushed and takes the rest, unless the flush does not end.
writeInLoop(s) ==
    /\ Len(s) >= space /\ Len(s) < RingSize /\ file.named
    /\ file' = appendWriteIn(file, ringbuf \o First(s, space))
    /\ LET full == writtenIn(ptr, space) IN
       IF drainsForEver(full)
       THEN phase' = "spin" /\ ringbuf' = <<>> /\ ptr' = drained(full, RingSize)
       ELSE /\ ringbuf' = Rest(s, space)
            /\ ptr' = writtenIn(drained(full, RingSize), Len(s) - space)
            /\ UNCHANGED phase
\* The ring is full and cannot be flushed: the loop goes round for ever.
writeInSpins(s) ==
    /\ Len(s) >= space /\ Len(s) < RingSize /\ ~file.named
    /\ ringbuf' = ringbuf \o First(s, space)
    /\ ptr' = writtenIn(ptr, space)
    /\ phase' = "spin"
    /\ UNCHANGED file

\* What a call that does not return goes on to do is left out.
spins == phase \in {"spin", "garbage"} /\ UNCHANGED vars

writeIn ==
    /\ phase = "write"
    /\ \E n \in 1 .. MaxBytes - hist.bytes :
          LET s == Data(hist.bytes + 1, hist.bytes + n) IN
          /\ writeInRing(s) \/ writeInFile(s) \/ writeInLoop(s) \/ writeInSpins(s)
          /\ hist' = [hist EXCEPT !.bytes = @ + n]
    /\ UNCHANGED <<body, chunked, path, call, wire>>

\* HttpBodyFile::mode, and closeFile when the parser has seen the whole body.
mode ==
    /\ phase = "write" /\ getFileSize(file) > 0 /\ flushFile
    /\ UNCHANGED <<body, chunked, path, call, wire, hist>>
closeFile ==
    /\ phase = "write" /\ flushFile
    /\ UNCHANGED <<body, chunked, path, call, wire, hist>>

-----------------------------------------------------------------------------
(* Sending: Buffer::attachHttpMessage, then HttpBodyFile::send2Socket from   *)
(* sendToSocket each time the socket is writable.                            *)

Keep == UNCHANGED <<chunked, path>>

attach ==
    /\ phase = "write"
    /\ phase' = "wait"
    /\ chunked' \in {chunked, TRUE}                     \* setChunkedTransfer(true)
    /\ path' \in Path
    /\ hist' = [hist EXCEPT !.flushed = ringbuf = <<>>]
    /\ UNCHANGED <<file, ringbuf, ptr, body, call, wire>>

\* send2Socket is called.  A body without a file is done; an empty chunked one starts its
\* last chunk, again if it had been stopped in it.
noFile ==
    /\ phase = "wait" /\ ~testExist(file)
    /\ phase' = "done"
    /\ UNCHANGED <<file, ringbuf, ptr, body, call, wire, hist>> /\ Keep
recall ==
    /\ phase = "wait" /\ testExist(file)
    /\ phase' = "send"
    /\ body' = IF chunked /\ getFileSize(file) = 0
               THEN [body EXCEPT !.chunkstate = "FILEDONE"] ELSE body
    /\ hist' = [hist EXCEPT !.cut = @ \/ (chunked /\ getFileSize(file) = 0
                                          /\ body.chunkstate = "NULLON" /\ ringbuf # LastChunk)]
    /\ UNCHANGED <<file, ringbuf, ptr, call, wire>> /\ Keep

Sending(state) == phase = "send" /\ chunked /\ body.chunkstate = state /\ ~call.running
sendfileOn == path = "sendfile"

\* RingBuffer::send2Socket: the socket takes k bytes of the ring, which is cleared when it
\* took all.  All senders but sendContent clear it before they fill it, so that _writeptr
\* never reaches _capacity; what they write into it fits.
put(s) == wire' = IF hist.cut THEN wire ELSE wire \o s
ringTakes(k) == put(First(ringbuf, k))
ringLeft(k) == /\ ringbuf' = Rest(ringbuf, k)
               /\ ptr' = IF k < Len(ringbuf) THEN drained(ptr, k) ELSE Cleared
ringHolds(s) == ringbuf' = s /\ ptr' = writtenIn(Cleared, Len(s))

DONE == phase' = "done" /\ reset
ERROR == phase' = "error" /\ reset

\* case _CHUNKUINIT: the next chunk's size.
chunkInit ==
    /\ Sending("UINIT")
    /\ LET leftdata == getFileSize(file) - body.readoffset
           size == Least(leftdata, body.chunksize)
       IN  IF leftdata = 0
           THEN body' = [body EXCEPT !.chunkstate = "FILEDONE"] /\ UNCHANGED <<ringbuf, ptr>>
           ELSE /\ body' = [body EXCEPT !.chunksize = size, !.chunkstate = "SIZEON"]
                /\ ringHolds(inter2HexString(size) \o CRLF)
    /\ UNCHANGED <<phase, file, call, wire, hist>> /\ Keep

\* cases _CHUNKSIZEON, _CHUNKEDATAON and _CHUNKEOFON of sendChunk, and the first of
\* sendFileChunk: what the ring holds is sent, then `next`.
sendPart(k, next) ==
    /\ ringTakes(k) /\ ringLeft(k)
    /\ IF k < Len(ringbuf)
       THEN phase' = "wait" /\ UNCHANGED body
       ELSE phase' = phase /\ body' = next
    /\ UNCHANGED <<file, call, hist>> /\ Keep

sendSize(k) == Sending("SIZEON") /\ sendPart(k, [body EXCEPT !.chunkstate = "SIZEDONE"])

\* case _CHUNKSIZEDONE of sendChunk: the ring is filled from the file.
readChunk ==
    /\ Sending("SIZEDONE") /\ ~sendfileOn
    /\ IF file.fd = "stale"
       THEN ERROR
       ELSE /\ ringbuf' = ringbuf \o bytesRead(file, space)
            /\ ptr' = writtenInFromFile(ptr, Len(bytesRead(file, space)))
            /\ file' = continuousReadOut(file, space)
            /\ body' = [body EXCEPT !.chunkstate = "DATAON",
                                    !.readoffset = @ + Len(bytesRead(file, space))]
            /\ UNCHANGED <<phase, call>>
    /\ UNCHANGED <<wire, hist>> /\ Keep

sendData(k) ==
    /\ Sending("DATAON") /\ ~sendfileOn
    /\ sendPart(k, [body EXCEPT !.chunkstate = "DATADONE"])

\* case _CHUNKEDATADONE.
chunkEnd ==
    /\ Sending("DATADONE")
    /\ ringHolds(CRLF)
    /\ body' = [body EXCEPT !.chunkstate = "EOFON"]
    /\ UNCHANGED <<phase, file, call, wire, hist>> /\ Keep

AfterChunk == [body EXCEPT !.chunksize = RingSize,
                           !.chunkstate = IF getFileSize(file) - body.readoffset > 0
                                          THEN "UINIT" ELSE "FILEDONE"]

\* case _CHUNKEOFON.  sendFileChunk compares the number of bytes sent with RECALL, which is 0:
\* a line end of which one byte was sent counts as sent.
sendChunkEnd(k) ==
    /\ Sending("EOFON")
    /\ \/ ~sendfileOn /\ sendPart(k, AfterChunk)
       \/ /\ sendfileOn
          /\ ringTakes(k) /\ ringLeft(k)
          /\ IF k = 0 THEN phase' = "wait" /\ UNCHANGED body
                      ELSE phase' = phase /\ body' = AfterChunk
          /\ hist' = [hist EXCEPT !.cut = @ \/ k \in 1 .. Len(ringbuf) - 1]
          /\ UNCHANGED <<file, call>> /\ Keep

\* cases _CHUNKFILEDONE and _CHUNKNULLON.
lastChunk ==
    /\ Sending("FILEDONE")
    /\ ringHolds(LastChunk)
    /\ body' = [body EXCEPT !.chunkstate = "NULLON"]
    /\ UNCHANGED <<phase, file, call, wire, hist>> /\ Keep
sendLastChunk(k) ==
    /\ Sending("NULLON")
    /\ ringTakes(k)
    /\ IF k < Len(ringbuf)
       THEN phase' = "wait" /\ ringLeft(k) /\ UNCHANGED <<file, body, call>>
       ELSE DONE
    /\ UNCHANGED hist /\ Keep

\* HttpBodyFile::sendContent: one turn of its first loop, which refills the ring, and of its
\* second, which sends the rest and the line end.  The first sends old memory for ever once
\* all is taken of a ring whose _writeptr stands at _capacity; the second begins behind a
\* read that found less than there was room for, which leaves _writeptr below it.
Content(sendfile) == phase = "send" /\ ~chunked /\ sendfileOn = sendfile /\ ~call.running

refillFails ==
    /\ Content(FALSE) /\ ~file.readdone /\ refillRefused
    /\ phase' = "error"
    /\ hist' = [hist EXCEPT !.cut = TRUE]
    /\ UNCHANGED <<file, ringbuf, ptr, body, call, wire>> /\ Keep
sendContent(k) ==
    /\ Content(FALSE) /\ ~file.readdone /\ ~refillRefused
    /\ LET full == ringbuf \o bytesRead(file, space)
           p == writtenInFromFile(ptr, Len(bytesRead(file, space)))
           f == continuousReadOut(file, space)
           ends == k >= Len(full) /\ f.readdone
       IN  /\ k <= Len(full)
           /\ put(First(full, k))
           /\ IF k = Len(full) /\ drainsForEver(p)
              THEN /\ phase' = "garbage"
                   /\ hist' = [hist EXCEPT !.cut = TRUE]
                   /\ UNCHANGED <<file, ringbuf, ptr, body>>
              ELSE /\ ringbuf' = IF ends THEN CRLF ELSE Rest(full, k)
                   /\ ptr' = IF ends THEN writtenIn(Cleared, Len(CRLF))
                             ELSE IF k < Len(full) THEN drained(p, k) ELSE Cleared
                   /\ body' = [body EXCEPT !.contentDone = @ \/ ends]
                   /\ phase' = IF k < Len(full) THEN "wait" ELSE phase
                   /\ file' = f
                   /\ UNCHANGED hist
    /\ UNCHANGED call /\ Keep
sendContentRest(k) ==
    /\ Content(FALSE) /\ file.readdone
    /\ k <= Len(ringbuf)
    /\ ringTakes(k)
    /\ IF k = Len(ringbuf) /\ body.contentDone
       THEN DONE
       ELSE /\ IF k = Len(ringbuf) THEN ringHolds(CRLF) ELSE ringLeft(k)
            /\ body' = [body EXCEPT !.contentDone = @ \/ k = Len(ringbuf)]
            /\ phase' = IF k < Len(ringbuf) THEN "wait" ELSE phase
            /\ UNCHANGED <<file, call>>
    /\ UNCHANGED hist /\ Keep

-----------------------------------------------------------------------------
(* sendfile: File::send2Socket with an offset (sendFileChunk) and without    *)
(* (sendFileContent).                                                        *)

\* The call begins: fd_ is opened if it is not; left is what it will ask for.
openFile == file' = [file EXCEPT !.fd = "open"]
sendFileChunk ==
    /\ Sending("SIZEDONE") \/ Sending("DATAON")
    /\ sendfileOn
    /\ IF body.readoffset >= getFileSize(file)
       THEN /\ file' = fileReset(file)
            /\ body' = [body EXCEPT !.chunkstate = "DATADONE"]
            /\ UNCHANGED call
       ELSE /\ openFile
            /\ call' = [running |-> TRUE, old |-> body.readoffset,
                        left |-> Least(body.chunksize, getFileSize(file) - body.readoffset)]
            /\ UNCHANGED body
    /\ UNCHANGED <<phase, ringbuf, ptr, wire, hist>> /\ Keep
sendFileContent ==
    /\ Content(TRUE) /\ ~body.contentDone
    /\ openFile
    /\ call' = [running |-> TRUE, old |-> file.cur, left |-> getFileSize(file) - file.cur]
    /\ UNCHANGED <<phase, ringbuf, ptr, body, wire, hist>> /\ Keep

\* Where the kernel reads: at the offset it is given or at fd_'s own position.
Offset == IF chunked THEN body.readoffset ELSE file.pos

\* sendfile() moves n bytes and the offset behind them.  A chunk's offset then has n added to
\* it once more if that was not all it asked for.
takes(n) ==
    /\ phase = "send" /\ call.running /\ call.left > 0
    /\ n <= call.left /\ Offset + n <= Len(file.bytes)
    /\ put(SubSeq(file.bytes, Offset + 1, Offset + n))
    /\ call' = [call EXCEPT !.left = @ - n]
    /\ IF chunked
       THEN /\ body' = [body EXCEPT !.readoffset = @ + n + (IF n < call.left THEN n ELSE 0)]
            /\ UNCHANGED file
       ELSE file' = [file EXCEPT !.pos = @ + n] /\ UNCHANGED body
    /\ hist' = [hist EXCEPT !.cut = @ \/ (chunked /\ n < call.left)]
    /\ UNCHANGED <<phase, ringbuf, ptr>> /\ Keep

\* At the end of the file sendfile() returns 0, and the loop asks again.
takesNothing ==
    /\ phase = "send" /\ call.running /\ call.left > 0 /\ Offset >= Len(file.bytes)
    /\ UNCHANGED vars

\* EAGAIN: sendn is taken off the chunk; without an offset cur_ becomes -1, not what was sent.
stopped ==
    /\ phase = "send" /\ call.running /\ call.left > 0
    /\ phase' = "wait"
    /\ call' = NoCall
    /\ IF chunked
       THEN /\ body' = [body EXCEPT !.chunkstate = "DATAON",
                                    !.chunksize = @ - (body.readoffset - call.old)]
            /\ UNCHANGED <<file, hist>>
       ELSE /\ file.cur > -MaxStops
            /\ file' = [file EXCEPT !.cur = @ - 1]
            /\ hist' = [hist EXCEPT !.cut = TRUE]
            /\ UNCHANGED body
    /\ UNCHANGED <<ringbuf, ptr, wire>> /\ Keep

\* All was sent (or left was negative): FILE_SENDFILE_DONE.
sendfileDone ==
    /\ phase = "send" /\ call.running /\ call.left <= 0
    /\ call' = NoCall
    /\ file' = fileReset(file)
    /\ IF chunked
       THEN body' = [body EXCEPT !.chunkstate = "DATADONE"] /\ UNCHANGED <<ringbuf, ptr>>
       ELSE body' = [body EXCEPT !.contentDone = TRUE] /\ ringHolds(CRLF)
    /\ UNCHANGED <<phase, wire, hist>> /\ Keep
sendContentEnd(k) ==
    /\ Content(TRUE) /\ body.contentDone
    /\ ringTakes(k)
    /\ IF k = Len(ringbuf) THEN DONE
       ELSE phase' = "wait" /\ ringLeft(k) /\ UNCHANGED <<file, body, call>>
    /\ UNCHANGED hist /\ Keep

\* A send or sendfile fails; SocketUtil::Send reports that with TLS only.  The chunk senders
\* reset the body, the content senders leave it to clear.
sendFails ==
    /\ phase \in {"send", "garbage"} /\ path # "plain"
    /\ phase' = "error"
    /\ IF chunked THEN reset ELSE call' = NoCall /\ UNCHANGED <<file, ringbuf, ptr, body>>
    /\ UNCHANGED <<wire, hist>> /\ Keep

\* HttpMessage::clear, before the object's next message.
clear ==
    /\ phase \in {"done", "error"}
    /\ phase' = "write" /\ reset
    /\ path' = "plain" /\ wire' = <<>> /\ hist' = NewHist
    /\ UNCHANGED chunked

-----------------------------------------------------------------------------
ringSends(k) ==
    \/ sendSize(k) \/ sendData(k) \/ sendChunkEnd(k) \/ sendLastChunk(k)
    \/ sendContentRest(k) \/ sendContentEnd(k)
SocketTakes(k) ==
    \/ k <= Len(ringbuf) /\ ringSends(k)
    \/ sendContent(k)

Prepare == chunkInit \/ readChunk \/ chunkEnd \/ lastChunk \/ refillFails \/ sendFileChunk
           \/ sendFileContent \/ sendfileDone

Write == setFile \/ writeIn \/ spins \/ mode \/ closeFile \/ attach
BodyNext ==
    \/ Write \/ noFile \/ recall \/ Prepare \/ takesNothing \/ stopped \/ sendFails \/ clear
    \/ \E k \in 0 .. MaxBytes + 5 : SocketTakes(k)
    \/ \E n \in 1 .. MaxBytes : takes(n)

\* The peer keeps reading: a writable socket takes something in the end, an empty ring is
\* passed, and the loop calls the sender again.
Progress == \/ \E k \in 0 .. MaxBytes + 5 : (k > 0 \/ ringbuf = <<>>) /\ SocketTakes(k)
            \/ \E n \in 1 .. MaxBytes : takes(n)
Body == /\ BodyInit /\ [][BodyNext]_vars
        /\ WF_vars(noFile \/ recall \/ Prepare)
        /\ SF_vars(Progress)

-----------------------------------------------------------------------------
(* What the receiver must read, by definition.                               *)

ContentFrame(n) == Data(1, n) \o CRLF
\* The chunks of a body of n bytes behind its first o.
FramesFrom(n) ==
    LET from[o \in 0 .. n] ==
            IF o = n THEN LastChunk
            ELSE LET c == Least(RingSize, n - o) IN
                 inter2HexString(c) \o CRLF \o Data(o + 1, o + c) \o CRLF \o from[o + c]
    IN  from
ChunkFrame(n) == FramesFrom(n)[0]
Frame == IF chunked THEN ChunkFrame(hist.bytes) ELSE ContentFrame(hist.bytes)

\* However the socket stops and resumes the sender, over TLS, plainly or with sendfile, and
\* whatever the object's earlier messages left, the bytes on the wire are the beginning of the
\* message's framing; and they are all of it when send2Socket says DONE.  It takes a body that
\* was flushed (closeFile), has a file, and was not cut in one of the four places above.
WireIsFrame ==
    hist.flushed /\ ~hist.cut =>
        /\ IsPrefix(wire, Frame)
        /\ phase = "done" /\ wire # <<>> => wire = Frame

\* Pieces of any size, written through the ring and past it with flushes in between, lie in
\* the file and behind it in the ring in the order they were written, none lost or twice,
\* whenever a call returns; and a call that does not, because its flush is the endless drain
\* of RingBufferDrain.cfg, is met only by a body that is longer than the ring.
WrittenInOrder ==
    file.named => /\ phase = "write" => file.bytes \o ringbuf = Data(1, hist.bytes)
                  /\ phase = "spin" => hist.bytes > RingSize

\* A sender that is called again each time the socket takes more gets to the end of the body:
\* over a socket that cannot fail it says DONE.
SenderFinishes ==
    (phase = "wait") ~> (phase = "done" \/ hist.cut \/ (phase = "error" /\ path # "plain"))
=============================================================================
