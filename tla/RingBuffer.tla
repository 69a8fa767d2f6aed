----------------------------- MODULE RingBuffer -----------------------------
(***************************************************************************)
(* net/RingBuffer.cpp: a circular byte buffer with one slot in reserve.    *)
(* The pointers are kept as offsets into _buffer.  An offset may stand one *)
(* past the last slot, _capacity, which is the same place as 0 for some    *)
(* operations and not for others.                                          *)
(***************************************************************************)
EXTENDS Integers, Sequences

CONSTANTS
    Byte,        \* the values of a byte
    Capacity,    \* _capacity: the length asked for and the reserved slot
    SizeMod,     \* 2^64, the modulus of size_t (any number above 2 * Capacity acts the same)
    NoByte       \* a slot of malloc'ed memory never written

ASSUME RingBufferAssumption ==
    /\ Capacity \in Nat /\ Capacity > 1
    /\ SizeMod \in Nat /\ SizeMod > 2 * Capacity

VARIABLES
    readptr,     \* _readptr - _buffer
    writeptr,    \* _writeptr - _buffer
    buffer,      \* the memory at _buffer
    draining,    \* the drain loop in progress: "no", "file" or "socket"
    out          \* the bytes the last step delivered

ringVars == <<readptr, writeptr, buffer, draining, out>>

Offset == 0 .. Capacity
Least(m, n) == IF m <= n THEN m ELSE n

\* Conversion of a difference to size_t.
size_t(n) == IF n < 0 THEN n + SizeMod ELSE n
space == IF writeptr >= readptr THEN size_t(Capacity - (writeptr - readptr) - 1)
         ELSE size_t(readptr - writeptr - 1)
size == size_t(size_t(Capacity - 1) - space)
isFull == space = 0
isEmpty == readptr = writeptr

\* memcpy of the sequence s to offset o, and of n bytes from offset o.
memcpyIn(mem, o, s) == [i \in 0 .. Capacity - 1 |->
                          IF o <= i /\ i < o + Len(s) THEN s[i - o + 1] ELSE mem[i]]
memcpyOut(o, n) == [i \in 1 .. n |-> buffer[o + i - 1]]

RingInit ==
    /\ readptr = 0 /\ writeptr = 0
    /\ buffer = [i \in 0 .. Capacity - 1 |-> NoByte]
    /\ draining = "no"
    /\ out = <<>>

-----------------------------------------------------------------------------
(* The operations on characters.                                            *)

\* Faulty variants: the bytes are not split where they wrap; the reserved slot is
\* used as well.
writeInNoWrap(s) ==
    /\ draining = "no" /\ ~isFull /\ Len(s) > 0
    /\ buffer' = memcpyIn(buffer, writeptr, SubSeq(s, 1, Least(Len(s), space)))
    /\ writeptr' = writeptr + Least(Len(s), space)
    /\ out' = <<>>
    /\ UNCHANGED <<readptr, draining>>
writeInReserved(s) ==
    LET len == Least(Len(s), space + 1)
        right == Capacity - writeptr
    IN /\ draining = "no" /\ ~isFull /\ Len(s) > 0
       /\ IF writeptr >= readptr /\ len > right
          THEN /\ buffer' = memcpyIn(memcpyIn(buffer, writeptr, SubSeq(s, 1, right)),
                                     0, SubSeq(s, right + 1, len))
               /\ writeptr' = len - right
          ELSE /\ buffer' = memcpyIn(buffer, writeptr, SubSeq(s, 1, len))
               /\ writeptr' = writeptr + len
       /\ out' = <<>>
       /\ UNCHANGED <<readptr, draining>>

\* writeIn(buf, length): as many bytes as fit, in two parts if they wrap.
writeIn(s) ==
    LET len == Least(Len(s), space)
        right == Capacity - writeptr
    IN /\ draining = "no" /\ ~isFull /\ Len(s) > 0
       /\ IF writeptr >= readptr /\ len > right
          THEN /\ buffer' = memcpyIn(memcpyIn(buffer, writeptr, SubSeq(s, 1, right)),
                                     0, SubSeq(s, right + 1, len))
               /\ writeptr' = len - right
          ELSE /\ buffer' = memcpyIn(buffer, writeptr, SubSeq(s, 1, len))
               /\ writeptr' = writeptr + len
       /\ out' = <<>>
       /\ UNCHANGED <<readptr, draining>>

\* Faulty variant: a read that ends exactly at the end of the memory wraps one slot
\* too far.
readOutWrapsEarly(len) ==
    LET readn == Least(len, size)
        right == Capacity - readptr
    IN /\ draining = "no" /\ ~isEmpty /\ len > 0
       /\ IF writeptr > readptr \/ readn < right
          THEN out' = memcpyOut(readptr, readn) /\ readptr' = readptr + readn
          ELSE /\ out' = memcpyOut(readptr, right) \o memcpyOut(0, readn - right)
               /\ readptr' = readn - right + 1
       /\ UNCHANGED <<writeptr, buffer, draining>>

\* readOut(buf, len): at most len of the bytes held.
readOut(len) ==
    LET readn == Least(len, size)
        right == Capacity - readptr
    IN /\ draining = "no" /\ ~isEmpty /\ len > 0
       /\ IF writeptr > readptr \/ readn <= right
          THEN out' = memcpyOut(readptr, readn) /\ readptr' = readptr + readn
          ELSE /\ out' = memcpyOut(readptr, right) \o memcpyOut(0, readn - right)
               /\ readptr' = readn - right
       /\ UNCHANGED <<writeptr, buffer, draining>>

clear ==
    /\ draining = "no"
    /\ readptr' = 0 /\ writeptr' = 0
    /\ out' = <<>>
    /\ UNCHANGED <<buffer, draining>>

-----------------------------------------------------------------------------
(* writeInFromFile: up to two reads of the file, straight into the memory.   *)

\* The results of file.continuousReadOut(buf, len): the bytes read, fewer than asked
\* for at the end of the file.  -1 is an error, and so is a read of no bytes.
Reads(len) == UNION {[1 .. n -> Byte] : n \in 0 .. len}

\* How many bytes the first read asks for: to the end of the memory, less the
\* reserved slot where that is the last one.
rightRoom == IF readptr >= 1 THEN Capacity - writeptr ELSE Capacity - writeptr - 1

\* The free memory is one piece, or the first read fails, or is the last.
writeInFromFileOnce(s) ==
    LET asked == IF writeptr >= readptr THEN rightRoom ELSE space
    IN /\ draining = "no" /\ ~isFull
       /\ s \in Reads(asked)
       /\ writeptr >= readptr => readptr <= 1 \/ Len(s) < asked \/ asked = 0
       /\ buffer' = memcpyIn(buffer, writeptr, s)
       /\ writeptr' = writeptr + Len(s)
       /\ out' = <<>>
       /\ UNCHANGED <<readptr, draining>>

\* The first read fills the memory to its end, the second starts at its beginning;
\* when the second fails the pointer stays at the end.
writeInFromFileTwice(s, t, ok) ==
    /\ draining = "no" /\ ~isFull
    /\ writeptr >= readptr /\ readptr > 1 /\ writeptr < Capacity
    /\ s \in [1 .. Capacity - writeptr -> Byte] /\ t \in Reads(readptr - 1)
    /\ ok \/ t = <<>>
    /\ buffer' = memcpyIn(memcpyIn(buffer, writeptr, s), 0, t)
    /\ writeptr' = IF ok THEN Len(t) ELSE Capacity
    /\ out' = <<>>
    /\ UNCHANGED <<readptr, draining>>

-----------------------------------------------------------------------------
(* The drains: readOut(fd) and readOut2File write to a file, the two          *)
(* send2Socket to a socket.  A step is one turn of while(size()).             *)

drain(to) ==
    /\ draining = "no" /\ ~isEmpty
    /\ draining' = to
    /\ out' = <<>>
    /\ UNCHANGED <<readptr, writeptr, buffer>>

\* write or send takes the first n bytes of the contiguous piece at _readptr.
drainSome(n) ==
    /\ draining # "no" /\ size > 0
    /\ n <= (IF writeptr > readptr THEN size ELSE Capacity - readptr)
    /\ out' = memcpyOut(readptr, n)
    /\ readptr' = (readptr + n) % Capacity
    /\ UNCHANGED <<writeptr, buffer, draining>>

\* write or send fails, or the socket would block: the call returns.
drainStops ==
    /\ draining # "no" /\ size > 0
    /\ draining' = "no"
    /\ out' = <<>>
    /\ UNCHANGED <<readptr, writeptr, buffer>>

\* The loop ends; send2Socket then calls clear().
drainEnds ==
    /\ draining # "no" /\ size = 0
    /\ IF draining = "socket" THEN readptr' = 0 /\ writeptr' = 0
       ELSE UNCHANGED <<readptr, writeptr>>
    /\ draining' = "no"
    /\ out' = <<>>
    /\ UNCHANGED buffer

-----------------------------------------------------------------------------

Input == UNION {[1 .. n -> Byte] : n \in 1 .. Capacity}

CharNext ==
    \/ \E s \in Input : writeIn(s)
    \/ \E len \in 1 .. Capacity : readOut(len)
    \/ \E s \in Reads(Capacity) : writeInFromFileOnce(s)
    \/ \E s \in Input, t \in Reads(Capacity), ok \in BOOLEAN : writeInFromFileTwice(s, t, ok)
    \/ clear

\* The buffer filled from memory and files and read to memory.
CharRing == RingInit /\ [][CharNext]_ringVars

DrainNext ==
    \/ \E to \in {"file", "socket"} : drain(to)
    \/ \E n \in 1 .. Capacity : drainSome(n)
    \/ drainStops
    \/ drainEnds

\* The buffer with its drains to files and sockets as well.
Ring == RingInit /\ [][CharNext \/ DrainNext]_ringVars

-----------------------------------------------------------------------------
(* Properties.                                                              *)

RingTypeOK ==
    /\ readptr \in Offset /\ writeptr \in Offset
    /\ buffer \in [0 .. Capacity - 1 -> Byte \cup {NoByte}]
    /\ draining \in {"no", "file", "socket"}
    /\ out \in Seq(Byte \cup {NoByte})

\* The reserved slot stays free: size() is at most _capacity - 1 and space() its
\* complement, neither wraps below zero, and isFull() and isEmpty() are never both
\* true of one state.
SlotReserved ==
    /\ size <= Capacity - 1 /\ space <= Capacity - 1
    /\ ~(isFull /\ isEmpty)

\* What the buffer holds, oldest byte first, whichever way the offsets stand.
Content == [i \in 1 .. size |-> buffer[(readptr + i - 1) % Capacity]]

\* The ring buffer is a queue of _capacity - 1 bytes: every call adds bytes behind the
\* others, delivers the oldest in order, drops them all or moves nothing.
Queue == INSTANCE Fifo WITH Room <- Capacity - 1, q <- Content
RefinesFifo == Queue!Fifo
=============================================================================
