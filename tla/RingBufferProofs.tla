-------------------------- MODULE RingBufferProofs --------------------------
(* Proofs about RingBuffer, for every capacity.                              *)
EXTENDS RingBuffer, SequenceTheorems, TLAPS

\* SlotReserved is inductive only together with the types. On typed offsets it says that a
\* writer one past the last slot never meets a reader at the first one, the only pair at
\* which the subtraction in space wraps; Apart is that fact without the arithmetic.
Apart == writeptr = Capacity => readptr >= 1
RingInv == RingTypeOK /\ Apart

LEMMA ArithmeticOfSpace ==
    ASSUME readptr \in Offset, writeptr \in Offset, Apart
    PROVE  /\ space \in 0 .. Capacity - 1
           /\ size = Capacity - 1 - space
           /\ writeptr >= readptr => space = Capacity - (writeptr - readptr) - 1
           /\ writeptr < readptr => space = readptr - writeptr - 1
BY RingBufferAssumption DEF space, size, size_t, Offset, Apart

\* memcpy within the bounds keeps the memory an array of bytes.
LEMMA MemcpyInType ==
    ASSUME NEW mem \in [0 .. Capacity - 1 -> Byte \cup {NoByte}],
           NEW o \in Nat, NEW s \in Seq(Byte)
    PROVE  memcpyIn(mem, o, s) \in [0 .. Capacity - 1 -> Byte \cup {NoByte}]
<1>1. ASSUME NEW i \in 0 .. Capacity - 1, o <= i, i < o + Len(s)
      PROVE  s[i - o + 1] \in Byte
  BY <1>1, RingBufferAssumption
<1> QED  BY <1>1 DEF memcpyIn

LEMMA MemcpyOutType ==
    ASSUME RingTypeOK, NEW o \in Nat, NEW n \in Nat, o + n <= Capacity
    PROVE  memcpyOut(o, n) \in Seq(Byte \cup {NoByte})
<1>1. \A i \in 1 .. n : o + i - 1 \in 0 .. Capacity - 1
  BY RingBufferAssumption
<1>2. memcpyOut(o, n) \in [1 .. n -> Byte \cup {NoByte}]
  BY <1>1 DEF memcpyOut, RingTypeOK
<1> QED  BY <1>2

LEMMA InitRingInv == RingInit => RingInv
BY RingBufferAssumption DEF RingInit, RingInv, RingTypeOK, Apart, Offset
LEMMA WriteInInv ==
    ASSUME RingInv, NEW s \in Input, writeIn(s) PROVE RingInv'
<1> DEFINE len == Least(Len(s), space)
           right == Capacity - writeptr
<1>1. PICK m \in 1 .. Capacity : s \in [1 .. m -> Byte]
  BY DEF Input
<1>2. s \in Seq(Byte) /\ Len(s) = m /\ m \in Nat
  BY <1>1, RingBufferAssumption
<1>3. /\ readptr \in 0 .. Capacity /\ writeptr \in 0 .. Capacity
      /\ space \in 0 .. Capacity - 1
      /\ writeptr >= readptr => space = Capacity - (writeptr - readptr) - 1
      /\ writeptr < readptr => space = readptr - writeptr - 1
  BY ArithmeticOfSpace DEF RingInv, RingTypeOK, Offset
<1>4. len \in Nat /\ len <= Len(s) /\ len <= space /\ right \in Nat
  BY <1>2, <1>3, RingBufferAssumption DEF Least
<1>7. writeptr \in Nat /\ buffer \in [0 .. Capacity - 1 -> Byte \cup {NoByte}]
  BY <1>3 DEF RingInv, RingTypeOK
<1> HIDE DEF len, right
<1>5. CASE writeptr >= readptr /\ len > right
  <2>1. /\ buffer' = memcpyIn(memcpyIn(buffer, writeptr, SubSeq(s, 1, right)),
                              0, SubSeq(s, right + 1, len))
        /\ writeptr' = len - right
    BY <1>5 DEF writeIn, len, right
  <2>2. SubSeq(s, 1, right) \in Seq(Byte)
    BY <1>2, <1>4, <1>5
  <2>3. SubSeq(s, right + 1, len) \in Seq(Byte)
    BY <1>2, <1>4, <1>5
  <2>4. memcpyIn(buffer, writeptr, SubSeq(s, 1, right)) \in [0 .. Capacity - 1 -> Byte \cup {NoByte}]
    BY <1>7, <2>2, MemcpyInType
  <2>6. buffer' \in [0 .. Capacity - 1 -> Byte \cup {NoByte}]
    BY <2>1, <2>3, <2>4, MemcpyInType
  <2>7. writeptr' \in Offset /\ Apart'
    BY <2>1, <1>3, <1>4, <1>5, RingBufferAssumption DEF Offset, Apart, writeIn, right
  <2> QED  BY <2>6, <2>7 DEF RingInv, RingTypeOK, writeIn
<1>6. CASE ~(writeptr >= readptr /\ len > right)
  <2>1. /\ buffer' = memcpyIn(buffer, writeptr, SubSeq(s, 1, len))
        /\ writeptr' = writeptr + len
    BY <1>6 DEF writeIn, len, right
  <2>2. SubSeq(s, 1, len) \in Seq(Byte)
    BY <1>2, <1>4
  <2>3. buffer' \in [0 .. Capacity - 1 -> Byte \cup {NoByte}]
    BY <2>1, <1>7, <2>2, MemcpyInType
  <2>4. writeptr' \in Offset /\ Apart'
    BY <2>1, <1>3, <1>4, <1>6, RingBufferAssumption DEF Offset, Apart, writeIn, right
  <2> QED  BY <2>3, <2>4 DEF RingInv, RingTypeOK, writeIn
<1> QED  BY <1>5, <1>6

LEMMA ReadOutInv ==
    ASSUME RingInv, NEW len \in 1 .. Capacity, readOut(len) PROVE RingInv'
<1> DEFINE readn == Least(len, size)
           right == Capacity - readptr
<1>1. /\ readptr \in 0 .. Capacity /\ writeptr \in 0 .. Capacity
      /\ readptr # writeptr
      /\ writeptr > readptr => size = writeptr - readptr
      /\ writeptr < readptr => size = Capacity - readptr + writeptr
      /\ writeptr = Capacity => readptr >= 1
  BY ArithmeticOfSpace, RingBufferAssumption DEF RingInv, RingTypeOK, Offset, readOut, isEmpty, Apart
<1>2. readn \in Nat /\ readn <= size /\ right \in Nat
  BY <1>1, RingBufferAssumption DEF Least
<1>3. CASE writeptr > readptr \/ readn <= right
  <2>1. out' = memcpyOut(readptr, readn) /\ readptr' = readptr + readn
    BY <1>3 DEF readOut
  <2>2. readptr + readn <= Capacity
    BY <1>1, <1>2, <1>3, RingBufferAssumption
  <2>3. out' \in Seq(Byte \cup {NoByte})
    BY <1>1, <1>2, <2>1, <2>2, MemcpyOutType DEF RingInv
  <2>4. readptr' \in Offset /\ Apart'
    BY <1>1, <1>2, <2>1, <2>2, RingBufferAssumption DEF readOut, Offset, Apart
  <2> QED  BY <2>3, <2>4 DEF RingInv, RingTypeOK, readOut
<1>4. CASE ~(writeptr > readptr \/ readn <= right)
  <2>1. /\ out' = memcpyOut(readptr, right) \o memcpyOut(0, readn - right)
        /\ readptr' = readn - right
    BY <1>4 DEF readOut
  <2>2. readptr + right <= Capacity /\ 0 + (readn - right) <= Capacity /\ readn - right \in Nat
    BY <1>1, <1>2, <1>4, RingBufferAssumption
  <2>3. memcpyOut(readptr, right) \in Seq(Byte \cup {NoByte})
    BY SMTT(20), <1>1, <1>2, <2>2, MemcpyOutType DEF RingInv
  <2>4. memcpyOut(0, readn - right) \in Seq(Byte \cup {NoByte})
    BY <1>1, <1>2, <2>2, MemcpyOutType DEF RingInv
  <2>5. out' \in Seq(Byte \cup {NoByte})
    BY <2>1, <2>3, <2>4
  <2>6. readptr' \in Offset /\ Apart'
    BY <1>1, <1>2, <1>4, <2>1, RingBufferAssumption DEF readOut, Offset, Apart
  <2> QED  BY <2>5, <2>6 DEF RingInv, RingTypeOK, readOut
<1> QED  BY <1>3, <1>4

LEMMA WriteInFromFileOnceInv ==
    ASSUME RingInv, NEW s, writeInFromFileOnce(s) PROVE RingInv'
<1> DEFINE asked == IF writeptr >= readptr THEN rightRoom ELSE space
<1>1. /\ readptr \in 0 .. Capacity /\ writeptr \in 0 .. Capacity
      /\ space \in 0 .. Capacity - 1
      /\ writeptr >= readptr => space = Capacity - (writeptr - readptr) - 1
      /\ writeptr < readptr => space = readptr - writeptr - 1
      /\ writeptr = Capacity => readptr >= 1
      /\ space # 0
  BY ArithmeticOfSpace DEF RingInv, RingTypeOK, Offset, Apart, writeInFromFileOnce, isFull
<1>2. asked \in Nat /\ writeptr + asked <= Capacity /\ (writeptr + asked = Capacity => readptr >= 1)
  BY <1>1, RingBufferAssumption DEF rightRoom
<1>3. PICK n \in 0 .. asked : s \in [1 .. n -> Byte]
  BY DEF writeInFromFileOnce, Reads
<1>4. n \in Nat /\ Len(s) = n /\ s \in Seq(Byte)
  BY <1>2, <1>3
<1>5. buffer' \in [0 .. Capacity - 1 -> Byte \cup {NoByte}]
  BY <1>1, <1>3, <1>4, MemcpyInType DEF writeInFromFileOnce, RingInv, RingTypeOK
<1>6. writeptr' \in Offset /\ Apart'
  BY <1>1, <1>2, <1>3, <1>4, RingBufferAssumption DEF writeInFromFileOnce, Offset, Apart
<1> QED  BY <1>5, <1>6 DEF RingInv, RingTypeOK, writeInFromFileOnce

LEMMA WriteInFromFileTwiceInv ==
    ASSUME RingInv, NEW s, NEW t, NEW ok \in BOOLEAN, writeInFromFileTwice(s, t, ok)
    PROVE  RingInv'
<1>1. /\ readptr \in 0 .. Capacity /\ writeptr \in 0 .. Capacity
      /\ readptr > 1 /\ Capacity - writeptr \in Nat
  BY RingBufferAssumption DEF RingInv, RingTypeOK, Offset, writeInFromFileTwice
<1>2. PICK n \in 0 .. readptr - 1 : t \in [1 .. n -> Byte]
  BY DEF writeInFromFileTwice, Reads
<1>3. n \in Nat /\ Len(t) = n /\ t \in Seq(Byte)
  BY <1>1, <1>2
<1>4. s \in Seq(Byte)
  BY <1>1 DEF writeInFromFileTwice
<1>5. memcpyIn(buffer, writeptr, s) \in [0 .. Capacity - 1 -> Byte \cup {NoByte}]
  BY <1>1, <1>4, MemcpyInType DEF RingInv, RingTypeOK
<1>6. buffer' \in [0 .. Capacity - 1 -> Byte \cup {NoByte}]
  BY <1>2, <1>3, <1>5, MemcpyInType DEF writeInFromFileTwice
<1>7. writeptr' \in Offset /\ Apart'
  BY <1>1, <1>2, <1>3, RingBufferAssumption DEF writeInFromFileTwice, Offset, Apart
<1> QED  BY <1>6, <1>7 DEF RingInv, RingTypeOK, writeInFromFileTwice

LEMMA ClearInv == ASSUME RingInv, clear PROVE RingInv'
BY RingBufferAssumption DEF RingInv, RingTypeOK, Apart, Offset, clear

\* Every step of the character operations keeps the offsets apart.
LEMMA NextRingInv == RingInv /\ [CharNext]_ringVars => RingInv'
<1> SUFFICES ASSUME RingInv, [CharNext]_ringVars PROVE RingInv'
  OBVIOUS
<1>1. CASE \E s \in Input : writeIn(s)
  BY <1>1, WriteInInv
<1>2. CASE \E len \in 1 .. Capacity : readOut(len)
  BY <1>2, ReadOutInv
<1>3. CASE \E s \in Reads(Capacity) : writeInFromFileOnce(s)
  BY <1>3, WriteInFromFileOnceInv
<1>4. CASE \E s \in Input, t \in Reads(Capacity), ok \in BOOLEAN : writeInFromFileTwice(s, t, ok)
  BY <1>4, WriteInFromFileTwiceInv
<1>5. CASE clear
  BY <1>5, ClearInv
<1>6. CASE UNCHANGED ringVars
  BY <1>6 DEF ringVars, RingInv, RingTypeOK, Apart
<1> QED  BY <1>1, <1>2, <1>3, <1>4, <1>5, <1>6 DEF CharNext

\* The inductive invariant gives the property of the reserved slot.
LEMMA RingInvImpliesSlotReserved == RingInv => SlotReserved
<1> SUFFICES ASSUME RingInv PROVE SlotReserved
  OBVIOUS
<1>1. /\ readptr \in 0 .. Capacity /\ writeptr \in 0 .. Capacity
      /\ space \in 0 .. Capacity - 1 /\ size = Capacity - 1 - space
      /\ writeptr >= readptr => space = Capacity - (writeptr - readptr) - 1
  BY ArithmeticOfSpace DEF RingInv, RingTypeOK, Offset
<1> QED  BY <1>1, RingBufferAssumption DEF SlotReserved, isFull, isEmpty

\* For every capacity, the character operations stay within the memory of the buffer:
\* both offsets within it or one past it, every byte read a byte of the memory.
THEOREM RingTypeCorrect == CharRing => []RingTypeOK
<1>1. RingInv => RingTypeOK
  BY DEF RingInv
<1> QED  BY <1>1, InitRingInv, NextRingInv, PTL DEF CharRing

\* For every capacity, one slot stays in reserve whatever sequence of writeIn, readOut,
\* writeInFromFile and clear runs: size() and space() never wrap below zero, and empty
\* and full are told apart.
THEOREM RingSlotReserved == CharRing => []SlotReserved
BY InitRingInv, NextRingInv, RingInvImpliesSlotReserved, PTL DEF CharRing

-----------------------------------------------------------------------------
(* The refinement of Fifo.  What the ring holds is a function of the memory  *)
(* and of the two offsets; the lemmas about it speak of values, so that they *)
(* apply before and after a step alike.                                      *)

Cell == Byte \cup {NoByte}
Memory == [0 .. Capacity - 1 -> Cell]

\* How many bytes lie between offset r, where they are read, and offset w, where they are
\* written; the slot of the i-th of them; and the bytes themselves.
Count(r, w) == IF w >= r THEN w - r ELSE Capacity - r + w
SlotOf(r, i) == IF r + i - 1 < Capacity THEN r + i - 1 ELSE r + i - 1 - Capacity
Held(mem, r, w) == [i \in 1 .. Count(r, w) |-> mem[SlotOf(r, i)]]

\* A pair of offsets the character operations reach.
Legal(r, w) == r \in Offset /\ w \in Offset /\ (w = Capacity => r >= 1)

\* One subtraction is all a remainder takes below twice the modulus.
LEMMA RemainderOnce ==
    ASSUME NEW a \in Nat, a < 2 * Capacity
    PROVE  a % Capacity = IF a < Capacity THEN a ELSE a - Capacity
BY RingBufferAssumption

LEMMA CountInRange ==
    ASSUME NEW r, NEW w, Legal(r, w)
    PROVE  /\ Count(r, w) \in 0 .. Capacity - 1
           /\ \A i \in 1 .. Count(r, w) : SlotOf(r, i) \in 0 .. Capacity - 1
BY RingBufferAssumption DEF Legal, Offset, Count, SlotOf

LEMMA ContentHeld ==
    ASSUME RingInv
    PROVE  Legal(readptr, writeptr) /\ size = Count(readptr, writeptr)
           /\ Content = Held(buffer, readptr, writeptr)
<1>1. Legal(readptr, writeptr)
  BY DEF RingInv, RingTypeOK, Apart, Legal
<1>2. size = Count(readptr, writeptr)
  BY ArithmeticOfSpace, RingBufferAssumption DEF RingInv, RingTypeOK, Apart, Offset, Count
<1>3. ASSUME NEW i \in 1 .. Count(readptr, writeptr)
      PROVE  (readptr + i - 1) % Capacity = SlotOf(readptr, i)
  <2>1. /\ readptr \in 0 .. Capacity /\ i \in Nat /\ i >= 1 /\ i <= Capacity - 1
    BY <1>1, CountInRange, RingBufferAssumption DEF Legal, Offset
  <2>2. readptr + i - 1 \in Nat /\ readptr + i - 1 < 2 * Capacity
    BY <2>1, RingBufferAssumption
  <2> DEFINE a == readptr + i - 1
  <2>3. a \in Nat /\ a < 2 * Capacity
    BY <2>2
  <2> HIDE DEF a
  <2>4. a % Capacity = IF a < Capacity THEN a ELSE a - Capacity
    BY <2>3, RemainderOnce
  <2> QED  BY <2>1, <2>4, RingBufferAssumption DEF SlotOf, a
<1> QED  BY <1>1, <1>2, <1>3 DEF Content, Held

LEMMA TableIsSeq ==
    ASSUME NEW S, NEW n \in Nat, NEW f \in [1 .. n -> S]
    PROVE  f \in Seq(S) /\ Len(f) = n
OBVIOUS

LEMMA PartOfSeq ==
    ASSUME NEW S, NEW s \in Seq(S), NEW a \in Nat, NEW b \in Nat, NEW n \in Nat,
           1 <= a, b <= Len(s), n = b - a + 1
    PROVE  /\ SubSeq(s, a, b) \in [1 .. n -> S]
           /\ SubSeq(s, a, b) \in Seq(S) /\ Len(SubSeq(s, a, b)) = n
           /\ \A i \in 1 .. n : SubSeq(s, a, b)[i] = s[a + i - 1]
<1>1. \A i \in a .. b : s[i] \in S
  OBVIOUS
<1>2. /\ SubSeq(s, a, b) \in Seq(S)
      /\ Len(SubSeq(s, a, b)) = IF a <= b THEN b - a + 1 ELSE 0
      /\ \A i \in 1 .. b - a + 1 : SubSeq(s, a, b)[i] = s[a + i - 1]
  BY <1>1, SubSeqProperties
<1>3. Len(SubSeq(s, a, b)) = n
  BY <1>2
<1>4. SubSeq(s, a, b) \in [1 .. n -> S]
  BY <1>2, <1>3, LenProperties
<1> QED  BY <1>2, <1>3, <1>4

\* A sequence is two others in a row if its entries are theirs.
LEMMA InARow ==
    ASSUME NEW S, NEW q \in Seq(S), NEW s \in Seq(S), NEW t \in Seq(S),
           Len(t) = Len(q) + Len(s),
           \A i \in 1 .. Len(q) : t[i] = q[i],
           \A i \in 1 .. Len(s) : t[Len(q) + i] = s[i]
    PROVE  t = q \o s
<1> DEFINE m == Len(q)
           n == Len(s)
<1>1. m \in Nat /\ n \in Nat
  OBVIOUS
<1>2. /\ q \o s \in Seq(S) /\ Len(q \o s) = m + n
      /\ \A i \in 1 .. m + n : (q \o s)[i] = IF i <= m THEN q[i] ELSE s[i - m]
  BY ConcatProperties
<1>3. ASSUME NEW i \in 1 .. m + n PROVE t[i] = (q \o s)[i]
  <2>1. CASE i <= m
    BY <1>1, <1>2, <2>1
  <2>2. CASE i > m
    <3>1. i - m \in 1 .. n /\ m + (i - m) = i /\ ~(i <= m)
      BY <1>1, <2>2
    <3>2. t[m + (i - m)] = s[i - m]
      BY <3>1
    <3> QED  BY <1>2, <3>1, <3>2
  <2> QED  BY <1>1, <2>1, <2>2
<1> QED  BY <1>2, <1>3, SeqEqual

\* Bytes copied to where the writer stands, not past the end of the memory nor onto bytes
\* held, come behind the others.
LEMMA PutBehind ==
    ASSUME RingInv,
           NEW n \in Nat, NEW s \in [1 .. n -> Byte],
           writeptr + n <= Capacity, Count(readptr, writeptr) + n <= Capacity - 1
    PROVE  Held(memcpyIn(buffer, writeptr, s), readptr, writeptr + n) = Held(buffer, readptr, writeptr) \o s
<1> DEFINE c == Count(readptr, writeptr)
           new == memcpyIn(buffer, writeptr, s)
<1>00. Legal(readptr, writeptr) /\ buffer \in Memory
  BY ContentHeld DEF RingInv, RingTypeOK, Memory, Cell
<1>0. readptr \in 0 .. Capacity /\ writeptr \in 0 .. Capacity /\ Len(s) = n /\ s \in Seq(Byte)
  BY <1>00 DEF Legal, Offset
<1>1. c \in Nat /\ c + n <= Capacity - 1 /\ Count(readptr, writeptr + n) = c + n /\ Legal(readptr, writeptr + n)
  BY <1>0, CountInRange, RingBufferAssumption DEF Count, Legal, Offset
<1>2. ASSUME NEW i \in 1 .. c
      PROVE  SlotOf(readptr, i) \in 0 .. Capacity - 1 /\ ~(writeptr <= SlotOf(readptr, i) /\ SlotOf(readptr, i) < writeptr + n)
  BY <1>0, <1>1, RingBufferAssumption DEF SlotOf, Count
<1>3. ASSUME NEW i \in 1 .. n
      PROVE  SlotOf(readptr, c + i) = writeptr + i - 1 /\ writeptr + i - 1 \in 0 .. Capacity - 1
  BY <1>0, <1>1, RingBufferAssumption DEF SlotOf, Count
<1>4. new \in [0 .. Capacity - 1 -> Cell]
  BY <1>00, <1>0, MemcpyInType DEF Memory, Cell, Offset
<1> HIDE DEF c
<1>5. ASSUME NEW i \in 1 .. c PROVE new[SlotOf(readptr, i)] = buffer[SlotOf(readptr, i)]
  BY <1>0, <1>2 DEF memcpyIn
<1>6. ASSUME NEW i \in 1 .. n PROVE new[SlotOf(readptr, c + i)] = s[i]
  <2>1. new[writeptr + i - 1] = s[writeptr + i - 1 - writeptr + 1]
    BY <1>0, <1>3 DEF memcpyIn
  <2> QED  BY <1>0, <1>3, <2>1
<1> HIDE DEF new
<1> DEFINE before == Held(buffer, readptr, writeptr)
           after == Held(new, readptr, writeptr + n)
<1>7. before \in [1 .. c -> Cell] /\ s \in [1 .. n -> Cell]
  BY <1>00, <1>2 DEF Held, c, Memory, Cell
<1>8. after \in [1 .. c + n -> Cell]
  BY <1>1, <1>4, CountInRange DEF Held
<1>9. \A i \in 1 .. c : after[i] = before[i]
  BY <1>1, <1>5 DEF Held, c
<1>10. \A i \in 1 .. n : after[c + i] = s[i]
  BY <1>1, <1>6 DEF Held
<1> HIDE DEF before, after
<1>11. /\ before \in Seq(Cell) /\ Len(before) = c /\ s \in Seq(Cell) /\ Len(s) = n
       /\ after \in Seq(Cell) /\ Len(after) = c + n
  BY <1>1, <1>7, <1>8
<1>12. after = before \o s
  BY <1>9, <1>10, <1>11, InARow
<1> QED  BY <1>12 DEF before, after, new

\* Bytes that wrap: a part up to the end of the memory and a part at its beginning, which
\* stops short of the reader.
LEMMA PutAround ==
    ASSUME RingInv, writeptr >= readptr,
           NEW n \in Nat, NEW k \in Nat, n = Capacity - writeptr, k < readptr,
           NEW s \in [1 .. n -> Byte], NEW u \in [1 .. k -> Byte]
    PROVE  Held(memcpyIn(memcpyIn(buffer, writeptr, s), 0, u), readptr, k) = Held(buffer, readptr, writeptr) \o (s \o u)
<1> DEFINE c == Count(readptr, writeptr)
           half == memcpyIn(buffer, writeptr, s)
           new == memcpyIn(half, 0, u)
           both == s \o u
<1>00. Legal(readptr, writeptr) /\ buffer \in Memory
  BY ContentHeld DEF RingInv, RingTypeOK, Memory, Cell
<1>0. /\ readptr \in 0 .. Capacity /\ writeptr \in 0 .. Capacity /\ writeptr + n = Capacity
      /\ Len(s) = n /\ s \in Seq(Byte) /\ Len(u) = k /\ u \in Seq(Byte) /\ writeptr \in Nat
  BY <1>00, RingBufferAssumption DEF Legal, Offset
<1>1. c \in Nat /\ c = writeptr - readptr /\ Count(readptr, k) = c + (n + k) /\ Legal(readptr, k)
  BY <1>0, RingBufferAssumption DEF Count, Legal, Offset
<1>2. half \in [0 .. Capacity - 1 -> Cell]
  BY <1>00, <1>0, MemcpyInType DEF Memory, Cell, Offset
<1> HIDE DEF half
<1>3. new \in [0 .. Capacity - 1 -> Cell]
  BY <1>0, <1>2, MemcpyInType DEF Cell
<1>4. /\ both \in Seq(Byte) /\ Len(both) = n + k
      /\ \A i \in 1 .. n + k : both[i] = IF i <= n THEN s[i] ELSE u[i - n]
  <2>1. s \in Seq(Byte) /\ u \in Seq(Byte)
    BY <1>0
  <2>2. /\ both \in Seq(Byte) /\ Len(both) = Len(s) + Len(u)
        /\ \A i \in 1 .. Len(s) + Len(u) : both[i] = IF i <= Len(s) THEN s[i] ELSE u[i - Len(s)]
    BY <2>1, ConcatProperties, Zenon
  <2>3. Len(s) = n /\ Len(u) = k
    BY <1>0
  <2> QED  BY <2>2, <2>3, Zenon
<1> HIDE DEF c, both
<1>5. ASSUME NEW i \in 1 .. c PROVE new[SlotOf(readptr, i)] = buffer[SlotOf(readptr, i)]
  <2>1. SlotOf(readptr, i) = readptr + i - 1 /\ readptr + i - 1 \in 0 .. Capacity - 1 /\ readptr + i - 1 >= k /\ readptr + i - 1 < writeptr
    BY <1>0, <1>1, RingBufferAssumption DEF SlotOf
  <2>2. new[readptr + i - 1] = half[readptr + i - 1]
    BY <1>0, <2>1 DEF memcpyIn
  <2>3. half[readptr + i - 1] = buffer[readptr + i - 1]
    BY <1>0, <2>1 DEF memcpyIn, half
  <2> QED  BY <2>1, <2>2, <2>3
<1>6. ASSUME NEW i \in 1 .. n + k PROVE new[SlotOf(readptr, c + i)] = both[i]
  <2>1. CASE i <= n
    <3>1. SlotOf(readptr, c + i) = writeptr + i - 1 /\ writeptr + i - 1 \in 0 .. Capacity - 1 /\ writeptr + i - 1 >= k
      BY <1>0, <1>1, <2>1, RingBufferAssumption DEF SlotOf
    <3>2. new[writeptr + i - 1] = half[writeptr + i - 1]
      BY <1>0, <3>1 DEF memcpyIn
    <3>3. half[writeptr + i - 1] = s[writeptr + i - 1 - writeptr + 1]
      BY <1>0, <2>1, <3>1 DEF memcpyIn, half
    <3>4. writeptr + i - 1 - writeptr + 1 = i
      BY <1>0
    <3> QED  BY <1>4, <2>1, <3>1, <3>2, <3>3, <3>4
  <2>2. CASE ~(i <= n)
    <3>1. SlotOf(readptr, c + i) = i - n - 1 /\ i - n - 1 \in 0 .. Capacity - 1 /\ i - n - 1 < k
      BY <1>0, <1>1, <2>2, RingBufferAssumption DEF SlotOf
    <3>2. new[i - n - 1] = u[i - n - 1 - 0 + 1]
      BY <1>0, <3>1 DEF memcpyIn
    <3>3. i - n - 1 - 0 + 1 = i - n
      OBVIOUS
    <3> QED  BY <1>4, <2>2, <3>1, <3>2, <3>3
  <2> QED  BY <2>1, <2>2
<1> HIDE DEF new
<1> DEFINE before == Held(buffer, readptr, writeptr)
           after == Held(new, readptr, k)
           m == n + k
<1>7. before \in [1 .. c -> Cell]
  BY <1>00, CountInRange DEF Held, c, Memory
<1>8. m \in Nat /\ both \in [1 .. m -> Cell]
  BY <1>4 DEF Cell
<1>9. after \in [1 .. c + m -> Cell]
  BY <1>1, <1>3, CountInRange DEF Held
<1>10. \A i \in 1 .. c : after[i] = before[i]
  BY <1>1, <1>5 DEF Held, c
<1>11. \A i \in 1 .. m : after[c + i] = both[i]
  BY <1>1, <1>6 DEF Held
<1> HIDE DEF before, after, m
<1>12. /\ before \in Seq(Cell) /\ Len(before) = c /\ both \in Seq(Cell) /\ Len(both) = m
       /\ after \in Seq(Cell) /\ Len(after) = c + m
  <2> DEFINE l == c + m
  <2>1. l \in Nat /\ after \in [1 .. l -> Cell]
    BY <1>1, <1>8, <1>9
  <2> HIDE DEF l
  <2>2. after \in Seq(Cell) /\ Len(after) = l
    BY <2>1, TableIsSeq
  <2>3. before \in Seq(Cell) /\ Len(before) = c
    BY <1>1, <1>7, TableIsSeq
  <2>4. both \in Seq(Cell) /\ Len(both) = m
    BY <1>8, TableIsSeq
  <2> QED  BY <2>2, <2>3, <2>4 DEF l
<1>13. after = before \o both
  BY <1>10, <1>11, <1>12, InARow
<1> QED  BY <1>13 DEF before, after, new, half, both

\* A reader that moves by n takes the oldest n bytes and leaves the others, whether or not
\* it passes the end of the memory.
LEMMA GetOldest ==
    ASSUME RingInv, NEW n \in Nat, n <= Count(readptr, writeptr),
           NEW r2,
           \/ r2 = readptr + n /\ r2 <= Capacity
           \/ r2 = readptr + n - Capacity /\ r2 > 0
    PROVE  Held(buffer, r2, writeptr) = SubSeq(Held(buffer, readptr, writeptr), n + 1, Count(readptr, writeptr))
           /\ Legal(r2, writeptr)
<1> DEFINE c == Count(readptr, writeptr)
           q == Held(buffer, readptr, writeptr)
           rest == SubSeq(q, n + 1, c)
           after == Held(buffer, r2, writeptr)
<1>00. Legal(readptr, writeptr) /\ buffer \in Memory
  BY ContentHeld DEF RingInv, RingTypeOK, Memory, Cell
<1>0. readptr \in 0 .. Capacity /\ writeptr \in 0 .. Capacity /\ c \in Nat /\ c <= Capacity - 1
  BY <1>00, CountInRange, RingBufferAssumption DEF Legal, Offset
<1>1. r2 \in 0 .. Capacity /\ Count(r2, writeptr) = c - n /\ Legal(r2, writeptr) /\ c - n \in Nat
  BY <1>0, RingBufferAssumption DEF Count, Legal, Offset
<1>2. \A i \in 1 .. c - n : SlotOf(r2, i) = SlotOf(readptr, n + i)
  BY <1>0, <1>1, RingBufferAssumption DEF SlotOf, Count
<1>3. q \in [1 .. c -> Cell]
  BY <1>00, CountInRange DEF Held, Memory
<1>4. after \in [1 .. c - n -> Cell]
  BY <1>00, <1>1, CountInRange DEF Held, Memory
<1>5. \A i \in 1 .. c - n : after[i] = q[n + i]
  BY <1>0, <1>1, <1>2 DEF Held
<1> HIDE DEF c, q, after
<1>6. /\ rest \in Seq(Cell) /\ Len(rest) = c - n
      /\ \A i \in 1 .. c - n : rest[i] = q[n + 1 + i - 1]
  <2> DEFINE a == n + 1
  <2>1. a \in Int /\ c \in Int /\ (\A i \in a .. c : q[i] \in Cell) /\ c - a + 1 = c - n
    BY <1>0, <1>3
  <2> HIDE DEF a
  <2>2. /\ SubSeq(q, a, c) \in Seq(Cell)
        /\ Len(SubSeq(q, a, c)) = IF a <= c THEN c - a + 1 ELSE 0
        /\ \A i \in 1 .. c - a + 1 : SubSeq(q, a, c)[i] = q[a + i - 1]
    BY <2>1, SubSeqProperties
  <2> QED  BY <1>0, <1>1, <2>1, <2>2 DEF a
<1>7. \A i \in 1 .. c - n : rest[i] = after[i]
  <2> SUFFICES ASSUME NEW i \in 1 .. c - n PROVE rest[i] = after[i]
    OBVIOUS
  <2>1. n + 1 + i - 1 = n + i
    OBVIOUS
  <2> QED  BY <1>5, <1>6, <2>1
<1>8. after \in Seq(Cell) /\ Len(after) = c - n
  BY <1>1, <1>4
<1> HIDE DEF rest
<1>9. after = rest
  BY <1>6, <1>7, <1>8, SeqEqual
<1> QED  BY <1>1, <1>9 DEF after, rest, q, c

LEMMA ContentIs == RingInv => Content = Held(buffer, readptr, writeptr)
BY ContentHeld
LEMMA ContentNext ==
    ASSUME RingInv' PROVE Content' = Held(buffer', readptr', writeptr')
<1>1. (RingInv => Content = Held(buffer, readptr, writeptr))'
  BY ContentIs, PTL
<1> QED  BY <1>1

\* What a state that satisfies the invariant has to offer to the steps of Fifo.
LEMMA ContentFacts ==
    ASSUME RingInv
    PROVE  /\ Legal(readptr, writeptr) /\ buffer \in Memory
           /\ Count(readptr, writeptr) \in 0 .. Capacity - 1
           /\ space = Capacity - 1 - Count(readptr, writeptr)
           /\ size = Count(readptr, writeptr)
           /\ Content = Held(buffer, readptr, writeptr)
           /\ Content \in Seq(Cell) /\ Len(Content) = Count(readptr, writeptr)
<1> DEFINE c == Count(readptr, writeptr)
<1>1. /\ Legal(readptr, writeptr) /\ buffer \in Memory /\ size = c
      /\ Content = Held(buffer, readptr, writeptr)
  BY ContentHeld DEF RingInv, RingTypeOK, Memory, Cell
<1>2. c \in 0 .. Capacity - 1
  BY <1>1, CountInRange
<1>3. space = Capacity - 1 - c
  BY <1>1, <1>2, ArithmeticOfSpace, RingBufferAssumption DEF RingInv, RingTypeOK
<1>4. Held(buffer, readptr, writeptr) \in [1 .. c -> Cell]
  BY <1>1, CountInRange DEF Held, Memory
<1>5. c \in Nat
  BY <1>2
<1> HIDE DEF c
<1>6. Content \in Seq(Cell) /\ Len(Content) = c
  BY <1>1, <1>4, <1>5, TableIsSeq
<1> QED  BY <1>1, <1>2, <1>3, <1>6 DEF c

\* A step that adds the n bytes u behind the others is a Put, or moves nothing if n is 0.
LEMMA PutStep ==
    ASSUME RingInv, NEW n \in Nat, NEW u \in [1 .. n -> Byte],
           Count(readptr, writeptr) + n <= Capacity - 1,
           Content' = Content \o u, out' = <<>>
    PROVE  Queue!FifoNext
<1>1. CASE n = 0
  <2>1. u \in Seq(Cell) /\ Len(u) = 0
    BY <1>1 DEF Cell
  <2>2. u = <<>>
    BY <2>1
  <2>3. Content' = Content
    BY <2>2, ContentFacts
  <2> QED  BY <2>3 DEF Queue!FifoNext, Queue!Nothing
<1>2. CASE n > 0
  <2>1. n \in 1 .. Capacity - 1 - Len(Content)
    BY <1>2, ContentFacts, RingBufferAssumption
  <2> QED  BY <2>1 DEF Queue!FifoNext, Queue!Put
<1> QED  BY <1>1, <1>2

LEMMA WriteInPuts ==
    ASSUME RingInv, NEW s \in Input, writeIn(s) PROVE Queue!FifoNext
<1> DEFINE len == Least(Len(s), space)
           right == Capacity - writeptr
           c == Count(readptr, writeptr)
           u == SubSeq(s, 1, len)
<1>1. PICK m \in 1 .. Capacity : s \in [1 .. m -> Byte]
  BY DEF Input
<1>2. s \in Seq(Byte) /\ Len(s) = m /\ m \in Nat
  BY <1>1, RingBufferAssumption
<1>3. /\ readptr \in 0 .. Capacity /\ writeptr \in 0 .. Capacity
      /\ c \in Nat /\ space = Capacity - 1 - c /\ space \in Nat
      /\ Legal(readptr, writeptr) /\ buffer \in Memory
      /\ Content = Held(buffer, readptr, writeptr)
  BY ContentFacts, RingBufferAssumption DEF Legal, Offset
<1>4. len \in Nat /\ len <= m /\ len <= space /\ right \in Nat
  BY <1>2, <1>3, RingBufferAssumption DEF Least
<1>5. Content' = Held(buffer', readptr', writeptr') /\ readptr' = readptr /\ out' = <<>>
  BY WriteInInv, ContentNext DEF writeIn
<1> HIDE DEF len, right, c
<1>6. /\ u \in [1 .. len -> Byte] /\ u \in Seq(Byte) /\ Len(u) = len
      /\ \A i \in 1 .. len : u[i] = s[1 + i - 1]
  <2>1. len = len - 1 + 1 /\ 1 \in Nat /\ 1 <= 1 /\ len <= Len(s)
    BY <1>2, <1>4
  <2> QED  BY <1>2, <1>4, <2>1, PartOfSeq
<1>7. c + len <= Capacity - 1
  BY <1>3, <1>4, RingBufferAssumption
<1>8. CASE writeptr >= readptr /\ len > right
  <2> DEFINE v == SubSeq(s, 1, right)
             w == SubSeq(s, right + 1, len)
             k == len - right
  <2>1. /\ buffer' = memcpyIn(memcpyIn(buffer, writeptr, v), 0, w) /\ writeptr' = k
    BY <1>8 DEF writeIn, len, right
  <2>2. /\ v \in [1 .. right -> Byte] /\ v \in Seq(Byte) /\ Len(v) = right
        /\ \A i \in 1 .. right : v[i] = s[1 + i - 1]
    <3>1. right = right - 1 + 1 /\ 1 \in Nat /\ 1 <= 1 /\ right <= Len(s)
      BY <1>2, <1>4, <1>8
    <3> QED  BY <1>2, <1>4, <3>1, PartOfSeq
  <2>3. k \in Nat
    BY <1>4, <1>8
  <2>4. /\ w \in [1 .. k -> Byte] /\ w \in Seq(Byte) /\ Len(w) = k
        /\ \A i \in 1 .. k : w[i] = s[right + 1 + i - 1]
    <3> DEFINE a == right + 1
    <3>1. k = len - a + 1 /\ a \in Nat /\ 1 <= a /\ len <= Len(s)
      BY <1>2, <1>4
    <3> HIDE DEF a, k
    <3>2. /\ SubSeq(s, a, len) \in [1 .. k -> Byte] /\ SubSeq(s, a, len) \in Seq(Byte)
          /\ Len(SubSeq(s, a, len)) = k
          /\ \A i \in 1 .. k : SubSeq(s, a, len)[i] = s[a + i - 1]
      BY <1>2, <1>4, <2>3, <3>1, PartOfSeq
    <3> QED  BY <3>2 DEF a
  <2>5. k < readptr
    BY <1>3, <1>4, <1>7, <1>8, RingBufferAssumption DEF right, c, Count
  <2>7. Len(u) = Len(v) + Len(w)
    BY <1>4, <1>6, <2>2, <2>4
  <2>8. /\ \A i \in 1 .. Len(v) : u[i] = v[i]
        /\ \A i \in 1 .. Len(w) : u[Len(v) + i] = w[i]
    <3>1. ASSUME NEW i \in 1 .. right PROVE u[i] = v[i]
      <4>1. i \in 1 .. len
        BY <1>4, <1>8
      <4> QED  BY <1>6, <2>2, <4>1
    <3>2. ASSUME NEW i \in 1 .. k PROVE u[right + i] = w[i]
      <4>1. right + i \in 1 .. len /\ 1 + (right + i) - 1 = right + 1 + i - 1
        BY <1>4, <1>8
      <4> QED  BY <1>6, <2>4, <4>1
    <3> QED  BY <2>2, <2>4, <3>1, <3>2
  <2> HIDE DEF u, v, w, k
  <2>9. u = v \o w
    BY <1>6, <2>2, <2>4, <2>7, <2>8, InARow
  <2>10. Held(memcpyIn(memcpyIn(buffer, writeptr, v), 0, w), readptr, k)
           = Held(buffer, readptr, writeptr) \o (v \o w)
    <3>1. right = Capacity - writeptr /\ writeptr >= readptr
      BY <1>8 DEF right
    <3>2. /\ Legal(readptr, writeptr) /\ buffer \in Memory /\ right \in Nat
          /\ v \in [1 .. right -> Byte] /\ w \in [1 .. k -> Byte]
      BY <1>3, <1>4, <2>2, <2>4
    <3> QED  BY <2>3, <2>5, <3>1, <3>2, PutAround, Zenon
  <2>11. Content' = Content \o u
    BY <1>3, <1>5, <2>1, <2>9, <2>10
  <2> QED  BY <1>4, <1>5, <1>6, <1>7, <2>11, PutStep DEF c
<1>9. CASE ~(writeptr >= readptr /\ len > right)
  <2>1. buffer' = memcpyIn(buffer, writeptr, u) /\ writeptr' = writeptr + len
    BY <1>9 DEF writeIn, len, right
  <2>2. writeptr + len <= Capacity
    BY <1>3, <1>4, <1>9, RingBufferAssumption DEF right, c, Count
  <2> HIDE DEF u
  <2>3. Held(memcpyIn(buffer, writeptr, u), readptr, writeptr + len)
          = Held(buffer, readptr, writeptr) \o u
    <3>1. Count(readptr, writeptr) + len <= Capacity - 1
      BY <1>7 DEF c
    <3>2. /\ Legal(readptr, writeptr) /\ buffer \in Memory /\ len \in Nat
          /\ u \in [1 .. len -> Byte]
      BY <1>3, <1>4, <1>6
    <3> QED  BY <2>2, <3>1, <3>2, PutBehind, Zenon
  <2>4. Content' = Content \o u
    BY <1>3, <1>5, <2>1, <2>3
  <2> QED  BY <1>4, <1>5, <1>6, <1>7, <2>4, PutStep DEF c
<1> QED  BY <1>8, <1>9

LEMMA WriteInFromFileOncePuts ==
    ASSUME RingInv, NEW s, writeInFromFileOnce(s) PROVE Queue!FifoNext
<1> DEFINE asked == IF writeptr >= readptr THEN rightRoom ELSE space
           c == Count(readptr, writeptr)
<1>1. /\ readptr \in 0 .. Capacity /\ writeptr \in 0 .. Capacity
      /\ c \in Nat /\ space = Capacity - 1 - c /\ space \in Nat
      /\ Legal(readptr, writeptr) /\ Content = Held(buffer, readptr, writeptr)
  BY ContentFacts, RingBufferAssumption DEF Legal, Offset
<1>2. asked \in Nat /\ writeptr + asked <= Capacity /\ c + asked <= Capacity - 1
  BY <1>1, RingBufferAssumption DEF rightRoom, Count, Legal
<1>3. PICK n \in 0 .. asked : s \in [1 .. n -> Byte]
  BY DEF writeInFromFileOnce, Reads
<1>4. /\ n \in Nat /\ Len(s) = n
      /\ writeptr + n <= Capacity /\ Count(readptr, writeptr) + n <= Capacity - 1
  BY <1>1, <1>2, <1>3, RingBufferAssumption
<1>5. /\ buffer' = memcpyIn(buffer, writeptr, s) /\ writeptr' = writeptr + n
      /\ readptr' = readptr /\ out' = <<>>
  BY <1>4 DEF writeInFromFileOnce
<1>6. Held(memcpyIn(buffer, writeptr, s), readptr, writeptr + n)
        = Held(buffer, readptr, writeptr) \o s
  BY <1>3, <1>4, PutBehind
<1>7. Content' = Content \o s
  BY <1>1, <1>5, <1>6, WriteInFromFileOnceInv, ContentNext
<1> QED  BY <1>3, <1>4, <1>5, <1>7, PutStep

LEMMA WriteInFromFileTwicePuts ==
    ASSUME RingInv, NEW s, NEW t, NEW ok \in BOOLEAN, writeInFromFileTwice(s, t, ok)
    PROVE  Queue!FifoNext
<1> DEFINE n == Capacity - writeptr
<1>1. /\ readptr \in 0 .. Capacity /\ writeptr \in 0 .. Capacity
      /\ readptr > 1 /\ writeptr >= readptr /\ n \in Nat
      /\ Legal(readptr, writeptr) /\ Content = Held(buffer, readptr, writeptr)
  BY ContentFacts, RingBufferAssumption DEF Legal, Offset, writeInFromFileTwice
<1>2. PICK k \in 0 .. readptr - 1 : t \in [1 .. k -> Byte]
  BY DEF writeInFromFileTwice, Reads
<1>3. k \in Nat /\ k < readptr /\ Len(t) = k /\ t \in Seq(Byte)
  BY <1>1, <1>2
<1>4. s \in [1 .. n -> Byte] /\ s \in Seq(Byte) /\ Len(s) = n
  BY <1>1 DEF writeInFromFileTwice
<1>5. /\ buffer' = memcpyIn(memcpyIn(buffer, writeptr, s), 0, t)
      /\ writeptr' = IF ok THEN k ELSE Capacity
      /\ readptr' = readptr /\ out' = <<>>
      /\ Content' = Held(buffer', readptr', writeptr')
  BY <1>3, WriteInFromFileTwiceInv, ContentNext DEF writeInFromFileTwice
<1>6. n = Capacity - writeptr /\ writeptr + n = Capacity
  BY <1>1, RingBufferAssumption
<1>7. Count(readptr, writeptr) + n + k <= Capacity - 1
  BY <1>1, <1>3, <1>6, RingBufferAssumption DEF Count
<1> HIDE DEF n
<1>8. CASE ok
  <2> DEFINE m == n + k
             u == s \o t
  <2>1. Content' = Content \o (s \o t)
    <3>1. Held(memcpyIn(memcpyIn(buffer, writeptr, s), 0, t), readptr, k)
            = Held(buffer, readptr, writeptr) \o (s \o t)
      BY <1>1, <1>2, <1>3, <1>4, <1>6, PutAround
    <3> QED  BY <1>1, <1>5, <1>8, <3>1
  <2>2. u \in Seq(Byte) /\ Len(u) = Len(s) + Len(t)
    BY <1>3, <1>4, ConcatProperties
  <2>3. m \in Nat /\ Len(s) + Len(t) = m /\ Count(readptr, writeptr) + m <= Capacity - 1
    BY <1>1, <1>3, <1>4, <1>7, ContentFacts, RingBufferAssumption
  <2>4. Content' = Content \o u /\ Len(u) = m
    BY <2>1, <2>2, <2>3
  <2> HIDE DEF m, u
  <2>5. u \in [1 .. m -> Byte]
    BY <2>2, <2>4, LenProperties
  <2> QED  BY <1>5, <2>3, <2>4, <2>5, PutStep
<1>9. CASE ~ok
  <2>1. t = <<>>
    BY <1>9 DEF writeInFromFileTwice
  <2>2. memcpyIn(buffer, writeptr, s) \in [0 .. Capacity - 1 -> Cell]
    BY <1>1, <1>4, MemcpyInType DEF RingInv, RingTypeOK, Cell
  <2>3. buffer' = memcpyIn(buffer, writeptr, s)
    <3> DEFINE half == memcpyIn(buffer, writeptr, s)
    <3>1. \A i \in 0 .. Capacity - 1 : ~(0 <= i /\ i < 0 + Len(t))
      BY <2>1
    <3>2. half \in [0 .. Capacity - 1 -> Cell]
      BY <2>2
    <3> HIDE DEF half
    <3>3. memcpyIn(half, 0, t) = half
      BY <3>1, <3>2 DEF memcpyIn
    <3> QED  BY <1>5, <3>3 DEF half
  <2>4. Count(readptr, writeptr) + n <= Capacity - 1
    BY <1>1, <1>3, <1>7, ContentFacts, RingBufferAssumption
  <2>5. Held(memcpyIn(buffer, writeptr, s), readptr, writeptr + n)
          = Held(buffer, readptr, writeptr) \o s
    <3>1. n \in Nat /\ writeptr + n <= Capacity
      BY <1>1, <1>6, RingBufferAssumption
    <3> QED  BY <1>4, <2>4, <3>1, PutBehind
  <2>6. Content' = Content \o s
    <3>1. readptr' = readptr /\ writeptr' = writeptr + n
      BY <1>5, <1>6, <1>9
    <3> QED  BY <1>1, <1>5, <2>3, <2>5, <3>1
  <2> QED  BY <1>1, <1>4, <1>5, <2>4, <2>6, PutStep
<1> QED  BY <1>8, <1>9

\* The bytes a read copies out are the oldest ones, in one piece or in two.
LEMMA CopiedAhead ==
    ASSUME RingInv, NEW n \in Nat, n <= Count(readptr, writeptr), readptr + n <= Capacity
    PROVE  memcpyOut(readptr, n) = SubSeq(Content, 1, n)
<1>1. /\ readptr \in 0 .. Capacity /\ n <= Len(Content) /\ Content \in Seq(Cell)
      /\ buffer \in Memory /\ Content = Held(buffer, readptr, writeptr)
      /\ Count(readptr, writeptr) \in Nat
  BY ContentFacts DEF Legal, Offset
<1>2. n = n - 1 + 1 /\ 1 \in Nat /\ 1 <= 1
  OBVIOUS
<1>3. /\ SubSeq(Content, 1, n) \in Seq(Cell) /\ Len(SubSeq(Content, 1, n)) = n
      /\ \A i \in 1 .. n : SubSeq(Content, 1, n)[i] = Content[1 + i - 1]
  BY <1>1, <1>2, PartOfSeq
<1>4. memcpyOut(readptr, n) \in [1 .. n -> Cell]
  BY <1>1, RingBufferAssumption DEF memcpyOut, Memory
<1>5. memcpyOut(readptr, n) \in Seq(Cell) /\ Len(memcpyOut(readptr, n)) = n
  BY <1>4, TableIsSeq
<1>6. ASSUME NEW i \in 1 .. n PROVE memcpyOut(readptr, n)[i] = SubSeq(Content, 1, n)[i]
  <2>1. 1 + i - 1 = i /\ i \in 1 .. Count(readptr, writeptr) /\ SlotOf(readptr, i) = readptr + i - 1
    BY <1>1, RingBufferAssumption DEF SlotOf
  <2> QED  BY <1>1, <1>3, <2>1 DEF memcpyOut, Held
<1> QED  BY <1>3, <1>5, <1>6, SeqEqual

LEMMA CopiedAround ==
    ASSUME RingInv, NEW n \in Nat, n <= Count(readptr, writeptr),
           NEW right \in Nat, right = Capacity - readptr, right < n
    PROVE  memcpyOut(readptr, right) \o memcpyOut(0, n - right) = SubSeq(Content, 1, n)
<1> DEFINE first == memcpyOut(readptr, right)
           second == memcpyOut(0, n - right)
           all == SubSeq(Content, 1, n)
           k == n - right
<1>1. /\ readptr \in 0 .. Capacity /\ n <= Len(Content) /\ Content \in Seq(Cell)
      /\ buffer \in Memory /\ Content = Held(buffer, readptr, writeptr)
      /\ Count(readptr, writeptr) \in Nat /\ Count(readptr, writeptr) <= Capacity - 1
  BY ContentFacts DEF Legal, Offset
<1>2. n = n - 1 + 1 /\ 1 \in Nat /\ 1 <= 1
  OBVIOUS
<1>3. /\ all \in Seq(Cell) /\ Len(all) = n
      /\ \A i \in 1 .. n : all[i] = Content[1 + i - 1]
  BY <1>1, <1>2, PartOfSeq
<1>4. first \in [1 .. right -> Cell]
  BY <1>1, RingBufferAssumption DEF memcpyOut, Memory
<1>5. k \in Nat /\ second \in [1 .. k -> Cell]
  <2>1. \A i \in 1 .. k : 0 + i - 1 \in 0 .. Capacity - 1
    BY <1>1, RingBufferAssumption
  <2> QED  BY <1>1, <2>1 DEF memcpyOut, Memory
<1> HIDE DEF all
<1>6. ASSUME NEW i \in 1 .. right PROVE all[i] = first[i]
  <2>1. /\ i \in 1 .. n /\ 1 + i - 1 = i /\ i \in 1 .. Count(readptr, writeptr)
        /\ SlotOf(readptr, i) = readptr + i - 1
    BY <1>1, RingBufferAssumption DEF SlotOf
  <2> QED  BY <1>1, <1>3, <2>1 DEF memcpyOut, Held
<1>7. ASSUME NEW i \in 1 .. k PROVE all[right + i] = second[i]
  <2>1. /\ right + i \in 1 .. n /\ 1 + (right + i) - 1 = right + i
        /\ right + i \in 1 .. Count(readptr, writeptr)
        /\ SlotOf(readptr, right + i) = 0 + i - 1
    BY <1>1, RingBufferAssumption DEF SlotOf
  <2>2. all[right + i] = Content[right + i]
    BY <1>3, <2>1
  <2>3. Content[right + i] = buffer[0 + i - 1]
    BY <1>1, <2>1 DEF Held
  <2> QED  BY <2>2, <2>3 DEF memcpyOut
<1> HIDE DEF first, second, k
<1>8. /\ first \in Seq(Cell) /\ Len(first) = right /\ second \in Seq(Cell) /\ Len(second) = k
  BY <1>4, <1>5, TableIsSeq
<1>9. /\ Len(all) = Len(first) + Len(second)
      /\ \A i \in 1 .. Len(first) : all[i] = first[i]
      /\ \A i \in 1 .. Len(second) : all[Len(first) + i] = second[i]
  <2>1. right + k = n
    BY DEF k
  <2> QED  BY <1>3, <1>6, <1>7, <1>8, <2>1
<1>10. all = first \o second
  BY <1>3, <1>8, <1>9, InARow
<1> QED  BY <1>10 DEF all, first, second

\* readOut delivers the oldest bytes, or nothing when the pointers stand at the two ends of
\* an empty buffer.
LEMMA ReadOutGets ==
    ASSUME RingInv, NEW len \in 1 .. Capacity, readOut(len) PROVE Queue!FifoNext
<1> DEFINE n == Least(len, size)
           right == Capacity - readptr
           c == Count(readptr, writeptr)
<1>1. /\ readptr \in 0 .. Capacity /\ writeptr \in 0 .. Capacity /\ right \in Nat
      /\ c \in Nat /\ size = c /\ buffer \in Memory
      /\ Content = Held(buffer, readptr, writeptr) /\ Len(Content) = c /\ Content \in Seq(Cell)
  BY ContentFacts, RingBufferAssumption DEF Legal, Offset
<1>2. n \in Nat /\ n <= Count(readptr, writeptr)
  BY <1>1, RingBufferAssumption DEF Least
<1>3. /\ Content' = Held(buffer, readptr', writeptr)
  BY ReadOutInv, ContentNext DEF readOut
<1>4. /\ out' = SubSeq(Content, 1, n)
      /\ \/ readptr' = readptr + n /\ readptr' <= Capacity
         \/ readptr' = readptr + n - Capacity /\ readptr' > 0
  <2>1. CASE writeptr > readptr \/ n <= right
    <3>1. out' = memcpyOut(readptr, n) /\ readptr' = readptr + n
      BY <2>1 DEF readOut
    <3>2. readptr + n <= Capacity
      BY <1>1, <1>2, <2>1, RingBufferAssumption DEF Count
    <3> HIDE DEF n
    <3>3. memcpyOut(readptr, n) = SubSeq(Content, 1, n)
      BY <1>2, <3>2, CopiedAhead
    <3> QED  BY <3>1, <3>2, <3>3
  <2>2. CASE ~(writeptr > readptr \/ n <= right)
    <3>1. /\ out' = memcpyOut(readptr, right) \o memcpyOut(0, n - right)
          /\ readptr' = n - right
      BY <2>2 DEF readOut
    <3>2. right < n /\ right = Capacity - readptr /\ right \in Nat
      BY <1>1, <1>2, <2>2
    <3>3. readptr' = readptr + n - Capacity /\ readptr' > 0
      BY <1>1, <1>2, <3>1, <3>2, RingBufferAssumption
    <3> HIDE DEF n, right
    <3>4. memcpyOut(readptr, right) \o memcpyOut(0, n - right) = SubSeq(Content, 1, n)
      BY <1>2, <3>2, CopiedAround
    <3> QED  BY <3>1, <3>3, <3>4
  <2> QED  BY <2>1, <2>2
<1> HIDE DEF n
<1>5. Held(buffer, readptr', writeptr)
        = SubSeq(Held(buffer, readptr, writeptr), n + 1, Count(readptr, writeptr))
  <2>1. PICK r2 : r2 = readptr'
    OBVIOUS
  <2>2. \/ r2 = readptr + n /\ r2 <= Capacity
        \/ r2 = readptr + n - Capacity /\ r2 > 0
    BY <1>4, <2>1
  <2>3. Held(buffer, r2, writeptr)
          = SubSeq(Held(buffer, readptr, writeptr), n + 1, Count(readptr, writeptr))
    BY <1>2, <2>2, GetOldest
  <2> QED  BY <2>1, <2>3
<1>6. Content' = SubSeq(Content, n + 1, Len(Content))
  BY <1>1, <1>3, <1>5
<1>7. CASE n = 0
  <2>1. SubSeq(Content, 1, 0) = <<>>
    BY <1>1
  <2>2. SubSeq(Content, 1, Len(Content)) = Content
    BY <1>1, SubSeqFull
  <2> QED  BY <1>4, <1>6, <1>7, <2>1, <2>2 DEF Queue!FifoNext, Queue!Nothing
<1>8. CASE n > 0
  <2>1. n \in 1 .. Len(Content)
    BY <1>1, <1>2, <1>8
  <2> QED  BY <1>4, <1>6, <2>1 DEF Queue!FifoNext, Queue!Get
<1> QED  BY <1>2, <1>7, <1>8

LEMMA ClearClears ==
    ASSUME RingInv, clear PROVE Queue!FifoNext
<1>1. Content' = Held(buffer', readptr', writeptr') /\ readptr' = 0 /\ writeptr' = 0 /\ out' = <<>>
  BY ClearInv, ContentNext DEF clear
<1>2. Count(0, 0) = 0
  BY DEF Count
<1>3. Held(buffer', 0, 0) = <<>>
  BY <1>2 DEF Held
<1> QED  BY <1>1, <1>3 DEF Queue!FifoNext, Queue!Clear

\* Every step of the character operations is a step of the queue.
LEMMA StepRefinesFifo == RingInv /\ [CharNext]_ringVars => [Queue!FifoNext]_<<Content, out>>
<1> SUFFICES ASSUME RingInv, [CharNext]_ringVars PROVE [Queue!FifoNext]_<<Content, out>>
  OBVIOUS
<1>1. CASE \E s \in Input : writeIn(s)
  BY <1>1, WriteInPuts
<1>2. CASE \E len \in 1 .. Capacity : readOut(len)
  BY <1>2, ReadOutGets
<1>3. CASE \E s \in Reads(Capacity) : writeInFromFileOnce(s)
  BY <1>3, WriteInFromFileOncePuts
<1>4. CASE \E s \in Input, t \in Reads(Capacity), ok \in BOOLEAN : writeInFromFileTwice(s, t, ok)
  BY <1>4, WriteInFromFileTwicePuts
<1>5. CASE clear
  BY <1>5, ClearClears
<1>6. CASE UNCHANGED ringVars
  BY <1>6 DEF ringVars, Content, size, space
<1> QED  BY <1>1, <1>2, <1>3, <1>4, <1>5, <1>6 DEF CharNext

LEMMA InitRefinesFifo == RingInit => Queue!FifoInit
<1> SUFFICES ASSUME RingInit PROVE Queue!FifoInit
  OBVIOUS
<1>1. Content = Held(buffer, readptr, writeptr) /\ readptr = 0 /\ writeptr = 0
  BY InitRingInv, ContentIs DEF RingInit
<1>2. Held(buffer, 0, 0) = <<>>
  BY DEF Held, Count
<1> QED  BY <1>1, <1>2 DEF RingInit, Queue!FifoInit

\* For every capacity, the buffer filled from memory and files and read to memory is a
\* queue of _capacity - 1 bytes: writeIn and writeInFromFile append what fits, wrapped or
\* not, readOut delivers the oldest bytes in order, and nothing else moves a byte.
THEOREM RingRefinesFifo == CharRing => RefinesFifo
<1>1. CharRing => []RingInv
  BY InitRingInv, NextRingInv, PTL DEF CharRing
<1> QED  BY <1>1, InitRefinesFifo, StepRefinesFifo, PTL DEF CharRing, RefinesFifo, Queue!Fifo
=============================================================================
