------------------------- MODULE HttpBodyFileProofs -------------------------
(***************************************************************************)
(* Proofs about HttpBodyFile, for every size of the ring and every length  *)
(* of a body.  WriteInv: while a body is written, the ring is within its   *)
(* bounds, _writeptr has not gone further than there were bytes, and the   *)
(* file and the ring hold them in order.  FrameInv:                        *)
(* while it is sent, what the socket took, what the ring holds and what    *)
(* the state of the sender says is still to come are the message's frame.  *)
(* The frame of a chunked body is defined by recursion over the bytes that *)
(* are left; what is needed of it is shown with a least counterexample.    *)
(***************************************************************************)
EXTENDS HttpBodyFile, SequenceTheorems, WellFoundedInduction, TLAPS

Tokens == [kind : {"byte", "size", "cr", "lf"}, n : Nat]
Files == [named : BOOLEAN, exists : BOOLEAN, bytes : Seq(Tokens),
          fd : {"none", "open", "stale"}, pos : Int, readdone : BOOLEAN, cur : Int]
Hists == [bytes : Nat, flushed : BOOLEAN, cut : BOOLEAN]

Ptrs == [r : Int, w : Nat]

WritingType ==
    /\ file \in Files /\ hist \in Hists
    /\ ringbuf \in Seq(Tokens) /\ Len(ringbuf) <= RingSize
    /\ ptr \in Ptrs /\ ptr.w <= hist.bytes
InOrder == file.named => file.bytes \o ringbuf = Data(1, hist.bytes)
\* A call that hangs in a flush: _writeptr stood at _capacity.
HangsLate == phase = "spin" /\ file.named => hist.bytes > RingSize
WriteInv == (phase = "write" => WritingType /\ InOrder) /\ HangsLate

-----------------------------------------------------------------------------
(* Sequences.                                                                *)

LEMMA DataFacts ==
    ASSUME NEW m \in Nat, NEW n \in Nat
    PROVE  /\ Data(m + 1, m + n) \in Seq(Tokens) /\ Len(Data(m + 1, m + n)) = n
           /\ \A i \in 1 .. n : Data(m + 1, m + n)[i] = Token("byte", m + i)
<1>1. m + n - (m + 1) + 1 = n /\ \A i \in 1 .. n : m + 1 + i - 1 = m + i
  OBVIOUS
<1>2. \A i \in 1 .. n : Token("byte", m + i) \in Tokens
  BY DEF Token, Tokens
<1>3. Data(m + 1, m + n) = [i \in 1 .. n |-> Token("byte", m + i)]
  BY <1>1 DEF Data
<1>4. Data(m + 1, m + n) \in [1 .. n -> Tokens]
  BY <1>2, <1>3
<1> QED  BY <1>3, <1>4

\* The bytes numbered to m and the n that follow are the bytes numbered to m + n.
LEMMA DataGrows ==
    ASSUME NEW m \in Nat, NEW n \in Nat
    PROVE  Data(1, m) \o Data(m + 1, m + n) = Data(1, m + n)
<1> DEFINE a == Data(1, m)
           b == Data(m + 1, m + n)
           c == Data(1, m + n)
           k == m + n
<1>1. /\ a \in Seq(Tokens) /\ Len(a) = m
      /\ \A i \in 1 .. m : a[i] = Token("byte", i)
  <2>1. 0 \in Nat /\ 0 + 1 = 1 /\ 0 + m = m /\ \A i \in 1 .. m : 0 + i = i
    OBVIOUS
  <2>2. /\ Data(0 + 1, 0 + m) \in Seq(Tokens) /\ Len(Data(0 + 1, 0 + m)) = m
        /\ \A i \in 1 .. m : Data(0 + 1, 0 + m)[i] = Token("byte", 0 + i)
    BY <2>1, DataFacts
  <2> QED  BY <2>1, <2>2
<1>2. /\ b \in Seq(Tokens) /\ Len(b) = n
      /\ \A i \in 1 .. n : b[i] = Token("byte", m + i)
  BY DataFacts
<1>3. /\ c \in Seq(Tokens) /\ Len(c) = k
      /\ \A i \in 1 .. k : c[i] = Token("byte", i)
  <2>1. 0 \in Nat /\ k \in Nat /\ 0 + 1 = 1 /\ 0 + k = k /\ \A i \in 1 .. k : 0 + i = i
    OBVIOUS
  <2> HIDE DEF k
  <2>2. /\ Data(0 + 1, 0 + k) \in Seq(Tokens) /\ Len(Data(0 + 1, 0 + k)) = k
        /\ \A i \in 1 .. k : Data(0 + 1, 0 + k)[i] = Token("byte", 0 + i)
    BY <2>1, DataFacts
  <2>3. /\ Data(1, k) \in Seq(Tokens) /\ Len(Data(1, k)) = k
        /\ \A i \in 1 .. k : Data(1, k)[i] = Token("byte", i)
    BY <2>1, <2>2
  <2> QED  BY <2>3 DEF k
<1> HIDE DEF a, b, c
<1>4. /\ a \o b \in Seq(Tokens) /\ Len(a \o b) = m + n
      /\ \A i \in 1 .. m + n : (a \o b)[i] = IF i <= m THEN a[i] ELSE b[i - m]
  BY <1>1, <1>2, ConcatProperties
<1>5. ASSUME NEW i \in 1 .. m + n PROVE (a \o b)[i] = c[i]
  <2>1. CASE i <= m
    BY <1>1, <1>3, <1>4, <2>1
  <2>2. CASE ~(i <= m)
    <3>1. i - m \in 1 .. n /\ m + (i - m) = i
      BY <2>2
    <3>2. b[i - m] = Token("byte", i)
      BY <1>2, <3>1
    <3> QED  BY <1>3, <1>4, <2>2, <3>2
  <2> QED  BY <2>1, <2>2
<1>6. a \o b = c
  BY <1>3, <1>4, <1>5, SeqEqual
<1> QED  BY <1>6 DEF a, b, c

LEMMA InAnyGrouping ==
    ASSUME NEW a \in Seq(Tokens), NEW b \in Seq(Tokens), NEW c \in Seq(Tokens)
    PROVE  (a \o b) \o c = a \o (b \o c)
BY ConcatAssociative
\* The same, to be instantiated without a search for the terms.
Grouped(a, b, c) == (a \o b) \o c = a \o (b \o c)
LEMMA GroupedAny ==
    ASSUME NEW a \in Seq(Tokens), NEW b \in Seq(Tokens), NEW c \in Seq(Tokens)
    PROVE  Grouped(a, b, c)
BY InAnyGrouping, Zenon DEF Grouped

\* A sequence cut in two.
LEMMA CutInTwo ==
    ASSUME NEW S, NEW s \in Seq(S), NEW k \in 0 .. Len(s)
    PROVE  /\ First(s, k) \in Seq(S) /\ Rest(s, k) \in Seq(S)
           /\ Len(First(s, k)) = k /\ Len(Rest(s, k)) = Len(s) - k
           /\ First(s, k) \o Rest(s, k) = s
<1> DEFINE n == Len(s)
           f == SubSeq(s, 1, k)
           m == k + 1
           r == SubSeq(s, m, n)
<1>1. n \in Nat /\ k \in Nat /\ k <= n /\ m \in Int /\ \A i \in 1 .. n : s[i] \in S
  OBVIOUS
<1>2. /\ f \in Seq(S) /\ Len(f) = k /\ \A i \in 1 .. k : f[i] = s[i]
  <2>1. \A i \in 1 .. k : s[i] \in S
    BY <1>1
  <2>2. /\ SubSeq(s, 1, k) \in Seq(S) /\ Len(SubSeq(s, 1, k)) = IF 1 <= k THEN k - 1 + 1 ELSE 0
        /\ \A i \in 1 .. k - 1 + 1 : SubSeq(s, 1, k)[i] = s[1 + i - 1]
    BY <1>1, <2>1, SubSeqProperties
  <2> QED  BY <1>1, <2>2
<1>3. /\ r \in Seq(S) /\ Len(r) = n - k /\ \A i \in 1 .. n - k : r[i] = s[k + i]
  <2>1. \A i \in m .. n : s[i] \in S
    BY <1>1
  <2>2. n - m + 1 = n - k /\ (\A i \in 1 .. n - k : m + i - 1 = k + i) /\ (m <= n \/ n - k = 0)
    BY <1>1
  <2> HIDE DEF m, n
  <2>3. /\ SubSeq(s, m, n) \in Seq(S) /\ Len(SubSeq(s, m, n)) = IF m <= n THEN n - m + 1 ELSE 0
        /\ \A i \in 1 .. n - m + 1 : SubSeq(s, m, n)[i] = s[m + i - 1]
    BY <1>1, <2>1, SubSeqProperties
  <2> QED  BY <2>2, <2>3
<1> HIDE DEF f, r
<1>4. /\ f \o r \in Seq(S) /\ Len(f \o r) = Len(f) + Len(r)
      /\ \A i \in 1 .. Len(f) + Len(r) : (f \o r)[i] = IF i <= Len(f) THEN f[i] ELSE r[i - Len(f)]
  BY <1>2, <1>3, ConcatProperties
<1>5. Len(f) + Len(r) = n
  BY <1>1, <1>2, <1>3
<1>6. ASSUME NEW i \in 1 .. n PROVE (f \o r)[i] = s[i]
  <2>1. CASE i <= k
    BY <1>1, <1>2, <1>4, <1>5, <2>1
  <2>2. CASE ~(i <= k)
    <3>1. i - k \in 1 .. n - k /\ k + (i - k) = i
      BY <1>1, <2>2
    <3>2. r[i - k] = s[i]
      BY <1>3, <3>1
    <3> QED  BY <1>2, <1>4, <1>5, <2>2, <3>2
  <2> QED  BY <2>1, <2>2
<1>7. f \o r = s
  BY <1>4, <1>5, <1>6, SeqEqual
<1> QED  BY <1>2, <1>3, <1>7 DEF f, r, m, n, First, Rest

-----------------------------------------------------------------------------
(* Steps.                                                                    *)

LEMMA NewFacts ==
    /\ NewFile \in Files /\ NewFile.named = FALSE /\ NewFile.bytes = <<>>
    /\ NewHist \in Hists /\ NewHist.bytes = 0
BY DEF NewFile, NewHist, Files, Hists

\* File::appendWriteIn.
LEMMA AppendFacts ==
    ASSUME NEW f \in Files, NEW s \in Seq(Tokens)
    PROVE  /\ appendWriteIn(f, s) \in Files
           /\ appendWriteIn(f, s).named = f.named /\ appendWriteIn(f, s).bytes = f.bytes \o s
<1>1. f.bytes \in Seq(Tokens)
  BY DEF Files
<1>2. f.bytes \o s \in Seq(Tokens)
  BY <1>1, ConcatProperties
<1> QED  BY <1>2 DEF appendWriteIn, Files

\* flushFile moves the ring to the end of the file, and nothing is lost on the way.
LEMMA FlushFacts ==
    ASSUME WritingType
    PROVE  /\ flushed \in Files /\ flushed.named = file.named
           /\ leftUnflushed \in Seq(Tokens) /\ Len(leftUnflushed) <= RingSize
           /\ file.named => /\ flushed.bytes = file.bytes \o ringbuf
                            /\ leftUnflushed = <<>>
<1>1. file \in Files /\ ringbuf \in Seq(Tokens) /\ file.bytes \in Seq(Tokens)
  BY DEF WritingType, Files
<1>2. CASE ~file.named
  BY <1>1, <1>2 DEF flushed, leftUnflushed, WritingType
<1>3. CASE file.named
  <2>1. leftUnflushed = <<>> /\ <<>> \in Seq(Tokens) /\ Len(<<>>) <= RingSize
    BY <1>3, BodyAssumption DEF leftUnflushed
  <2>2. CASE ringbuf = <<>>
    <3>1. flushed = file
      BY <2>2 DEF flushed
    <3>2. file.bytes \o ringbuf = file.bytes
      BY <1>1, <2>2, ConcatEmptySeq
    <3> QED  BY <1>1, <2>1, <3>1, <3>2
  <2>3. CASE ringbuf # <<>>
    <3>1. flushed = appendWriteIn(file, ringbuf)
      BY <1>3, <2>3 DEF flushed
    <3> QED  BY <1>1, <2>1, <3>1, AppendFacts
  <2> QED  BY <2>2, <2>3
<1> QED  BY <1>2, <1>3

\* No operation moves _writeptr by more than the bytes it was given; a drain leaves it.
LEMMA PtrFacts ==
    ASSUME NEW p \in Ptrs, NEW n \in Nat
    PROVE  /\ writtenIn(p, n) \in Ptrs /\ writtenIn(p, n).w <= p.w + n
           /\ drained(p, n) \in Ptrs /\ drained(p, n).w = p.w
<1>1. p.r \in Int /\ p.w \in Nat /\ Capacity \in Nat /\ Capacity > 0
  BY BodyAssumption DEF Ptrs, Capacity
<1>2. (p.r + n) % Capacity \in Int
  BY <1>1
<1>3. drained(p, n) \in Ptrs /\ drained(p, n).w = p.w
  BY <1>2 DEF drained, Ptrs
<1>4. writtenIn(p, n) \in Ptrs /\ writtenIn(p, n).w <= p.w + n
  <2>1. CASE p.w >= p.r /\ n > Capacity - p.w
    <3>1. writtenIn(p, n) = [p EXCEPT !.w = n - (Capacity - p.w)]
      BY <2>1 DEF writtenIn
    <3> QED  BY <1>1, <2>1, <3>1 DEF Ptrs
  <2>2. CASE ~(p.w >= p.r /\ n > Capacity - p.w)
    <3>1. writtenIn(p, n) = [p EXCEPT !.w = p.w + n]
      BY <2>2 DEF writtenIn
    <3> QED  BY <1>1, <3>1 DEF Ptrs
  <2> QED  BY <2>1, <2>2
<1> QED  BY <1>3, <1>4

\* The pointers and the phase after a flush.
LEMMA FlushPtrs ==
    ASSUME WritingType, ringFlushed, phase = "write"
    PROVE  /\ ptr' \in Ptrs /\ ptr'.w = ptr.w
           /\ phase' = "write" \/ (phase' = "spin" /\ overruns)
           /\ overruns => hist.bytes > RingSize
<1>1. ptr \in Ptrs /\ ptr.w <= hist.bytes /\ hist.bytes \in Nat /\ Len(ringbuf) \in Nat
  BY DEF WritingType, Hists
<1>2. ptr' = (IF file.named THEN drained(ptr, Len(ringbuf)) ELSE ptr)
  BY DEF ringFlushed
<1>3. ptr' \in Ptrs /\ ptr'.w = ptr.w
  BY <1>1, <1>2, PtrFacts
<1>4. overruns => hist.bytes > RingSize
  BY <1>1, BodyAssumption DEF overruns, drainsForEver, Capacity, Ptrs
<1> QED  BY <1>3, <1>4 DEF ringFlushed

LEMMA FlushStep ==
    ASSUME WriteInv, phase = "write", flushFile, hist' = hist PROVE WriteInv'
<1>1. WritingType /\ InOrder
  BY DEF WriteInv
<1>2. file' = flushed /\ ringbuf' = leftUnflushed /\ ringFlushed
  BY DEF flushFile, ringFlushed
<1>3. WritingType'
  BY <1>1, <1>2, FlushFacts, FlushPtrs DEF WritingType
<1>4. InOrder'
  <2> SUFFICES ASSUME file'.named PROVE file'.bytes \o ringbuf' = Data(1, hist'.bytes)
    BY DEF InOrder
  <2>1. file.named /\ file'.bytes = file.bytes \o ringbuf /\ ringbuf' = <<>>
    BY <1>1, <1>2, FlushFacts
  <2>2. file'.bytes \in Seq(Tokens)
    BY <1>3 DEF WritingType, Files
  <2>3. file'.bytes \o ringbuf' = file'.bytes
    BY <2>1, <2>2, ConcatEmptySeq
  <2> QED  BY <1>1, <2>1, <2>3 DEF InOrder
<1>5. HangsLate'
  BY <1>1, <1>2, FlushPtrs DEF HangsLate
<1> QED  BY <1>3, <1>4, <1>5 DEF WriteInv

LEMMA SetFileStep ==
    ASSUME WriteInv, setFile PROVE WriteInv'
<1>1. PICK n \in 0 .. MaxBytes, exists \in BOOLEAN :
         /\ file' = [NewFile EXCEPT !.named = TRUE, !.exists = exists, !.bytes = Data(1, n)]
         /\ hist' = [NewHist EXCEPT !.bytes = n]
  BY DEF setFile
<1>2. ringbuf' = <<>> /\ ringbuf' \in Seq(Tokens) /\ Len(ringbuf') <= RingSize
  BY BodyAssumption DEF setFile
<1>3. n \in Nat
  BY BodyAssumption
<1>4. Data(1, n) \in Seq(Tokens)
  <2>1. 0 \in Nat /\ 0 + 1 = 1 /\ 0 + n = n
    BY <1>3
  <2>2. Data(0 + 1, 0 + n) \in Seq(Tokens)
    BY <1>3, <2>1, DataFacts
  <2> QED  BY <2>1, <2>2
<1>5. file' \in Files /\ file'.bytes = Data(1, n) /\ hist' \in Hists /\ hist'.bytes = n
  BY <1>1, <1>3, <1>4, NewFacts DEF Files, Hists
<1>6. file'.bytes \o ringbuf' = Data(1, hist'.bytes)
  BY <1>2, <1>4, <1>5, ConcatEmptySeq
<1>7. ptr' \in Ptrs /\ ptr'.w <= n /\ phase' = "write"
  BY <1>3 DEF setFile, Cleared, Ptrs
<1> QED  BY <1>2, <1>5, <1>6, <1>7 DEF WriteInv, WritingType, InOrder, HangsLate

\* writeIn, on each of its ways: what the file and the ring hold afterwards is what they held
\* and the new bytes behind.
LEMMA WriteInStep ==
    ASSUME WriteInv, writeIn PROVE WriteInv'
<1>1. PICK n \in 1 .. MaxBytes - hist.bytes :
         LET s == Data(hist.bytes + 1, hist.bytes + n) IN
         /\ writeInRing(s) \/ writeInFile(s) \/ writeInLoop(s) \/ writeInSpins(s)
         /\ hist' = [hist EXCEPT !.bytes = @ + n]
  BY DEF writeIn
<1> DEFINE m == hist.bytes
           s == Data(m + 1, m + n)
<1>2. phase = "write" /\ WritingType /\ InOrder
  BY DEF writeIn, WriteInv
<1>3. /\ m \in Nat /\ n \in Nat /\ file \in Files /\ file.bytes \in Seq(Tokens)
      /\ ringbuf \in Seq(Tokens) /\ Len(ringbuf) \in Nat /\ Len(ringbuf) <= RingSize
      /\ RingSize \in Nat /\ ptr \in Ptrs /\ ptr.w \in Nat /\ ptr.w <= m
  BY <1>2, BodyAssumption DEF WritingType, Files, Hists, Ptrs
<1>4. hist' \in Hists /\ hist'.bytes = m + n
  BY <1>1, <1>2, <1>3 DEF WritingType, Hists
<1>5. s \in Seq(Tokens) /\ Len(s) = n /\ Data(1, m) \o s = Data(1, m + n)
  BY <1>3, DataFacts, DataGrows
<1>6. file.named => file.bytes \o ringbuf = Data(1, m)
  BY <1>2 DEF InOrder
<1>7. writeInRing(s) \/ writeInFile(s) \/ writeInLoop(s) \/ writeInSpins(s)
  BY <1>1
<1>8. space \in Nat /\ space <= RingSize /\ Len(ringbuf) + space = RingSize
  BY <1>3 DEF space
<1> HIDE DEF s, m
<1>9. CASE writeInRing(s)
  <2>1. file' = file /\ ringbuf' = ringbuf \o s /\ Len(s) < space
    BY <1>9 DEF writeInRing
  <2>2. ringbuf \o s \in Seq(Tokens) /\ Len(ringbuf \o s) = Len(ringbuf) + Len(s)
    <3>1. ringbuf \in Seq(Tokens) /\ s \in Seq(Tokens)
      BY <1>3, <1>5
    <3> QED  BY <3>1, ConcatProperties, Zenon
  <2>6. ptr' \in Ptrs /\ ptr'.w <= m + n /\ phase' = "write"
    <3>1. ptr' = writtenIn(ptr, n) /\ phase' = phase
      BY <1>5, <1>9 DEF writeInRing
    <3>2. writtenIn(ptr, n) \in Ptrs /\ writtenIn(ptr, n).w <= ptr.w + n
      BY <1>3, PtrFacts
    <3> QED  BY <1>2, <1>3, <3>1, <3>2 DEF Ptrs
  <2>3. WritingType'
    BY <1>3, <1>4, <1>5, <1>8, <2>1, <2>2, <2>6 DEF WritingType
  <2>4. file.bytes \o (ringbuf \o s) = (file.bytes \o ringbuf) \o s
    BY <1>3, <1>5, InAnyGrouping
  <2>5. InOrder'
    BY <1>4, <1>5, <1>6, <2>1, <2>4 DEF InOrder
  <2> QED  BY <2>3, <2>5, <2>6 DEF WriteInv, HangsLate
<1>10. CASE writeInFile(s)
  <2>1. /\ ringbuf' = leftUnflushed /\ ringFlushed
        /\ file' = IF file.named /\ ~overruns THEN appendWriteIn(flushed, s) ELSE flushed
    BY <1>10 DEF writeInFile, ringFlushed
  <2>2. /\ ptr' \in Ptrs /\ ptr'.w <= m + n
        /\ phase' = "write" \/ (phase' = "spin" /\ overruns)
        /\ overruns => m > RingSize
    <3>1. /\ ptr' \in Ptrs /\ ptr'.w = ptr.w
          /\ phase' = "write" \/ (phase' = "spin" /\ overruns)
          /\ overruns => hist.bytes > RingSize
      BY <1>2, <2>1, FlushPtrs
    <3> QED  BY <1>3, <3>1 DEF m
  <2>3. HangsLate'
    BY <1>3, <1>4, <2>2 DEF HangsLate
  <2>4. CASE overruns
    <3>1. phase' = "spin"
      BY <2>1, <2>4 DEF ringFlushed
    <3> QED  BY <2>3, <3>1 DEF WriteInv
  <2>5. CASE file.named /\ ~overruns
    <3>1. file' = appendWriteIn(flushed, s)
      BY <2>1, <2>5
    <3>2. /\ flushed \in Files /\ flushed.bytes = file.bytes \o ringbuf
          /\ ringbuf' = <<>> /\ ringbuf' \in Seq(Tokens) /\ Len(ringbuf') <= RingSize
      BY <1>2, <2>1, <2>5, FlushFacts
    <3>3. file' \in Files /\ file'.bytes = (file.bytes \o ringbuf) \o s
      BY <1>5, <3>1, <3>2, AppendFacts
    <3>4. file'.bytes = Data(1, m + n) /\ file'.bytes \in Seq(Tokens)
      BY <1>5, <1>6, <2>5, <3>3 DEF Files
    <3>5. file'.bytes \o ringbuf' = file'.bytes
      BY <3>2, <3>4, ConcatEmptySeq
    <3>6. WritingType'
      BY <1>4, <2>2, <3>2, <3>3 DEF WritingType
    <3>7. InOrder'
      BY <1>4, <3>4, <3>5 DEF InOrder
    <3> QED  BY <2>3, <3>6, <3>7 DEF WriteInv
  <2>6. CASE ~file.named
    <3>1. file' = flushed /\ flushed \in Files /\ flushed.named = file.named
      BY <1>2, <2>1, <2>6, FlushFacts
    <3>2. ringbuf' \in Seq(Tokens) /\ Len(ringbuf') <= RingSize
      BY <1>2, <2>1, FlushFacts
    <3>3. WritingType'
      BY <1>4, <2>2, <3>1, <3>2 DEF WritingType
    <3>4. InOrder'
      BY <2>6, <3>1 DEF InOrder
    <3> QED  BY <2>3, <3>3, <3>4 DEF WriteInv
  <2> QED  BY <2>4, <2>5, <2>6
<1>11. CASE writeInLoop(s)
  <2> DEFINE a == First(s, space)
             b == Rest(s, space)
             full == writtenIn(ptr, space)
  <2>0. full \in Ptrs /\ full.w <= m + space /\ full.w \in Nat
    <3>1. full \in Ptrs /\ full.w <= ptr.w + space
      BY <1>3, <1>8, PtrFacts
    <3> QED  BY <1>3, <1>8, <3>1 DEF Ptrs
  <2>1. /\ file' = appendWriteIn(file, ringbuf \o a) /\ file.named
        /\ Len(s) >= space /\ Len(s) < RingSize
    BY <1>11 DEF writeInLoop
  <2>9. CASE drainsForEver(full)
    <3>1. phase' = "spin"
      BY <1>11, <2>9 DEF writeInLoop
    <3>2. full.w > RingSize
      BY <2>9, BodyAssumption DEF drainsForEver, Capacity
    <3> HIDE DEF full
    <3>3. hist'.bytes > RingSize
      BY <1>3, <1>4, <1>5, <1>8, <2>0, <2>1, <3>2
    <3> QED  BY <3>1, <3>3 DEF WriteInv, HangsLate
  <2> SUFFICES ASSUME ~drainsForEver(full) PROVE WriteInv'
    BY <2>9
  <2>10. /\ ringbuf' = b /\ phase' = phase
         /\ ptr' = writtenIn(drained(full, RingSize), Len(s) - space)
    BY <1>11 DEF writeInLoop
  <2> HIDE DEF full
  <2>11. ptr' \in Ptrs /\ ptr'.w <= m + n
    <3> DEFINE p == drained(full, RingSize)
               k == Len(s) - space
    <3>1. p \in Ptrs /\ p.w = full.w /\ k \in Nat /\ k = n - space
      BY <1>3, <1>5, <1>8, <2>0, <2>1, PtrFacts
    <3>2. ptr' = writtenIn(p, k)
      BY <2>10
    <3> HIDE DEF p, k
    <3>3. writtenIn(p, k) \in Ptrs /\ writtenIn(p, k).w <= p.w + k
      BY <3>1, PtrFacts
    <3> QED  BY <1>3, <1>8, <2>0, <3>1, <3>2, <3>3 DEF Ptrs
  <2>2. space \in 0 .. Len(s)
    BY <1>5, <1>8, <2>1
  <2>3. /\ a \in Seq(Tokens) /\ b \in Seq(Tokens) /\ Len(b) = Len(s) - space /\ a \o b = s
    BY <1>5, <2>2, CutInTwo
  <2> HIDE DEF a, b
  <2>4. ringbuf \o a \in Seq(Tokens)
    BY <1>3, <2>3, ConcatProperties
  <2>5. file' \in Files /\ file'.bytes = file.bytes \o (ringbuf \o a)
    BY <1>3, <2>1, <2>4, AppendFacts
  <2>6. WritingType'
    BY <1>3, <1>4, <1>5, <1>8, <2>1, <2>3, <2>5, <2>10, <2>11 DEF WritingType
  <2>7. file'.bytes \o ringbuf' = Data(1, m + n)
    <3>0. /\ file.bytes \in Seq(Tokens) /\ ringbuf \in Seq(Tokens) /\ s \in Seq(Tokens)
          /\ a \in Seq(Tokens) /\ b \in Seq(Tokens)
      BY <1>3, <1>5, <2>3
    <3>1. (file.bytes \o (ringbuf \o a)) \o b = file.bytes \o ((ringbuf \o a) \o b)
      <4> DEFINE d == file.bytes
                 u == ringbuf \o a
      <4>1. d \in Seq(Tokens) /\ u \in Seq(Tokens) /\ b \in Seq(Tokens)
        BY <3>0, <2>4
      <4> HIDE DEF d, u
      <4>2. (d \o u) \o b = d \o (u \o b)
        BY <4>1, InAnyGrouping
      <4> QED  BY <4>2, Zenon DEF d, u
    <3>2. (ringbuf \o a) \o b = ringbuf \o (a \o b)
      <4>1. Grouped(ringbuf, a, b)
        BY <3>0, GroupedAny
      <4> QED  BY <4>1, Zenon DEF Grouped
    <3>3. file.bytes \o (ringbuf \o s) = (file.bytes \o ringbuf) \o s
      <4>1. Grouped(file.bytes, ringbuf, s)
        BY <3>0, GroupedAny
      <4> QED  BY <4>1, Zenon DEF Grouped
    <3> QED  BY <1>5, <1>6, <2>1, <2>3, <2>5, <2>10, <3>1, <3>2, <3>3
  <2> QED  BY <1>2, <1>4, <2>6, <2>7, <2>10 DEF WriteInv, InOrder, HangsLate
<1>12. CASE writeInSpins(s)
  BY <1>12 DEF writeInSpins, WriteInv, HangsLate
<1> QED  BY <1>7, <1>9, <1>10, <1>11, <1>12

\* Nothing but clear goes back to writing, and nothing hangs in it that did not before.
LEMMA LeavesWriting ==
    ASSUME phase # "write",
           \/ spins \/ noFile \/ recall \/ Prepare \/ takesNothing \/ stopped \/ sendFails
           \/ \E k \in 0 .. MaxBytes + 5 : SocketTakes(k)
           \/ \E n \in 1 .. MaxBytes : takes(n)
    PROVE  phase' \notin {"write", "spin"} \/ UNCHANGED vars
<1>1. CASE spins \/ noFile \/ recall \/ takesNothing \/ stopped \/ sendFails
  BY <1>1 DEF spins, noFile, recall, takesNothing, stopped, sendFails
<1>2. CASE Prepare
  BY <1>2 DEF Prepare, chunkInit, readChunk, chunkEnd, lastChunk, refillFails, sendFileChunk,
              sendFileContent, sendfileDone, ERROR, Sending, Content
<1>3. ASSUME NEW k \in 0 .. MaxBytes + 5, SocketTakes(k) PROVE phase' \notin {"write", "spin"}
  BY <1>3 DEF SocketTakes, ringSends, sendSize, sendData, sendChunkEnd, sendLastChunk,
              sendContentRest, sendContentEnd, sendContent, sendPart, DONE, Sending, Content
<1>4. ASSUME NEW n \in 1 .. MaxBytes, takes(n) PROVE phase' \notin {"write", "spin"}
  BY <1>4 DEF takes
<1> QED  BY <1>1, <1>2, <1>3, <1>4

\* A step that needs another phase than "write".
LEMMA SendsElsewhere ==
    ASSUME \/ spins \/ noFile \/ recall \/ Prepare \/ takesNothing \/ stopped \/ sendFails
           \/ \E k \in 0 .. MaxBytes + 5 : SocketTakes(k)
           \/ \E n \in 1 .. MaxBytes : takes(n)
    PROVE  phase # "write"
<1>1. CASE spins \/ noFile \/ recall \/ takesNothing \/ stopped \/ sendFails
  BY <1>1 DEF spins, noFile, recall, takesNothing, stopped, sendFails
<1>2. CASE Prepare
  BY <1>2 DEF Prepare, chunkInit, readChunk, chunkEnd, lastChunk, refillFails, sendFileChunk,
              sendFileContent, sendfileDone, Sending, Content
<1>3. ASSUME NEW k \in 0 .. MaxBytes + 5, SocketTakes(k) PROVE phase # "write"
  BY <1>3 DEF SocketTakes, ringSends, sendSize, sendData, sendChunkEnd, sendLastChunk,
              sendContentRest, sendContentEnd, sendContent, Sending, Content
<1>4. ASSUME NEW n \in 1 .. MaxBytes, takes(n) PROVE phase # "write"
  BY <1>4 DEF takes
<1> QED  BY <1>1, <1>2, <1>3, <1>4

LEMMA ClearStep ==
    ASSUME clear PROVE WriteInv'
<1>1. /\ file' = NewFile /\ ringbuf' = <<>> /\ hist' = NewHist
      /\ ptr' = Cleared /\ phase' = "write"
  BY DEF clear, reset
<1> QED  BY <1>1, NewFacts, BodyAssumption
         DEF WriteInv, WritingType, InOrder, HangsLate, Cleared, Ptrs

LEMMA NextWriteInv == WriteInv /\ [BodyNext]_vars => WriteInv'
<1> SUFFICES ASSUME WriteInv, [BodyNext]_vars PROVE WriteInv'
  OBVIOUS
<1>1. CASE setFile
  BY <1>1, SetFileStep
<1>2. CASE writeIn
  BY <1>2, WriteInStep
<1>3. CASE mode \/ closeFile
  BY <1>3, FlushStep DEF mode, closeFile
<1>4. CASE attach
  BY <1>4 DEF attach, WriteInv, HangsLate
<1>5. CASE clear
  BY <1>5, ClearStep
<1>6. CASE \/ spins \/ noFile \/ recall \/ Prepare \/ takesNothing \/ stopped \/ sendFails
           \/ \E k \in 0 .. MaxBytes + 5 : SocketTakes(k)
           \/ \E n \in 1 .. MaxBytes : takes(n)
  <2>1. phase' \notin {"write", "spin"} \/ UNCHANGED vars
    BY <1>6, SendsElsewhere, LeavesWriting
  <2> QED  BY <2>1 DEF vars, WriteInv, WritingType, InOrder, HangsLate
<1>7. CASE UNCHANGED vars
  BY <1>7 DEF vars, WriteInv, WritingType, InOrder, HangsLate
<1> QED  BY <1>1, <1>2, <1>3, <1>4, <1>5, <1>6, <1>7 DEF BodyNext, Write

LEMMA InitWriteInv == BodyInit => WriteInv
<1>1. BodyInit => /\ file = NewFile /\ ringbuf = <<>> /\ hist = NewHist
                  /\ ptr = Cleared /\ phase = "write"
  BY DEF BodyInit
<1> QED  BY <1>1, NewFacts, BodyAssumption
         DEF WriteInv, WritingType, InOrder, HangsLate, Cleared, Ptrs

\* For every size of the ring and every split of a body into pieces, what writeIn, flushFile
\* and closeFile leave in the file and behind it in the ring is the body, in order; and a flush
\* that does not end, for the ring's _writeptr stands at _capacity, is met only by a body that
\* is longer than the ring.
THEOREM BodyWrittenInOrder == Body => []WrittenInOrder
<1>1. WriteInv => WrittenInOrder
  BY DEF WriteInv, InOrder, HangsLate, WrittenInOrder
<1> QED  BY <1>1, InitWriteInv, NextWriteInv, PTL DEF Body

-----------------------------------------------------------------------------
(* The chunks of a body, by induction over what is left of it.               *)

LEMMA LeastElement ==
    ASSUME NEW S \in SUBSET Nat, S # {}
    PROVE  \E x \in S : \A y \in S : x <= y
<1>1. \E x \in S : \A y \in S : ~(<<y, x>> \in OpToRel(<, Nat))
  BY NatLessThanWellFounded, WFMin
<1>2. PICK x \in S : \A y \in S : ~(<<y, x>> \in OpToRel(<, Nat))
  BY <1>1
<1>3. ASSUME NEW y \in S PROVE x <= y
  <2>1. ~(<<y, x>> \in OpToRel(<, Nat))
    BY <1>2
  <2>2. x \in Nat /\ y \in Nat
    OBVIOUS
  <2>3. ~(y < x)
    BY <2>1, <2>2 DEF OpToRel
  <2> QED  BY <2>2, <2>3
<1> QED  BY <1>3

LEMMA PieceFacts ==
    /\ CRLF \in Seq(Tokens) /\ Len(CRLF) = 2
    /\ LastChunk \in Seq(Tokens)
    /\ \A c \in Nat : inter2HexString(c) \in Seq(Tokens) /\ inter2HexString(c) \o CRLF \in Seq(Tokens)
<1>1. CRLF \in Seq(Tokens) /\ Len(CRLF) = 2
  BY DEF CRLF, Token, Tokens
<1>2. \A c \in Nat : inter2HexString(c) \in Seq(Tokens)
  BY DEF inter2HexString, Token, Tokens
<1>3. \A c \in Nat : inter2HexString(c) \o CRLF \in Seq(Tokens)
  BY <1>1, <1>2, ConcatProperties
<1>4. (inter2HexString(0) \o CRLF) \o CRLF \in Seq(Tokens)
  BY <1>1, <1>3, ConcatProperties
<1> QED  BY <1>1, <1>2, <1>3, <1>4 DEF LastChunk

\* The chunk that follows the first o of n bytes, and how long it is.
Size(n, o) == Least(RingSize, n - o)
ChunkAt(n, o) == inter2HexString(Size(n, o)) \o CRLF \o Data(o + 1, o + Size(n, o)) \o CRLF

LEMMA SizeFacts ==
    ASSUME NEW n \in Nat, NEW o \in 0 .. n, o # n
    PROVE  /\ Size(n, o) \in Nat /\ Size(n, o) > 0 /\ Size(n, o) <= RingSize
           /\ o + Size(n, o) \in 0 .. n /\ o + Size(n, o) > o
BY BodyAssumption DEF Size, Least

LEMMA ChunkFacts ==
    ASSUME NEW n \in Nat, NEW o \in 0 .. n, o # n
    PROVE  ChunkAt(n, o) \in Seq(Tokens)
<1> DEFINE c == Size(n, o)
<1>1. c \in Nat /\ o \in Nat
  BY SizeFacts
<1> HIDE DEF c
<1>2. Data(o + 1, o + c) \in Seq(Tokens)
  BY <1>1, DataFacts
<1>3. (inter2HexString(c) \o CRLF) \o Data(o + 1, o + c) \in Seq(Tokens)
  BY <1>1, <1>2, PieceFacts, ConcatProperties
<1>4. ((inter2HexString(c) \o CRLF) \o Data(o + 1, o + c)) \o CRLF \in Seq(Tokens)
  BY <1>3, PieceFacts, ConcatProperties
<1> QED  BY <1>4 DEF ChunkAt, c

\* A function that obeys the recursion exists, built from the end of the body to its start.
Recursion(g, n, from) ==
    \A o \in from .. n : g[o] = IF o = n THEN LastChunk ELSE ChunkAt(n, o) \o g[o + Size(n, o)]

LEMMA RecursionSolved ==
    ASSUME NEW n \in Nat
    PROVE  \E g : g \in [0 .. n -> Seq(Tokens)] /\ Recursion(g, n, 0)
<1> DEFINE Solved(k) == \E g : g \in [n - k .. n -> Seq(Tokens)] /\ Recursion(g, n, n - k)
           Bad == {k \in 0 .. n : ~Solved(k)}
<1>1. Solved(0)
  <2> DEFINE g == [o \in n - 0 .. n |-> LastChunk]
  <2>1. g \in [n - 0 .. n -> Seq(Tokens)]
    BY PieceFacts
  <2>2. \A o \in n - 0 .. n : o = n
    OBVIOUS
  <2>3. Recursion(g, n, n - 0)
    BY <2>2 DEF Recursion
  <2> QED  BY <2>1, <2>3
<1>2. ASSUME NEW k \in 0 .. n, k # 0, Solved(k - 1) PROVE Solved(k)
  <2> DEFINE m == n - k
  <2>0. n - (k - 1) = m + 1 /\ m \in 0 .. n /\ m # n /\ m \in Nat
    BY <1>2
  <2>1. PICK g : g \in [m + 1 .. n -> Seq(Tokens)] /\ Recursion(g, n, m + 1)
    BY <1>2, <2>0
  <2> HIDE DEF m
  <2>2. m + Size(n, m) \in m + 1 .. n
    BY <2>0, SizeFacts
  <2> DEFINE first == ChunkAt(n, m) \o g[m + Size(n, m)]
             h == [o \in m .. n |-> IF o = m THEN first ELSE g[o]]
  <2>3. first \in Seq(Tokens)
    BY <2>0, <2>1, <2>2, ChunkFacts, ConcatProperties
  <2>4. \A o \in m + 1 .. n : o \in m .. n /\ o # m
    BY <2>0
  <2>5. \A o \in m .. n : o # m => o \in m + 1 .. n
    BY <2>0
  <2>6. h \in [m .. n -> Seq(Tokens)]
    BY <2>1, <2>3, <2>5
  <2>7. \A o \in m + 1 .. n : h[o] = g[o]
    BY <2>4
  <2>8. h[m] = first
    BY <2>0
  <2> HIDE DEF first, h
  <2>9. ASSUME NEW o \in m .. n
        PROVE  h[o] = IF o = n THEN LastChunk ELSE ChunkAt(n, o) \o h[o + Size(n, o)]
    <3>1. CASE o = m
      BY <2>0, <2>2, <2>7, <2>8, <3>1 DEF first
    <3>2. CASE o # m
      <4>1. o \in m + 1 .. n /\ o \in 0 .. n
        BY <2>0, <2>5, <3>2
      <4>2. CASE o = n
        BY <2>1, <2>7, <4>1, <4>2 DEF Recursion
      <4>3. CASE o # n
        <5>1. o + Size(n, o) \in m + 1 .. n
          BY <2>0, <4>1, <4>3, SizeFacts
        <5> QED  BY <2>1, <2>7, <4>1, <4>3, <5>1 DEF Recursion
      <4> QED  BY <4>2, <4>3
    <3> QED  BY <3>1, <3>2
  <2>10. Recursion(h, n, m)
    BY <2>9 DEF Recursion
  <2> QED  BY <2>6, <2>10 DEF m
<1>3. Bad = {}
  <2> SUFFICES ASSUME Bad # {} PROVE FALSE
    OBVIOUS
  <2>1. PICK k \in Bad : \A j \in Bad : k <= j
    <3>1. Bad \in SUBSET Nat
      OBVIOUS
    <3> HIDE DEF Bad
    <3> QED  BY <3>1, LeastElement
  <2>2. k \in 0 .. n /\ ~Solved(k)
    OBVIOUS
  <2>3. k # 0
    BY <1>1, <2>2
  <2>4. k - 1 \in 0 .. n /\ ~(k <= k - 1)
    BY <2>2, <2>3
  <2>5. Solved(k - 1)
    BY <2>1, <2>4
  <2> QED  BY <1>2, <2>2, <2>3, <2>5
<1>4. n \in 0 .. n /\ n - n = 0
  OBVIOUS
<1>5. Solved(n)
  BY <1>3, <1>4
<1> QED  BY <1>4, <1>5

\* What is left of the frame behind the first o bytes: the next chunk and the rest.
LEMMA FramesUnfold ==
    ASSUME NEW n \in Nat
    PROVE  \A o \in 0 .. n : FramesFrom(n)[o] = IF o = n THEN LastChunk
                                                ELSE ChunkAt(n, o) \o FramesFrom(n)[o + Size(n, o)]
<1>1. PICK g : g \in [0 .. n -> Seq(Tokens)] /\ Recursion(g, n, 0)
  BY RecursionSolved
<1>2. g = [o \in 0 .. n |-> IF o = n THEN LastChunk ELSE ChunkAt(n, o) \o g[o + Size(n, o)]]
  BY <1>1 DEF Recursion
<1>3. g = [o \in 0 .. n |->
             IF o = n THEN LastChunk
             ELSE LET c == Least(RingSize, n - o) IN
                  inter2HexString(c) \o CRLF \o Data(o + 1, o + c) \o CRLF \o g[o + c]]
  BY <1>2, Zenon DEF ChunkAt, Size
<1>4. FramesFrom(n) = [o \in 0 .. n |->
             IF o = n THEN LastChunk
             ELSE LET c == Least(RingSize, n - o) IN
                  inter2HexString(c) \o CRLF \o Data(o + 1, o + c) \o CRLF
                     \o FramesFrom(n)[o + c]]
  BY <1>3, Zenon DEF FramesFrom
<1>5. FramesFrom(n) = [o \in 0 .. n |-> IF o = n THEN LastChunk
                          ELSE ChunkAt(n, o) \o FramesFrom(n)[o + Size(n, o)]]
  BY <1>4, Zenon DEF ChunkAt, Size
<1> DEFINE F == FramesFrom(n)
<1> HIDE DEF F
<1>6. F = [o \in 0 .. n |-> IF o = n THEN LastChunk ELSE ChunkAt(n, o) \o F[o + Size(n, o)]]
  BY <1>5, Zenon DEF F
<1>7. \A o \in 0 .. n : F[o] = IF o = n THEN LastChunk ELSE ChunkAt(n, o) \o F[o + Size(n, o)]
  BY <1>6
<1> QED  BY <1>7, Zenon DEF F

LEMMA FramesAreTokens ==
    ASSUME NEW n \in Nat
    PROVE  \A o \in 0 .. n : FramesFrom(n)[o] \in Seq(Tokens)
<1> DEFINE F == FramesFrom(n)
           Bad == {k \in 0 .. n : F[n - k] \notin Seq(Tokens)}
<1>1. \A o \in 0 .. n : F[o] = IF o = n THEN LastChunk ELSE ChunkAt(n, o) \o F[o + Size(n, o)]
  BY FramesUnfold
<1> HIDE DEF F
<1>2. Bad = {}
  <2> SUFFICES ASSUME Bad # {} PROVE FALSE
    OBVIOUS
  <2>1. PICK k \in Bad : \A j \in Bad : k <= j
    <3>1. Bad \in SUBSET Nat
      OBVIOUS
    <3> HIDE DEF Bad
    <3> QED  BY <3>1, LeastElement
  <2>2. k \in 0 .. n /\ F[n - k] \notin Seq(Tokens)
    OBVIOUS
  <2> DEFINE m == n - k
             j == n - (m + Size(n, m))
  <2>3. m \in 0 .. n
    BY <2>2
  <2>4. m # n
    BY <1>1, <2>2, <2>3, PieceFacts
  <2>5. /\ m + Size(n, m) \in 0 .. n /\ m + Size(n, m) > m
    BY <2>3, <2>4, SizeFacts
  <2>6. j \in 0 .. n /\ ~(k <= j) /\ n - j = m + Size(n, m)
    BY <2>2, <2>5
  <2>7. F[m + Size(n, m)] \in Seq(Tokens)
    BY <2>1, <2>6
  <2>8. F[m] = ChunkAt(n, m) \o F[m + Size(n, m)]
    BY <1>1, <2>3, <2>4
  <2>9. F[m] \in Seq(Tokens)
    BY <2>3, <2>4, <2>7, <2>8, ChunkFacts, ConcatProperties
  <2> QED  BY <2>2, <2>9
<1>3. ASSUME NEW o \in 0 .. n PROVE F[o] \in Seq(Tokens)
  <2>1. n - o \in 0 .. n /\ n - (n - o) = o
    OBVIOUS
  <2> QED  BY <1>2, <2>1
<1> QED  BY <1>3 DEF F

-----------------------------------------------------------------------------
(* Sending.  In every state of a sender that was not cut, what the socket    *)
(* took and what is left to send are the frame of the body.                  *)

ChunkStates == {"UINIT", "SIZEON", "SIZEDONE", "DATAON", "DATADONE", "EOFON", "FILEDONE", "NULLON"}
Bodies == [readoffset : Int, chunksize : Int, chunkstate : ChunkStates, contentDone : BOOLEAN]
Calls == [running : BOOLEAN, left : Int, old : Int]

Whole == hist.bytes
Behind(o) == FramesFrom(Whole)[o]
\* The sender is between the size of a chunk and its end.
InChunk == body.readoffset < Whole /\ body.chunksize = Size(Whole, body.readoffset)
RestOfChunk(o) == LET c == Size(Whole, o) IN Data(o + 1, o + c) \o (CRLF \o Behind(o + c))
\* sendfile has sent all of the chunk and HttpBodyFile has not been told yet.
Sent == call.running /\ call.left <= 0

Chunks ==
    LET o == body.readoffset
        at == body.chunkstate
    IN  /\ o \in 0 .. Whole
        /\ ~sendfileOn => file.pos = o /\ ~call.running
        /\ call.running => at \in {"SIZEDONE", "DATAON"}
        /\ at = "UINIT" =>
             ringbuf = <<>> /\ body.chunksize = RingSize /\ wire \o Behind(o) = Frame
        /\ at = "SIZEON" => InChunk /\ wire \o (ringbuf \o RestOfChunk(o)) = Frame
        /\ at = "SIZEDONE" \/ (at = "DATAON" /\ sendfileOn) =>
             /\ ringbuf = <<>>
             /\ ~Sent => InChunk /\ wire \o RestOfChunk(o) = Frame
             /\ ~Sent /\ call.running => call.left = body.chunksize /\ call.old = o
        /\ at = "DATAON" /\ ~sendfileOn => wire \o (ringbuf \o (CRLF \o Behind(o))) = Frame
        /\ at = "DATADONE" \/ Sent => wire \o (CRLF \o Behind(o)) = Frame
        /\ at = "EOFON" => wire \o (ringbuf \o Behind(o)) = Frame
        /\ at \in {"DATADONE", "EOFON"} \/ Sent \/ (at = "DATAON" /\ ~sendfileOn) => o > 0
        /\ at = "FILEDONE" => wire \o LastChunk = Frame
        /\ at = "NULLON" => wire \o ringbuf = Frame

Contents ==
    /\ ~sendfileOn => ~call.running
    /\ ~sendfileOn /\ ~file.readdone =>
         /\ ~body.contentDone /\ file.pos \in 0 .. Whole /\ Len(ringbuf) <= RingSize
         /\ wire \o (ringbuf \o (Data(file.pos + 1, Whole) \o CRLF)) = Frame
    /\ ~sendfileOn /\ file.readdone /\ ~body.contentDone => wire \o (ringbuf \o CRLF) = Frame
    /\ sendfileOn /\ ~body.contentDone =>
         /\ file.cur = 0
         /\ file.pos \in 0 .. Whole /\ wire = Data(1, file.pos)
         /\ IF call.running THEN call.left = Whole - file.pos ELSE file.pos = 0
    /\ body.contentDone => ~call.running /\ wire \o ringbuf = Frame

Underway ==
    /\ file \in Files /\ body \in Bodies /\ call \in Calls
    /\ ringbuf \in Seq(Tokens) /\ wire \in Seq(Tokens)
    /\ IF testExist(file)
       THEN file.bytes = Data(1, Whole) /\ (IF chunked THEN Chunks ELSE Contents)
       ELSE wire = <<>> /\ phase = "wait"

\* Nothing of a message's sending has begun.
Unsent == /\ body = NewBody /\ call = NoCall /\ ~hist.cut
          /\ file.pos = 0 /\ file.cur = 0 /\ ~file.readdone

SendInv ==
    /\ hist \in Hists /\ chunked \in BOOLEAN
    /\ phase \in {"write", "spin", "wait", "send", "garbage", "done", "error"}
    /\ phase \in {"write", "spin"} => wire = <<>>
    /\ phase = "write" => Unsent
    /\ phase = "garbage" => hist.cut
    /\ hist.flushed /\ ~hist.cut =>
         /\ phase \in {"wait", "send"} => Underway
         /\ phase = "error" => wire \in Seq(Tokens) /\ IsPrefix(wire, Frame)
         /\ phase = "done" => wire = <<>> \/ wire = Frame
FrameInv == WriteInv /\ SendInv

-----------------------------------------------------------------------------
(* What is sent and what is left, in general.                                *)

LEMMA Joined ==
    ASSUME NEW a \in Seq(Tokens), NEW b \in Seq(Tokens)
    PROVE  a \o b \in Seq(Tokens) /\ Len(a \o b) = Len(a) + Len(b)
BY ConcatProperties

LEMMA EmptyJoined ==
    ASSUME NEW a \in Seq(Tokens)
    PROVE  a \o <<>> = a /\ <<>> \o a = a /\ <<>> \in Seq(Tokens) /\ Len(<<>>) = 0
BY ConcatEmptySeq

LEMMA PrefixOfJoined ==
    ASSUME NEW w \in Seq(Tokens), NEW x \in Seq(Tokens) PROVE IsPrefix(w, w \o x)
<1> DEFINE F == w \o x
<1>1. F \in Seq(Tokens) /\ Len(F) = Len(w) + Len(x) /\ Len(w) \in Nat /\ Len(x) \in Nat
  BY Joined
<1>2. \A i \in 1 .. Len(w) : F[i] = w[i]
  BY ConcatProperties
<1> HIDE DEF F
<1>3. Len(w) <= Len(F)
  BY <1>1
<1>4. SubSeq(w, 1, Len(w)) = SubSeq(F, 1, Len(w))
  BY <1>1, <1>2, <1>3
<1> QED  BY <1>3, <1>4 DEF IsPrefix, F

\* The socket takes k elements of s, behind which t waits: after them the wire and what is
\* left are what they were before.
SentSoFar(w, s, t, k) ==
    /\ w \o First(s, k) \in Seq(Tokens) /\ Rest(s, k) \in Seq(Tokens)
    /\ (w \o First(s, k)) \o (Rest(s, k) \o t) = w \o (s \o t)
    /\ (w \o First(s, k)) \o Rest(s, k) = w \o s
    /\ k = Len(s) => /\ First(s, k) = s /\ Rest(s, k) = <<>>
                     /\ (w \o First(s, k)) \o t = w \o (s \o t)

LEMMA PartSent ==
    ASSUME NEW w \in Seq(Tokens), NEW s \in Seq(Tokens), NEW t \in Seq(Tokens),
           NEW k \in 0 .. Len(s)
    PROVE  SentSoFar(w, s, t, k)
<1> DEFINE f == First(s, k)
           r == Rest(s, k)
<1>1. /\ f \in Seq(Tokens) /\ r \in Seq(Tokens) /\ f \o r = s
      /\ Len(r) = Len(s) - k
  BY CutInTwo
<1>2. k = Len(s) => f = s /\ r = <<>>
  <2> SUFFICES ASSUME k = Len(s) PROVE f = s /\ r = <<>>
    OBVIOUS
  <2>1. Len(r) = 0
    BY <1>1
  <2> HIDE DEF f, r
  <2>2. r = <<>>
    BY <1>1, <2>1, EmptySeq
  <2> QED  BY <1>1, <2>2, EmptyJoined
<1> HIDE DEF f, r
<1>3. w \o f \in Seq(Tokens) /\ r \o t \in Seq(Tokens)
  BY <1>1, Joined
<1>4. (w \o f) \o (r \o t) = w \o (f \o (r \o t))
  <2> DEFINE u == r \o t
  <2> HIDE DEF u
  <2>1. w \in Seq(Tokens) /\ f \in Seq(Tokens) /\ u \in Seq(Tokens)
    BY <1>1, <1>3 DEF u
  <2>2. (w \o f) \o u = w \o (f \o u)
    BY <2>1, InAnyGrouping
  <2> QED  BY <2>2, Zenon DEF u
<1>5. f \o (r \o t) = s \o t
  <2>1. (f \o r) \o t = f \o (r \o t)
    <3>1. f \in Seq(Tokens) /\ r \in Seq(Tokens) /\ t \in Seq(Tokens)
      BY <1>1
    <3>2. Grouped(f, r, t)
      BY <3>1, GroupedAny
    <3> QED  BY <3>2, Zenon DEF Grouped
  <2> QED  BY <1>1, <2>1, Zenon
<1>6. (w \o f) \o r = w \o s
  <2>1. f \in Seq(Tokens) /\ r \in Seq(Tokens) /\ f \o r = s
    BY <1>1
  <2>2. Grouped(w, f, r)
    BY <2>1, GroupedAny
  <2> QED  BY <2>1, <2>2, Zenon DEF Grouped
<1>7. (w \o s) \o t = w \o (s \o t)
  BY InAnyGrouping
<1>8. /\ (w \o f) \o (r \o t) = w \o (s \o t)
      /\ k = Len(s) => f = s /\ r = <<>> /\ (w \o f) \o t = w \o (s \o t)
  BY <1>2, <1>4, <1>5, <1>7, Zenon
<1> QED  BY <1>1, <1>3, <1>6, <1>8, Zenon DEF f, r, SentSoFar

\* A piece of a body's bytes, in the file.
LEMMA DataInFile ==
    ASSUME NEW n \in Nat, NEW o \in Nat, NEW c \in Nat, o + c <= n
    PROVE  SubSeq(Data(1, n), o + 1, o + c) = Data(o + 1, o + c)
<1> DEFINE d == Data(1, n)
           a == o + 1
           b == o + c
           s == SubSeq(d, a, b)
           e == Data(a, b)
<1>1. d \in Seq(Tokens) /\ Len(d) = n /\ \A i \in 1 .. n : d[i] = Token("byte", i)
  <2>1. 0 \in Nat /\ 0 + 1 = 1 /\ 0 + n = n /\ \A i \in 1 .. n : 0 + i = i
    OBVIOUS
  <2>2. /\ Data(0 + 1, 0 + n) \in Seq(Tokens) /\ Len(Data(0 + 1, 0 + n)) = n
        /\ \A i \in 1 .. n : Data(0 + 1, 0 + n)[i] = Token("byte", 0 + i)
    BY <2>1, DataFacts
  <2> QED  BY <2>1, <2>2
<1>2. e \in Seq(Tokens) /\ Len(e) = c /\ \A i \in 1 .. c : e[i] = Token("byte", o + i)
  BY DataFacts
<1> HIDE DEF d, e
<1>3. s \in Seq(Tokens) /\ Len(s) = c /\ \A i \in 1 .. c : s[i] = d[o + i]
  <2>1. a \in Int /\ b \in Int /\ \A i \in a .. b : d[i] \in Tokens
    BY <1>1
  <2>2. /\ b - a + 1 = c /\ (a <= b \/ c = 0)
        /\ \A i \in 1 .. c : a + i - 1 = o + i
    OBVIOUS
  <2> HIDE DEF a, b
  <2>3. /\ SubSeq(d, a, b) \in Seq(Tokens) /\ Len(SubSeq(d, a, b)) = IF a <= b THEN b - a + 1 ELSE 0
        /\ \A i \in 1 .. b - a + 1 : SubSeq(d, a, b)[i] = d[a + i - 1]
    BY <1>1, <2>1, SubSeqProperties
  <2> QED  BY <2>2, <2>3
<1> HIDE DEF s
<1>4. ASSUME NEW i \in 1 .. c PROVE s[i] = e[i]
  <2>1. o + i \in 1 .. n
    OBVIOUS
  <2> QED  BY <1>1, <1>2, <1>3, <2>1
<1>5. s = e
  BY <1>2, <1>3, <1>4, SeqEqual
<1> QED  BY <1>5 DEF s, d, e, a, b

-----------------------------------------------------------------------------
(* The frame and its parts.                                                  *)

Going == hist \in Hists /\ chunked \in BOOLEAN /\ Underway /\ testExist(file)

LEMMA FrameFacts ==
    ASSUME hist \in Hists, chunked \in BOOLEAN
    PROVE  /\ Whole \in Nat /\ Frame \in Seq(Tokens)
           /\ \A o \in 0 .. Whole : Behind(o) \in Seq(Tokens)
           /\ Data(1, Whole) \in Seq(Tokens) /\ Len(Data(1, Whole)) = Whole
<1>1. Whole \in Nat
  BY DEF Whole, Hists
<1>2. \A o \in 0 .. Whole : Behind(o) \in Seq(Tokens)
  BY <1>1, FramesAreTokens DEF Behind
<1>3. Data(1, Whole) \in Seq(Tokens) /\ Len(Data(1, Whole)) = Whole
  <2>1. 0 \in Nat /\ 0 + 1 = 1 /\ 0 + Whole = Whole
    BY <1>1
  <2>2. Data(0 + 1, 0 + Whole) \in Seq(Tokens) /\ Len(Data(0 + 1, 0 + Whole)) = Whole
    BY <1>1, <2>1, DataFacts
  <2> QED  BY <2>1, <2>2
<1>4. ContentFrame(Whole) \in Seq(Tokens)
  BY <1>3, PieceFacts, Joined DEF ContentFrame
<1>5. ChunkFrame(Whole) \in Seq(Tokens)
  BY <1>1, FramesAreTokens DEF ChunkFrame
<1> QED  BY <1>1, <1>2, <1>3, <1>4, <1>5 DEF Frame, Whole

\* The next chunk: its size, and what follows it.
LEMMA BehindFacts ==
    ASSUME hist \in Hists, chunked \in BOOLEAN, NEW o \in 0 .. Whole
    PROVE  /\ o = Whole => Behind(o) = LastChunk
           /\ o # Whole =>
                /\ Size(Whole, o) \in Nat /\ Size(Whole, o) > 0 /\ Size(Whole, o) <= RingSize
                /\ o + Size(Whole, o) \in 0 .. Whole
                /\ Data(o + 1, o + Size(Whole, o)) \in Seq(Tokens)
                /\ CRLF \o Behind(o + Size(Whole, o)) \in Seq(Tokens)
                /\ RestOfChunk(o) \in Seq(Tokens)
                /\ Behind(o) = (inter2HexString(Size(Whole, o)) \o CRLF) \o RestOfChunk(o)
<1> DEFINE c == Size(Whole, o)
           h == inter2HexString(c) \o CRLF
           d == Data(o + 1, o + c)
           b == Behind(o + c)
<1>1. Whole \in Nat /\ o \in Nat /\ \A x \in 0 .. Whole : Behind(x) \in Seq(Tokens)
  BY FrameFacts
<1>2. o = Whole => Behind(o) = LastChunk
  BY <1>1, FramesUnfold DEF Behind
<1>3. ASSUME o # Whole
      PROVE  /\ c \in Nat /\ c > 0 /\ c <= RingSize /\ o + c \in 0 .. Whole
             /\ d \in Seq(Tokens) /\ CRLF \o b \in Seq(Tokens)
             /\ RestOfChunk(o) \in Seq(Tokens)
             /\ Behind(o) = h \o RestOfChunk(o)
  <2>1. c \in Nat /\ c > 0 /\ c <= RingSize /\ o + c \in 0 .. Whole
    BY <1>1, <1>3, SizeFacts
  <2>2. b \in Seq(Tokens) /\ CRLF \in Seq(Tokens)
    BY <1>1, <2>1, PieceFacts
  <2>3. h \in Seq(Tokens)
    BY <2>1, PieceFacts
  <2>4. d \in Seq(Tokens)
    BY <1>1, <2>1, DataFacts
  <2>5. Behind(o) = ((h \o d) \o CRLF) \o b
    BY <1>1, <1>3, FramesUnfold DEF Behind, ChunkAt
  <2>6. RestOfChunk(o) = d \o (CRLF \o b)
    BY DEF RestOfChunk
  <2> HIDE DEF c, h, d, b
  <2>7. h \o d \in Seq(Tokens) /\ CRLF \o b \in Seq(Tokens) /\ d \o (CRLF \o b) \in Seq(Tokens)
    BY <2>2, <2>3, <2>4, Joined
  <2>8. ((h \o d) \o CRLF) \o b = (h \o d) \o (CRLF \o b)
    <3> DEFINE u == h \o d
    <3> HIDE DEF u
    <3>1. u \in Seq(Tokens)
      BY <2>7 DEF u
    <3>2. (u \o CRLF) \o b = u \o (CRLF \o b)
      BY <2>2, <3>1, InAnyGrouping
    <3> QED  BY <3>2, Zenon DEF u
  <2>9. (h \o d) \o (CRLF \o b) = h \o (d \o (CRLF \o b))
    <3> DEFINE u == CRLF \o b
    <3> HIDE DEF u
    <3>1. u \in Seq(Tokens)
      BY <2>7 DEF u
    <3>2. (h \o d) \o u = h \o (d \o u)
      BY <2>3, <2>4, <3>1, InAnyGrouping
    <3> QED  BY <3>2, Zenon DEF u
  <2>10. Behind(o) = h \o RestOfChunk(o)
    BY <2>5, <2>6, <2>8, <2>9, Zenon
  <2> QED  BY <2>1, <2>4, <2>6, <2>7, <2>10
<1> QED  BY <1>2, <1>3

LEMMA GoingFacts ==
    ASSUME Going
    PROVE  /\ Whole \in Nat /\ Frame \in Seq(Tokens) /\ getFileSize(file) = Whole
           /\ file \in Files /\ body \in Bodies /\ call \in Calls
           /\ ringbuf \in Seq(Tokens) /\ wire \in Seq(Tokens)
           /\ file.bytes = Data(1, Whole) /\ Len(file.bytes) = Whole
           /\ chunked => Chunks /\ body.readoffset \in 0 .. Whole
           /\ ~chunked => Contents
<1>1. /\ file \in Files /\ body \in Bodies /\ call \in Calls
      /\ ringbuf \in Seq(Tokens) /\ wire \in Seq(Tokens)
      /\ file.bytes = Data(1, Whole) /\ (IF chunked THEN Chunks ELSE Contents)
  BY DEF Going, Underway
<1>2. Whole \in Nat /\ Frame \in Seq(Tokens) /\ Len(Data(1, Whole)) = Whole
  BY FrameFacts DEF Going
<1>3. getFileSize(file) = Whole
  BY <1>1, <1>2 DEF Going, getFileSize
<1>4. chunked => body.readoffset \in 0 .. Whole
  BY <1>1 DEF Chunks
<1> QED  BY <1>1, <1>2, <1>3, <1>4

-----------------------------------------------------------------------------
(* The steps of a chunked body.                                              *)

\* What a step of a sender keeps: the message, its path and its file's name and contents.
SameMessage ==
    /\ hist'.bytes = hist.bytes /\ hist' \in Hists /\ chunked' = chunked /\ path' = path
    /\ file' \in Files /\ file'.bytes = file.bytes /\ testExist(file)'

LEMMA SameFrame ==
    ASSUME SameMessage
    PROVE  /\ Whole' = Whole /\ Frame' = Frame /\ sendfileOn' = sendfileOn
           /\ \A o : Behind(o)' = Behind(o) /\ RestOfChunk(o)' = RestOfChunk(o)
<1>1. Whole' = Whole
  BY DEF SameMessage, Whole
<1>2. \A o : Behind(o)' = Behind(o)
  BY <1>1 DEF Behind
<1>3. \A o : RestOfChunk(o)' = RestOfChunk(o)
  BY <1>1, <1>2 DEF RestOfChunk
<1> QED  BY <1>1, <1>2, <1>3 DEF SameMessage, Frame, sendfileOn

LEMMA ChunksGoOn ==
    ASSUME Going, SameMessage, chunked, body' \in Bodies, call' \in Calls,
           ringbuf' \in Seq(Tokens), wire' \in Seq(Tokens), Chunks'
    PROVE  Underway'
<1>1. file'.bytes = Data(1, Whole')
  BY GoingFacts, SameFrame DEF SameMessage
<1> QED  BY <1>1 DEF Underway, SameMessage

LEMMA ChunkInitSends ==
    ASSUME Going, chunkInit PROVE Underway'
<1> DEFINE o == body.readoffset
<1>1. /\ chunked /\ body.chunkstate = "UINIT" /\ ~call.running
      /\ UNCHANGED <<phase, file, call, wire, hist, chunked, path>>
  BY DEF chunkInit, Sending, Keep
<1>2. SameMessage
  BY <1>1, GoingFacts DEF SameMessage, Going, testExist
<1>3. /\ ringbuf = <<>> /\ body.chunksize = RingSize /\ wire \o Behind(o) = Frame
      /\ o \in 0 .. Whole /\ (~sendfileOn => file.pos = o)
  BY <1>1, GoingFacts DEF Chunks
<1>4. CASE Whole - o = 0
  <2>1. body' = [body EXCEPT !.chunkstate = "FILEDONE"] /\ ringbuf' = ringbuf
    BY <1>4, GoingFacts DEF chunkInit
  <2>2. body' \in Bodies /\ body'.chunkstate = "FILEDONE" /\ body'.readoffset = o
    BY <2>1, GoingFacts DEF Bodies, ChunkStates
  <2>3. wire \o LastChunk = Frame
    BY <1>3, <1>4, GoingFacts, BehindFacts DEF Going
  <2>4. Chunks'
    BY <1>1, <1>2, <1>3, <2>2, <2>3, SameFrame DEF Chunks, Sent
  <2> QED  BY <1>1, <1>2, <2>1, <2>2, <2>4, GoingFacts, ChunksGoOn
<1>5. CASE Whole - o # 0
  <2>1. o # Whole /\ Least(Whole - o, RingSize) = Size(Whole, o)
    <3>1. Whole \in Nat /\ o \in 0 .. Whole /\ RingSize \in Nat
      BY <1>3, GoingFacts, BodyAssumption
    <3> QED  BY <1>5, <3>1 DEF Size, Least
  <2>2. /\ body' = [body EXCEPT !.chunksize = Size(Whole, o), !.chunkstate = "SIZEON"]
        /\ ringbuf' = inter2HexString(Size(Whole, o)) \o CRLF
    BY <1>3, <1>5, <2>1, GoingFacts DEF chunkInit, ringHolds
  <2>3. /\ Size(Whole, o) \in Nat /\ RestOfChunk(o) \in Seq(Tokens)
        /\ Behind(o) = ringbuf' \o RestOfChunk(o)
    BY <1>3, <2>1, <2>2, BehindFacts DEF Going
  <2>4. /\ body' \in Bodies /\ body'.chunkstate = "SIZEON" /\ body'.readoffset = o
        /\ body'.chunksize = Size(Whole, o)
    <3>1. body \in Bodies /\ Size(Whole, o) \in Int
      BY <2>3, GoingFacts
    <3> QED  BY <2>2, <3>1 DEF Bodies, ChunkStates
  <2>5. ringbuf' \in Seq(Tokens)
    BY <2>2, <2>3, PieceFacts
  <2>6. InChunk'
    BY <1>2, <1>3, <2>1, <2>4, GoingFacts, SameFrame DEF InChunk
  <2>7. Chunks'
    BY <1>1, <1>2, <1>3, <2>3, <2>4, <2>6, SameFrame DEF Chunks, Sent
  <2> QED  BY <1>1, <1>2, <2>4, <2>5, <2>7, GoingFacts, ChunksGoOn
<1> QED  BY <1>4, <1>5

\* RingBuffer::send2Socket of k bytes, whatever waits behind the ring.
LEMMA RingSent ==
    ASSUME Going, ~hist.cut, NEW k \in Nat, k <= Len(ringbuf), ringTakes(k)
    PROVE  /\ wire' \in Seq(Tokens) /\ Rest(ringbuf, k) \in Seq(Tokens)
           /\ wire' \o Rest(ringbuf, k) = wire \o ringbuf
           /\ \A t \in Seq(Tokens) : wire' \o (Rest(ringbuf, k) \o t) = wire \o (ringbuf \o t)
           /\ k = Len(ringbuf) =>
                /\ wire' = wire \o ringbuf /\ Rest(ringbuf, k) = <<>>
                /\ \A t \in Seq(Tokens) : wire' \o t = wire \o (ringbuf \o t)
<1>1. ringbuf \in Seq(Tokens) /\ wire \in Seq(Tokens)
  BY GoingFacts
<1>2. k \in 0 .. Len(ringbuf)
  BY <1>1
<1>3. wire' = wire \o First(ringbuf, k)
  BY DEF ringTakes, put
<1>4. <<>> \in Seq(Tokens)
  OBVIOUS
<1> HIDE DEF Going
<1>5. ASSUME NEW t \in Seq(Tokens)
      PROVE  /\ wire' \in Seq(Tokens) /\ Rest(ringbuf, k) \in Seq(Tokens)
             /\ wire' \o Rest(ringbuf, k) = wire \o ringbuf
             /\ wire' \o (Rest(ringbuf, k) \o t) = wire \o (ringbuf \o t)
             /\ k = Len(ringbuf) =>
                  /\ wire' = wire \o ringbuf /\ Rest(ringbuf, k) = <<>>
                  /\ wire' \o t = wire \o (ringbuf \o t)
  <2>1. SentSoFar(wire, ringbuf, t, k)
    BY <1>1, <1>2, PartSent
  <2> DEFINE f == First(ringbuf, k)
             r == Rest(ringbuf, k)
  <2>2. /\ wire \o f \in Seq(Tokens) /\ r \in Seq(Tokens)
        /\ (wire \o f) \o (r \o t) = wire \o (ringbuf \o t)
        /\ (wire \o f) \o r = wire \o ringbuf
        /\ k = Len(ringbuf) => /\ f = ringbuf /\ r = <<>>
                               /\ (wire \o f) \o t = wire \o (ringbuf \o t)
    BY <2>1, Zenon DEF SentSoFar
  <2>3. wire' = wire \o f
    BY <1>3
  <2> HIDE DEF f, r
  <2>4. /\ wire' \in Seq(Tokens) /\ r \in Seq(Tokens) /\ wire' \o r = wire \o ringbuf
        /\ wire' \o (r \o t) = wire \o (ringbuf \o t)
    BY <2>2, <2>3, Zenon
  <2>5. k = Len(ringbuf) => /\ wire' = wire \o ringbuf /\ r = <<>>
                           /\ wire' \o t = wire \o (ringbuf \o t)
    BY <2>2, <2>3, Zenon
  <2> QED  BY <2>4, <2>5, Zenon DEF r
<1> QED  BY <1>4, <1>5, Zenon

LEMMA SendSizeSends ==
    ASSUME Going, ~hist.cut, NEW k \in Nat, k <= Len(ringbuf), sendSize(k) PROVE Underway'
<1> DEFINE o == body.readoffset
<1>1. /\ chunked /\ body.chunkstate = "SIZEON" /\ ~call.running /\ ringTakes(k)
      /\ ringbuf' = Rest(ringbuf, k) /\ UNCHANGED <<file, call, hist, chunked, path>>
  BY DEF sendSize, sendPart, Sending, Keep, ringLeft
<1>2. SameMessage
  BY <1>1, GoingFacts DEF SameMessage, Going, testExist
<1>3. /\ InChunk /\ wire \o (ringbuf \o RestOfChunk(o)) = Frame
      /\ o \in 0 .. Whole /\ (~sendfileOn => file.pos = o)
  BY <1>1, GoingFacts DEF Chunks
<1>4. RestOfChunk(o) \in Seq(Tokens)
  <2>1. o # Whole
    BY <1>3, GoingFacts DEF InChunk
  <2> QED  BY <1>3, <2>1, BehindFacts DEF Going
<1>5. /\ wire' \in Seq(Tokens) /\ ringbuf' \in Seq(Tokens)
      /\ wire' \o (ringbuf' \o RestOfChunk(o)) = Frame
      /\ k = Len(ringbuf) => ringbuf' = <<>> /\ wire' \o RestOfChunk(o) = Frame
  BY <1>1, <1>3, <1>4, RingSent
<1>6. CASE k < Len(ringbuf)
  <2>1. body' = body
    BY <1>6 DEF sendSize, sendPart
  <2>2. InChunk'
    BY <1>2, <1>3, <2>1, SameFrame DEF InChunk
  <2>3. Chunks'
    BY <1>1, <1>2, <1>3, <1>5, <2>1, <2>2, SameFrame DEF Chunks, Sent
  <2> QED  BY <1>1, <1>2, <1>5, <2>1, <2>3, GoingFacts, ChunksGoOn
<1>7. CASE ~(k < Len(ringbuf))
  <2>1. body' = [body EXCEPT !.chunkstate = "SIZEDONE"] /\ k = Len(ringbuf)
    BY <1>7, GoingFacts DEF sendSize, sendPart
  <2>2. /\ body' \in Bodies /\ body'.chunkstate = "SIZEDONE" /\ body'.readoffset = o
        /\ body'.chunksize = body.chunksize
    BY <2>1, GoingFacts DEF Bodies, ChunkStates
  <2>3. InChunk'
    BY <1>2, <1>3, <2>2, SameFrame DEF InChunk
  <2>4. Chunks'
    BY <1>1, <1>2, <1>3, <1>5, <2>1, <2>2, <2>3, SameFrame DEF Chunks, Sent
  <2> QED  BY <1>1, <1>2, <1>5, <2>2, <2>4, GoingFacts, ChunksGoOn
<1> QED  BY <1>6, <1>7

LEMMA SendDataSends ==
    ASSUME Going, ~hist.cut, NEW k \in Nat, k <= Len(ringbuf), sendData(k) PROVE Underway'
<1> DEFINE o == body.readoffset
           t == CRLF \o Behind(o)
<1>1. /\ chunked /\ body.chunkstate = "DATAON" /\ ~call.running /\ ~sendfileOn /\ ringTakes(k)
      /\ ringbuf' = Rest(ringbuf, k) /\ UNCHANGED <<file, call, hist, chunked, path>>
  BY DEF sendData, sendPart, Sending, Keep, ringLeft
<1>2. SameMessage
  BY <1>1, GoingFacts DEF SameMessage, Going, testExist
<1>3. /\ wire \o (ringbuf \o t) = Frame
      /\ o \in 0 .. Whole /\ o > 0 /\ file.pos = o
  BY <1>1, GoingFacts DEF Chunks
<1>4. t \in Seq(Tokens)
  BY <1>3, FrameFacts, PieceFacts, Joined DEF Going
<1>5. /\ wire' \in Seq(Tokens) /\ ringbuf' \in Seq(Tokens)
      /\ wire' \o (ringbuf' \o t) = Frame
      /\ k = Len(ringbuf) => ringbuf' = <<>> /\ wire' \o t = Frame
  <2> HIDE DEF t
  <2> QED  BY <1>1, <1>3, <1>4, RingSent
<1>6. CASE k < Len(ringbuf)
  <2>1. body' = body
    BY <1>6 DEF sendData, sendPart
  <2>2. Chunks'
    <3>1. wire' \o (ringbuf' \o (CRLF \o Behind(body.readoffset)')) = Frame'
      BY <1>2, <1>5, <2>1, SameFrame
    <3>2. /\ o \in 0 .. Whole' /\ o > 0 /\ file'.pos = o /\ ~sendfileOn'
          /\ body'.readoffset = o /\ body'.chunkstate = "DATAON" /\ ~call'.running
      BY <1>1, <1>2, <1>3, <2>1, SameFrame
    <3> QED  BY <3>1, <3>2 DEF Chunks, Sent
  <2> QED  BY <1>1, <1>2, <1>5, <2>1, <2>2, GoingFacts, ChunksGoOn
<1>7. CASE ~(k < Len(ringbuf))
  <2>1. body' = [body EXCEPT !.chunkstate = "DATADONE"] /\ k = Len(ringbuf)
    BY <1>7, GoingFacts DEF sendData, sendPart
  <2>2. body' \in Bodies /\ body'.chunkstate = "DATADONE" /\ body'.readoffset = o
    BY <2>1, GoingFacts DEF Bodies, ChunkStates
  <2>3. Chunks'
    BY <1>1, <1>2, <1>3, <1>5, <2>1, <2>2, SameFrame DEF Chunks, Sent
  <2> QED  BY <1>1, <1>2, <1>5, <2>2, <2>3, GoingFacts, ChunksGoOn
<1> QED  BY <1>6, <1>7

LEMMA ChunkEndSends ==
    ASSUME Going, chunkEnd PROVE Underway'
<1> DEFINE o == body.readoffset
<1>1. /\ chunked /\ body.chunkstate = "DATADONE" /\ ~call.running /\ ringbuf' = CRLF
      /\ body' = [body EXCEPT !.chunkstate = "EOFON"]
      /\ UNCHANGED <<file, call, wire, hist, chunked, path>>
  BY DEF chunkEnd, ringHolds, Sending, Keep
<1>2. SameMessage
  BY <1>1, GoingFacts DEF SameMessage, Going, testExist
<1>3. /\ wire \o (CRLF \o Behind(o)) = Frame
      /\ o \in 0 .. Whole /\ o > 0 /\ (~sendfileOn => file.pos = o)
  BY <1>1, GoingFacts DEF Chunks
<1>4. body' \in Bodies /\ body'.chunkstate = "EOFON" /\ body'.readoffset = o
  BY <1>1, GoingFacts DEF Bodies, ChunkStates
<1>5. Chunks'
  BY <1>1, <1>2, <1>3, <1>4, SameFrame DEF Chunks, Sent
<1> QED  BY <1>1, <1>2, <1>4, <1>5, GoingFacts, PieceFacts, ChunksGoOn

LEMMA LastChunkSends ==
    ASSUME Going, lastChunk PROVE Underway'
<1> DEFINE o == body.readoffset
<1>1. /\ chunked /\ body.chunkstate = "FILEDONE" /\ ~call.running /\ ringbuf' = LastChunk
      /\ body' = [body EXCEPT !.chunkstate = "NULLON"]
      /\ UNCHANGED <<file, call, wire, hist, chunked, path>>
  BY DEF lastChunk, ringHolds, Sending, Keep
<1>2. SameMessage
  BY <1>1, GoingFacts DEF SameMessage, Going, testExist
<1>3. wire \o LastChunk = Frame /\ o \in 0 .. Whole /\ (~sendfileOn => file.pos = o)
  BY <1>1, GoingFacts DEF Chunks
<1>4. body' \in Bodies /\ body'.chunkstate = "NULLON" /\ body'.readoffset = o
  BY <1>1, GoingFacts DEF Bodies, ChunkStates
<1>5. Chunks'
  BY <1>1, <1>2, <1>3, <1>4, SameFrame DEF Chunks, Sent
<1> QED  BY <1>1, <1>2, <1>4, <1>5, GoingFacts, PieceFacts, ChunksGoOn

LEMMA SendChunkEndSends ==
    ASSUME Going, ~hist.cut, ~hist'.cut, NEW k \in Nat, k <= Len(ringbuf), sendChunkEnd(k)
    PROVE  Underway'
<1> DEFINE o == body.readoffset
<1>1. /\ chunked /\ body.chunkstate = "EOFON" /\ ~call.running /\ ringTakes(k)
      /\ ringbuf' = Rest(ringbuf, k) /\ UNCHANGED <<file, call, chunked, path>>
      /\ hist' \in Hists /\ hist'.bytes = hist.bytes
  BY DEF sendChunkEnd, sendPart, Sending, Keep, ringLeft, Going, Hists
<1>2. SameMessage
  BY <1>1, GoingFacts DEF SameMessage, Going, testExist
<1>3. /\ wire \o (ringbuf \o Behind(o)) = Frame
      /\ o \in 0 .. Whole /\ o > 0 /\ (~sendfileOn => file.pos = o)
  BY <1>1, GoingFacts DEF Chunks
<1>4. Behind(o) \in Seq(Tokens)
  BY <1>3, FrameFacts DEF Going
<1>5. /\ wire' \in Seq(Tokens) /\ ringbuf' \in Seq(Tokens)
      /\ wire' \o (ringbuf' \o Behind(o)) = Frame
      /\ k = Len(ringbuf) => ringbuf' = <<>> /\ wire' \o Behind(o) = Frame
  BY <1>1, <1>3, <1>4, RingSent
<1>6. body' = body \/ (body' = AfterChunk /\ k = Len(ringbuf))
  <2>1. ringbuf \in Seq(Tokens) /\ Len(ringbuf) \in Nat
    BY GoingFacts
  <2>2. CASE ~sendfileOn
    BY <2>1, <2>2 DEF sendChunkEnd, sendPart
  <2>3. CASE sendfileOn /\ k # 0
    <3>1. body' = AfterChunk /\ hist' = [hist EXCEPT !.cut = @ \/ k \in 1 .. Len(ringbuf) - 1]
      BY <2>3 DEF sendChunkEnd
    <3>2. ~(k \in 1 .. Len(ringbuf) - 1)
      BY <3>1 DEF Going, Hists
    <3> QED  BY <2>1, <2>3, <3>1, <3>2
  <2>4. CASE sendfileOn /\ k = 0
    BY <2>4 DEF sendChunkEnd
  <2> QED  BY <2>2, <2>3, <2>4
<1>7. CASE body' = body
  <2>1. wire' \o (ringbuf' \o Behind(body.readoffset)') = Frame'
    BY <1>2, <1>5, <1>7, SameFrame
  <2>2. /\ o \in 0 .. Whole' /\ o > 0 /\ (~sendfileOn' => file'.pos = o)
        /\ body'.readoffset = o /\ body'.chunkstate = "EOFON" /\ ~call'.running
    BY <1>1, <1>2, <1>3, <1>7, SameFrame
  <2>3. Chunks'
    BY <2>1, <2>2 DEF Chunks, Sent
  <2> QED  BY <1>1, <1>2, <1>5, <1>7, <2>3, GoingFacts, ChunksGoOn
<1>8. CASE body' = AfterChunk /\ k = Len(ringbuf)
  <2>1. body \in Bodies /\ getFileSize(file) = Whole /\ Whole \in Nat /\ RingSize \in Nat
    BY GoingFacts, BodyAssumption
  <2>2. /\ body' \in Bodies /\ body'.readoffset = o /\ body'.chunksize = RingSize
        /\ body'.chunkstate = IF Whole - o > 0 THEN "UINIT" ELSE "FILEDONE"
    <3>1. body' = [body EXCEPT !.chunksize = RingSize,
                               !.chunkstate = IF Whole - o > 0 THEN "UINIT" ELSE "FILEDONE"]
      BY <1>8, <2>1 DEF AfterChunk
    <3>2. (IF Whole - o > 0 THEN "UINIT" ELSE "FILEDONE") \in ChunkStates /\ RingSize \in Int
      BY <2>1 DEF ChunkStates
    <3> QED  BY <2>1, <3>1, <3>2 DEF Bodies
  <2>3. ringbuf' = <<>> /\ wire' \o Behind(body.readoffset)' = Frame'
    BY <1>2, <1>5, <1>8, <2>2, SameFrame
  <2>4. ~(Whole - o > 0) => wire' \o LastChunk = Frame'
    <3>1. ~(Whole - o > 0) => o = Whole
      BY <1>3, <2>1
    <3>2. o = Whole => Behind(o) = LastChunk
      BY <1>3, BehindFacts DEF Going
    <3> QED  BY <1>2, <1>5, <1>8, <3>1, <3>2, SameFrame
  <2>5. /\ o \in 0 .. Whole' /\ (~sendfileOn' => file'.pos = o) /\ ~call'.running
    BY <1>1, <1>2, <1>3, SameFrame
  <2>6. Chunks'
    BY <2>2, <2>3, <2>4, <2>5 DEF Chunks, Sent
  <2> QED  BY <1>1, <1>2, <1>5, <2>2, <2>6, GoingFacts, ChunksGoOn
<1> QED  BY <1>6, <1>7, <1>8

\* What a sender's step leaves, on each way it can end.
Outcome ==
    /\ phase' \in {"wait", "send"} => Underway'
    /\ phase' = "error" => wire' \in Seq(Tokens) /\ IsPrefix(wire', Frame')
    /\ phase' = "done" => wire' = <<>> \/ wire' = Frame'

LEMMA FrameKept ==
    ASSUME hist'.bytes = hist.bytes, chunked' = chunked PROVE Frame' = Frame
BY DEF Frame

LEMMA SendLastChunkSends ==
    ASSUME Going, ~hist.cut, NEW k \in Nat, k <= Len(ringbuf), sendLastChunk(k) PROVE Outcome
<1> DEFINE o == body.readoffset
<1>1. /\ phase = "send" /\ chunked /\ body.chunkstate = "NULLON" /\ ~call.running /\ ringTakes(k)
      /\ UNCHANGED <<hist, chunked, path>>
  BY DEF sendLastChunk, Sending, Keep
<1>2. wire \o ringbuf = Frame /\ o \in 0 .. Whole /\ (~sendfileOn => file.pos = o)
  BY <1>1, GoingFacts DEF Chunks
<1>3. Frame' = Frame
  BY <1>1, FrameKept
<1>4. /\ wire' \in Seq(Tokens) /\ Rest(ringbuf, k) \in Seq(Tokens)
      /\ wire' \o Rest(ringbuf, k) = Frame
      /\ k = Len(ringbuf) => wire' = Frame
  BY <1>1, <1>2, RingSent
<1>5. CASE k < Len(ringbuf)
  <2>1. phase' = "wait" /\ ringbuf' = Rest(ringbuf, k) /\ UNCHANGED <<file, body, call>>
    BY <1>5 DEF sendLastChunk, ringLeft
  <2>2. SameMessage
    BY <1>1, <2>1, GoingFacts DEF SameMessage, Going, testExist
  <2>3. Chunks'
    BY <1>1, <1>2, <1>4, <2>1, <2>2, SameFrame DEF Chunks, Sent
  <2> QED  BY <1>1, <1>4, <2>1, <2>2, <2>3, GoingFacts, ChunksGoOn DEF Outcome
<1>6. CASE ~(k < Len(ringbuf))
  <2>1. phase' = "done" /\ k = Len(ringbuf)
    BY <1>6, GoingFacts DEF sendLastChunk, DONE
  <2> QED  BY <1>3, <1>4, <2>1 DEF Outcome
<1> QED  BY <1>5, <1>6

\* Wherever the sender is, the wire holds the beginning of the frame.
LEMMA WireBegins ==
    ASSUME Going PROVE wire \in Seq(Tokens) /\ IsPrefix(wire, Frame)
<1>1. wire \in Seq(Tokens) /\ ringbuf \in Seq(Tokens) /\ Whole \in Nat
  BY GoingFacts
<1> DEFINE Left(x) == x \in Seq(Tokens) /\ wire \o x = Frame
<1>2. ASSUME NEW x, Left(x) PROVE IsPrefix(wire, Frame)
  <2>1. IsPrefix(wire, wire \o x)
    BY <1>1, <1>2, PrefixOfJoined
  <2> QED  BY <1>2, <2>1
<1>3. CASE chunked
  <2> DEFINE o == body.readoffset
  <2>1. Chunks /\ o \in 0 .. Whole /\ body.chunkstate \in ChunkStates
    BY <1>3, GoingFacts DEF Bodies
  <2>2. Behind(o) \in Seq(Tokens) /\ LastChunk \in Seq(Tokens) /\ CRLF \in Seq(Tokens)
    BY <2>1, FrameFacts, PieceFacts DEF Going
  <2>3. CRLF \o Behind(o) \in Seq(Tokens) /\ ringbuf \o Behind(o) \in Seq(Tokens)
    BY <1>1, <2>2, Joined
  <2>4. ringbuf \o (CRLF \o Behind(o)) \in Seq(Tokens)
    <3> DEFINE u == CRLF \o Behind(o)
    <3> HIDE DEF u
    <3>1. ringbuf \o u \in Seq(Tokens)
      BY <1>1, <2>3, Joined DEF u
    <3> QED  BY <3>1 DEF u
  <2>5. InChunk => RestOfChunk(o) \in Seq(Tokens) /\ ringbuf \o RestOfChunk(o) \in Seq(Tokens)
    <3> SUFFICES ASSUME InChunk
                 PROVE  RestOfChunk(o) \in Seq(Tokens) /\ ringbuf \o RestOfChunk(o) \in Seq(Tokens)
      OBVIOUS
    <3>1. o # Whole
      BY <1>1, <2>1 DEF InChunk
    <3>2. RestOfChunk(o) \in Seq(Tokens)
      BY <2>1, <3>1, BehindFacts DEF Going
    <3> QED  BY <1>1, <3>2, Joined
  <2>6. CASE body.chunkstate \in {"UINIT", "FILEDONE", "NULLON"}
    <3>1. Left(Behind(o)) \/ Left(LastChunk) \/ Left(ringbuf)
      BY <1>1, <2>1, <2>2, <2>6 DEF Chunks
    <3> HIDE DEF Left
    <3> QED  BY <1>1, <1>2, <3>1
  <2>7. CASE body.chunkstate = "SIZEON"
    <3>1. Left(ringbuf \o RestOfChunk(o))
      BY <2>1, <2>5, <2>7 DEF Chunks
    <3> HIDE DEF Left
    <3> QED  BY <1>1, <1>2, <3>1
  <2>8. CASE body.chunkstate = "SIZEDONE" \/ (body.chunkstate = "DATAON" /\ sendfileOn)
    <3>1. CASE Sent
      <4>1. Left(CRLF \o Behind(o))
        BY <2>1, <2>3, <3>1 DEF Chunks
      <4> HIDE DEF Left
      <4> QED  BY <1>1, <1>2, <4>1
    <3>2. CASE ~Sent
      <4>1. InChunk /\ wire \o RestOfChunk(o) = Frame
        BY <2>1, <2>8, <3>2 DEF Chunks
      <4>2. Left(RestOfChunk(o))
        BY <2>5, <4>1
      <4> HIDE DEF Left
      <4> QED  BY <1>1, <1>2, <4>2
    <3> QED  BY <3>1, <3>2
  <2>9. CASE body.chunkstate = "DATAON" /\ ~sendfileOn
    <3>1. wire \o (ringbuf \o (CRLF \o Behind(o))) = Frame
      BY <2>1, <2>9 DEF Chunks
    <3>2. Left(ringbuf \o (CRLF \o Behind(o)))
      BY <2>4, <3>1
    <3> HIDE DEF Left
    <3> QED  BY <1>1, <1>2, <3>2
  <2>10. CASE body.chunkstate = "DATADONE"
    <3>1. Left(CRLF \o Behind(o))
      BY <2>1, <2>3, <2>10 DEF Chunks
    <3> HIDE DEF Left
    <3> QED  BY <1>1, <1>2, <3>1
  <2>11. CASE body.chunkstate = "EOFON"
    <3>1. Left(ringbuf \o Behind(o))
      BY <2>1, <2>3, <2>11 DEF Chunks
    <3> HIDE DEF Left
    <3> QED  BY <1>1, <1>2, <3>1
  <2> QED  BY <1>1, <2>1, <2>6, <2>7, <2>8, <2>9, <2>10, <2>11 DEF ChunkStates
<1>4. CASE ~chunked
  <2>1. Contents
    BY <1>4, GoingFacts
  <2>2. CRLF \in Seq(Tokens) /\ ringbuf \o CRLF \in Seq(Tokens)
    BY <1>1, PieceFacts, Joined
  <2>3. Frame = Data(1, Whole) \o CRLF /\ Data(1, Whole) \in Seq(Tokens)
    BY <1>4, FrameFacts DEF Going, Frame, ContentFrame, Whole
  <2>4. CASE body.contentDone
    BY <1>1, <1>2, <2>1, <2>4 DEF Contents
  <2>5. CASE ~body.contentDone /\ sendfileOn
    <3> DEFINE p == file.pos
               a == Data(1, p)
               b == Data(p + 1, Whole)
    <3>1. wire = a /\ p \in 0 .. Whole
      BY <2>1, <2>5 DEF Contents
    <3>2. a \in Seq(Tokens) /\ b \in Seq(Tokens) /\ Data(1, Whole) = a \o b
      <4> DEFINE q == Whole - p
      <4>1. p \in Nat /\ q \in Nat /\ 0 \in Nat /\ p + q = Whole /\ 0 + 1 = 1 /\ 0 + p = p
        BY <1>1, <3>1
      <4> HIDE DEF p, q
      <4>2. Data(0 + 1, 0 + p) \in Seq(Tokens) /\ Data(p + 1, p + q) \in Seq(Tokens)
        BY <4>1, DataFacts
      <4>3. Data(1, p) \o Data(p + 1, p + q) = Data(1, p + q)
        BY <4>1, DataGrows
      <4> QED  BY <4>1, <4>2, <4>3
    <3> HIDE DEF a, b
    <3>3. (a \o b) \o CRLF = a \o (b \o CRLF) /\ b \o CRLF \in Seq(Tokens)
      BY <2>2, <3>2, InAnyGrouping, Joined
    <3> QED  BY <1>2, <2>3, <3>1, <3>2, <3>3
  <2>7. CASE ~body.contentDone /\ ~sendfileOn /\ file.readdone
    <3>1. wire \o (ringbuf \o CRLF) = Frame
      BY <2>1, <2>7 DEF Contents
    <3> QED  BY <1>1, <1>2, <2>2, <3>1
  <2>8. CASE ~body.contentDone /\ ~sendfileOn /\ ~file.readdone
    <3> DEFINE p == file.pos
               d == Data(p + 1, Whole) \o CRLF
    <3>1. wire \o (ringbuf \o d) = Frame /\ p \in 0 .. Whole
      BY <2>1, <2>8 DEF Contents
    <3>2. d \in Seq(Tokens)
      <4>1. Whole - p \in Nat /\ p \in Nat /\ p + (Whole - p) = Whole
        BY <1>1, <3>1
      <4>2. Data(p + 1, p + (Whole - p)) \in Seq(Tokens)
        BY <4>1, DataFacts
      <4>3. Data(p + 1, Whole) \in Seq(Tokens)
        BY <4>1, <4>2
      <4> QED  BY <2>2, <4>3, Joined
    <3> HIDE DEF d
    <3>3. ringbuf \o d \in Seq(Tokens)
      BY <1>1, <3>2, Joined
    <3> QED  BY <1>1, <1>2, <3>1, <3>3
  <2> QED  BY <1>1, <2>4, <2>5, <2>7, <2>8
<1> QED  BY <1>3, <1>4 DEF Going

\* continuousReadOut fills the empty ring with the bytes of one chunk, no more and no fewer.
LEMMA ReadChunkSends ==
    ASSUME Going, readChunk PROVE Outcome
<1> DEFINE o == body.readoffset
           c == Size(Whole, o)
           d == Data(o + 1, o + c)
<1>1. /\ phase = "send" /\ chunked /\ body.chunkstate = "SIZEDONE" /\ ~call.running /\ ~sendfileOn
      /\ UNCHANGED <<wire, hist, chunked, path>>
  BY DEF readChunk, Sending, Keep
<1>2. Frame' = Frame
  BY <1>1, FrameKept
<1>3. CASE file.fd = "stale"
  <2>1. phase' = "error"
    BY <1>3 DEF readChunk, ERROR
  <2> QED  BY <1>1, <1>2, <2>1, WireBegins DEF Outcome
<1>4. CASE file.fd # "stale"
  <2>1. /\ ringbuf = <<>> /\ InChunk /\ wire \o RestOfChunk(o) = Frame
        /\ o \in 0 .. Whole /\ file.pos = o
    BY <1>1, GoingFacts DEF Chunks, Sent
  <2>2. Whole \in Nat /\ RingSize \in Nat /\ o \in Nat /\ o # Whole
    BY <2>1, GoingFacts, BodyAssumption DEF InChunk
  <2>3. space = RingSize
    BY <2>1, <2>2 DEF space
  <2>4. /\ c \in Nat /\ c > 0 /\ o + c \in 0 .. Whole /\ d \in Seq(Tokens)
    BY <2>1, <2>2, BehindFacts DEF Going
  <2>5. Least(space, Len(file.bytes) - file.pos) = c
    BY <2>1, <2>3, GoingFacts DEF Size
  <2>6. bytesRead(file, space) = d /\ Len(d) = c
    <3>1. bytesRead(file, space) = SubSeq(Data(1, Whole), o + 1, o + c)
      BY <2>1, <2>5, GoingFacts DEF bytesRead
    <3>2. o + c <= Whole
      BY <2>2, <2>4
    <3>3. SubSeq(Data(1, Whole), o + 1, o + c) = Data(o + 1, o + c) /\ Len(Data(o + 1, o + c)) = c
      <4> HIDE DEF c
      <4>1. Whole \in Nat /\ o \in Nat /\ c \in Nat
        BY <2>2, <2>4
      <4>2. SubSeq(Data(1, Whole), o + 1, o + c) = Data(o + 1, o + c)
        BY <3>2, <4>1, DataInFile
      <4>3. Len(Data(o + 1, o + c)) = c
        BY <4>1, DataFacts
      <4> QED  BY <4>2, <4>3
    <3> QED  BY <3>1, <3>3
  <2> HIDE DEF d, c
  <2>7. /\ ringbuf' = <<>> \o d /\ UNCHANGED <<phase, call>>
        /\ file' = [file EXCEPT !.fd = IF readDone(file, space) THEN "stale" ELSE "open",
                                !.readdone = readDone(file, space), !.pos = @ + c]
        /\ body' = [body EXCEPT !.chunkstate = "DATAON", !.readoffset = @ + c]
    BY <1>4, <2>1, <2>5, <2>6 DEF readChunk, continuousReadOut
  <2>8. ringbuf' = d
    BY <2>4, <2>7, EmptyJoined
  <2>9. /\ body' \in Bodies /\ body'.chunkstate = "DATAON" /\ body'.readoffset = o + c
    <3>1. body \in Bodies /\ o + c \in Int
      BY <2>4, GoingFacts
    <3>2. body' = [body EXCEPT !.chunkstate = "DATAON", !.readoffset = o + c]
      BY <2>7
    <3> QED  BY <3>1, <3>2 DEF Bodies, ChunkStates
  <2>10. /\ file' \in Files /\ file'.pos = o + c /\ file'.bytes = file.bytes
         /\ file'.named = file.named /\ file'.exists = file.exists
    <3>1. file \in Files /\ readDone(file, space) \in BOOLEAN
      BY GoingFacts DEF readDone
    <3>2. (IF readDone(file, space) THEN "stale" ELSE "open") \in {"none", "open", "stale"}
      OBVIOUS
    <3>3. /\ file' = [file EXCEPT !.fd = IF readDone(file, space) THEN "stale" ELSE "open",
                                  !.readdone = readDone(file, space), !.pos = o + c]
          /\ o + c \in Int
      BY <2>1, <2>4, <2>7
    <3> HIDE DEF o
    <3> QED  BY <3>1, <3>2, <3>3 DEF Files
  <2>11. SameMessage
    BY <1>1, <2>10 DEF SameMessage, Going, testExist
  <2>12. wire' \o (ringbuf' \o (CRLF \o Behind(body.readoffset)')) = Frame'
    <3>1. RestOfChunk(o) = d \o (CRLF \o Behind(o + c))
      BY DEF RestOfChunk, d, c
    <3>2. Behind(body.readoffset)' = Behind(o + c)
      BY <2>9, <2>11, SameFrame
    <3> QED  BY <1>1, <1>2, <2>1, <2>8, <3>1, <3>2
  <2>13. /\ o + c \in 0 .. Whole' /\ o + c > 0 /\ ~sendfileOn' /\ ~call'.running
    BY <1>1, <2>2, <2>4, <2>7, <2>11, SameFrame
  <2>14. Chunks'
    BY <2>9, <2>10, <2>12, <2>13 DEF Chunks, Sent
  <2>15. Underway'
    BY <1>1, <2>4, <2>7, <2>8, <2>9, <2>11, <2>14, GoingFacts, ChunksGoOn
  <2> QED  BY <1>1, <2>7, <2>15 DEF Outcome
<1> QED  BY <1>3, <1>4

LEMMA SendFileChunkSends ==
    ASSUME Going, sendFileChunk PROVE Underway'
<1> DEFINE o == body.readoffset
           c == Size(Whole, o)
<1>1. /\ chunked /\ body.chunkstate \in {"SIZEDONE", "DATAON"} /\ ~call.running /\ sendfileOn
      /\ UNCHANGED <<ringbuf, wire, hist, chunked, path>>
  BY DEF sendFileChunk, Sending, Keep
<1>2. /\ ringbuf = <<>> /\ InChunk /\ wire \o RestOfChunk(o) = Frame
      /\ o \in 0 .. Whole
  BY <1>1, GoingFacts DEF Chunks, Sent
<1>3. /\ Whole \in Nat /\ o \in Nat /\ o < Whole /\ body.chunksize = c
      /\ getFileSize(file) = Whole
  BY <1>2, GoingFacts DEF InChunk
<1>4. c \in Nat /\ c > 0 /\ o + c \in 0 .. Whole
  <2>1. o # Whole
    BY <1>3
  <2> QED  BY <1>2, <2>1, BehindFacts DEF Going
<1>5. Least(body.chunksize, getFileSize(file) - body.readoffset) = c
  <2> HIDE DEF c
  <2>1. c <= Whole - o
    BY <1>3, <1>4
  <2>2. Least(c, Whole - o) = c
    BY <1>3, <1>4, <2>1 DEF Least
  <2> QED  BY <1>3, <2>2
<1>6. /\ body' = body /\ file' = [file EXCEPT !.fd = "open"]
      /\ call' = [running |-> TRUE, old |-> o, left |-> c]
  BY <1>3, <1>5 DEF sendFileChunk, openFile
<1>7. /\ file' \in Files /\ file'.bytes = file.bytes
      /\ file'.named = file.named /\ file'.exists = file.exists
  <2>1. file \in Files
    BY GoingFacts
  <2> QED  BY <1>6, <2>1 DEF Files
<1>8. SameMessage
  BY <1>1, <1>7 DEF SameMessage, Going, testExist
<1>9. /\ call' \in Calls /\ call'.running /\ call'.left = c /\ call'.old = o
  BY <1>3, <1>4, <1>6 DEF Calls
<1>10. InChunk'
  BY <1>2, <1>6, <1>8, SameFrame DEF InChunk
<1>11. wire' \o RestOfChunk(body.readoffset)' = Frame'
  BY <1>1, <1>2, <1>6, <1>8, SameFrame
<1>12. ~Sent' /\ o \in 0 .. Whole' /\ sendfileOn' /\ body'.chunksize = c
  BY <1>1, <1>2, <1>3, <1>4, <1>6, <1>8, <1>9, SameFrame DEF Sent
<1>13. Chunks'
  <2> HIDE DEF c
  <2> QED  BY <1>1, <1>2, <1>6, <1>9, <1>10, <1>11, <1>12 DEF Chunks
<1> QED  BY <1>1, <1>6, <1>8, <1>9, <1>13, GoingFacts, ChunksGoOn

\* sendfile() moves all it was asked for: one chunk, and the offset behind it.
LEMMA TakesChunk ==
    ASSUME Going, ~hist.cut, ~hist'.cut, chunked, NEW n \in Nat, takes(n) PROVE Underway'
<1> DEFINE o == body.readoffset
           d == Data(o + 1, o + n)
<1>1. /\ call.running /\ call.left > 0 /\ n <= call.left
      /\ call' = [call EXCEPT !.left = @ - n]
      /\ body' = [body EXCEPT !.readoffset = @ + n + (IF n < call.left THEN n ELSE 0)]
      /\ hist' = [hist EXCEPT !.cut = @ \/ (chunked /\ n < call.left)]
      /\ wire' = wire \o SubSeq(file.bytes, o + 1, o + n)
      /\ UNCHANGED <<file, ringbuf, chunked, path>>
  BY DEF takes, put, Offset, Keep
<1>2. hist \in Hists /\ body \in Bodies /\ call \in Calls /\ wire \in Seq(Tokens)
  BY GoingFacts DEF Going
<1>3. hist' \in Hists /\ hist'.bytes = hist.bytes /\ ~(n < call.left)
  BY <1>1, <1>2 DEF Hists
<1>4. n = call.left
  BY <1>1, <1>2, <1>3 DEF Calls
<1>5. ~Sent /\ sendfileOn /\ body.chunkstate \in {"SIZEDONE", "DATAON"}
  BY <1>1, <1>2, GoingFacts DEF Chunks, Sent, Calls
<1>6. /\ ringbuf = <<>> /\ InChunk /\ wire \o RestOfChunk(o) = Frame
      /\ o \in 0 .. Whole /\ call.left = body.chunksize
  BY <1>1, <1>5, GoingFacts DEF Chunks
<1>7. /\ Whole \in Nat /\ o \in Nat /\ o # Whole /\ n = Size(Whole, o)
  BY <1>4, <1>6, GoingFacts DEF InChunk
<1>8. /\ n > 0 /\ o + n \in 0 .. Whole /\ d \in Seq(Tokens) /\ CRLF \o Behind(o + n) \in Seq(Tokens)
  BY <1>6, <1>7, BehindFacts DEF Going
<1>9. RestOfChunk(o) = d \o (CRLF \o Behind(o + n))
  BY <1>7 DEF RestOfChunk
<1>10. wire' = wire \o d
  <2>1. o + n <= Whole
    BY <1>7, <1>8
  <2>2. SubSeq(Data(1, Whole), o + 1, o + n) = Data(o + 1, o + n)
    BY <1>7, <2>1, DataInFile
  <2> QED  BY <1>1, <2>2, GoingFacts
<1>11. body' \in Bodies /\ body'.readoffset = o + n /\ body'.chunkstate = body.chunkstate
  <2>0. o + n + (IF n < call.left THEN n ELSE 0) = o + n /\ o + n \in Int
    BY <1>3, <1>7
  <2>1. body' = [body EXCEPT !.readoffset = o + n] /\ o + n \in Int
    BY <1>1, <2>0
  <2> HIDE DEF o
  <2> QED  BY <1>2, <2>1 DEF Bodies
<1>12. call' \in Calls /\ call'.running /\ call'.left = 0
  <2>1. call.left - n = 0 /\ 0 \in Int
    BY <1>2, <1>4 DEF Calls
  <2>2. call' = [call EXCEPT !.left = 0]
    BY <1>1, <2>1
  <2>3. call' \in Calls /\ call'.running = call.running /\ call'.left = 0
    BY <1>2, <2>1, <2>2 DEF Calls
  <2> QED  BY <1>1, <2>3
<1>13. SameMessage
  BY <1>1, <1>3, GoingFacts DEF SameMessage, Going, testExist
<1>14. wire' \in Seq(Tokens) /\ wire' \o (CRLF \o Behind(o + n)) = Frame
  <2> DEFINE t == CRLF \o Behind(o + n)
  <2> HIDE DEF t, d
  <2>1. wire \in Seq(Tokens) /\ d \in Seq(Tokens) /\ t \in Seq(Tokens)
    BY <1>2, <1>8 DEF t
  <2>2. wire \o d \in Seq(Tokens) /\ (wire \o d) \o t = wire \o (d \o t)
    BY <2>1, Joined, InAnyGrouping
  <2>3. wire \o (d \o t) = Frame
    BY <1>6, <1>9 DEF t
  <2>4. wire' \in Seq(Tokens) /\ wire' \o t = Frame
    BY <1>10, <2>2, <2>3
  <2> QED  BY <2>4 DEF t
<1>15. wire' \o (CRLF \o Behind(body.readoffset)') = Frame'
  BY <1>11, <1>13, <1>14, SameFrame
<1>16. Sent' /\ o + n \in 0 .. Whole' /\ o + n > 0 /\ sendfileOn'
  BY <1>5, <1>7, <1>8, <1>12, <1>13, SameFrame DEF Sent
<1>17. Chunks'
  <2> HIDE DEF o
  <2> QED  BY <1>1, <1>5, <1>6, <1>11, <1>12, <1>15, <1>16 DEF Chunks
<1> QED  BY <1>1, <1>6, <1>11, <1>12, <1>13, <1>14, <1>17, GoingFacts, ChunksGoOn

LEMMA StoppedChunk ==
    ASSUME Going, chunked, stopped PROVE Underway'
<1> DEFINE o == body.readoffset
<1>1. /\ call.running /\ call.left > 0 /\ call' = NoCall
      /\ body' = [body EXCEPT !.chunkstate = "DATAON", !.chunksize = @ - (o - call.old)]
      /\ UNCHANGED <<file, hist, ringbuf, wire, chunked, path>>
  BY DEF stopped, Keep
<1>2. body \in Bodies /\ call \in Calls
  BY GoingFacts
<1>3. ~Sent /\ sendfileOn /\ body.chunkstate \in {"SIZEDONE", "DATAON"}
  BY <1>1, <1>2, GoingFacts DEF Chunks, Sent, Calls
<1>4. /\ ringbuf = <<>> /\ InChunk /\ wire \o RestOfChunk(o) = Frame
      /\ o \in 0 .. Whole /\ call.old = o
  BY <1>1, <1>3, GoingFacts DEF Chunks
<1>5. /\ body' \in Bodies /\ body'.chunkstate = "DATAON" /\ body'.readoffset = o
      /\ body'.chunksize = body.chunksize
  <2>1. body.chunksize - (o - call.old) = body.chunksize /\ body.chunksize \in Int
    BY <1>2, <1>4 DEF Bodies
  <2>2. body' = [body EXCEPT !.chunkstate = "DATAON", !.chunksize = body.chunksize]
    BY <1>1, <2>1
  <2> QED  BY <1>2, <2>1, <2>2 DEF Bodies, ChunkStates
<1>6. call' \in Calls /\ ~call'.running
  BY <1>1 DEF NoCall, Calls
<1>7. SameMessage
  BY <1>1, GoingFacts DEF SameMessage, Going, testExist
<1>8. InChunk'
  BY <1>4, <1>5, <1>7, SameFrame DEF InChunk
<1>9. wire' \o RestOfChunk(body.readoffset)' = Frame'
  BY <1>1, <1>4, <1>5, <1>7, SameFrame
<1>10. ~Sent' /\ o \in 0 .. Whole' /\ sendfileOn'
  BY <1>3, <1>4, <1>6, <1>7, SameFrame DEF Sent
<1>11. Chunks'
  <2> HIDE DEF o
  <2> QED  BY <1>1, <1>4, <1>5, <1>6, <1>8, <1>9, <1>10 DEF Chunks
<1> QED  BY <1>1, <1>5, <1>6, <1>7, <1>11, GoingFacts, ChunksGoOn

LEMMA ResetFileFacts ==
    ASSUME NEW f \in Files
    PROVE  /\ fileReset(f) \in Files /\ fileReset(f).bytes = f.bytes
           /\ fileReset(f).named = f.named /\ fileReset(f).exists = f.exists
<1>1. fileReset(f) = [f EXCEPT !.fd = "none", !.pos = 0, !.readdone = FALSE, !.cur = 0]
  BY DEF fileReset
<1>2. "none" \in {"none", "open", "stale"} /\ 0 \in Int /\ FALSE \in BOOLEAN
  OBVIOUS
<1>3. fileReset(f) \in Files
  BY <1>1, <1>2 DEF Files
<1> QED  BY <1>1, <1>3 DEF Files

LEMMA SendfileDoneChunk ==
    ASSUME Going, chunked, sendfileDone PROVE Underway'
<1> DEFINE o == body.readoffset
<1>1. /\ call.running /\ call.left <= 0 /\ call' = NoCall /\ file' = fileReset(file)
      /\ body' = [body EXCEPT !.chunkstate = "DATADONE"]
      /\ UNCHANGED <<hist, ringbuf, wire, chunked, path>>
  BY DEF sendfileDone, Keep
<1>2. Sent /\ sendfileOn
  BY <1>1, GoingFacts DEF Chunks, Sent
<1>3. wire \o (CRLF \o Behind(o)) = Frame /\ o \in 0 .. Whole /\ o > 0
  BY <1>2, GoingFacts DEF Chunks
<1>4. body' \in Bodies /\ body'.chunkstate = "DATADONE" /\ body'.readoffset = o
  <2>1. body \in Bodies
    BY GoingFacts
  <2> QED  BY <1>1, <2>1 DEF Bodies, ChunkStates
<1>5. call' \in Calls /\ ~call'.running
  BY <1>1 DEF NoCall, Calls
<1>6. SameMessage
  BY <1>1, GoingFacts, ResetFileFacts DEF SameMessage, Going, testExist
<1>7. wire' \o (CRLF \o Behind(body.readoffset)') = Frame'
  <2>1. Behind(body.readoffset)' = Behind(o) /\ Frame' = Frame /\ wire' = wire
    BY <1>1, <1>4, <1>6, SameFrame
  <2> QED  BY <1>3, <2>1
<1>8. ~Sent' /\ o \in 0 .. Whole' /\ sendfileOn'
  BY <1>2, <1>3, <1>5, <1>6, SameFrame DEF Sent
<1>9. Chunks'
  <2> HIDE DEF o
  <2> QED  BY <1>3, <1>4, <1>5, <1>7, <1>8 DEF Chunks
<1> QED  BY <1>1, <1>4, <1>5, <1>6, <1>9, GoingFacts, ChunksGoOn

\* send2Socket is called again: an empty body starts its last chunk, of which nothing was sent.
LEMMA RecallChunk ==
    ASSUME Going, chunked, ~hist'.cut, recall PROVE Underway'
<1> DEFINE o == body.readoffset
<1>1. /\ UNCHANGED <<file, ringbuf, call, wire, chunked, path>>
      /\ body' = IF getFileSize(file) = 0 THEN [body EXCEPT !.chunkstate = "FILEDONE"] ELSE body
      /\ hist' = [hist EXCEPT !.cut = @ \/ (chunked /\ getFileSize(file) = 0
                                            /\ body.chunkstate = "NULLON" /\ ringbuf # LastChunk)]
  BY DEF recall, Keep
<1>2. hist \in Hists /\ body \in Bodies /\ call \in Calls /\ getFileSize(file) = Whole /\ Whole \in Nat
  BY GoingFacts DEF Going
<1>3. /\ hist' \in Hists /\ hist'.bytes = hist.bytes
      /\ ~(Whole = 0 /\ body.chunkstate = "NULLON" /\ ringbuf # LastChunk)
  BY <1>1, <1>2 DEF Hists
<1>4. SameMessage
  BY <1>1, <1>3, GoingFacts DEF SameMessage, Going, testExist
<1>5. Chunks /\ o \in 0 .. Whole
  BY GoingFacts
<1>6. CASE Whole # 0
  <2>1. body' = body
    BY <1>1, <1>2, <1>6
  <2>2. InChunk' = InChunk /\ Sent' = Sent
    BY <1>1, <1>4, <2>1, SameFrame DEF InChunk, Sent
  <2>3. Behind(body.readoffset)' = Behind(o) /\ RestOfChunk(body.readoffset)' = RestOfChunk(o)
    BY <1>4, <2>1, SameFrame
  <2>4. Whole' = Whole /\ Frame' = Frame /\ sendfileOn' = sendfileOn
    BY <1>4, SameFrame
  <2>5. Chunks'
    <3> HIDE DEF o
    <3> QED  BY <1>1, <1>5, <2>1, <2>2, <2>3, <2>4 DEF Chunks, o
  <2> QED  BY <1>1, <1>4, <2>1, <2>5, GoingFacts, ChunksGoOn
<1>7. CASE Whole = 0
  <2>1. body' = [body EXCEPT !.chunkstate = "FILEDONE"]
    BY <1>1, <1>2, <1>7
  <2>2. o = 0 /\ o = Whole /\ ~InChunk
    BY <1>5, <1>7 DEF InChunk
  <2>3. body.chunkstate \in {"UINIT", "FILEDONE", "NULLON"} /\ ~call.running
    <3>1. body.chunkstate \in ChunkStates
      BY <1>2 DEF Bodies
    <3> QED  BY <1>5, <2>2, <3>1 DEF Chunks, ChunkStates
  <2>4. wire \o LastChunk = Frame
    <3>1. Behind(o) = LastChunk
      BY <1>5, <2>2, BehindFacts DEF Going
    <3> QED  BY <1>3, <1>5, <1>7, <2>3, <3>1 DEF Chunks
  <2>5. body' \in Bodies /\ body'.chunkstate = "FILEDONE" /\ body'.readoffset = o
    BY <1>2, <2>1 DEF Bodies, ChunkStates
  <2>6. /\ Whole' = Whole /\ Frame' = Frame /\ (~sendfileOn' => file'.pos = o)
    BY <1>1, <1>4, <1>5, SameFrame DEF Chunks
  <2>7. Chunks'
    BY <1>1, <1>5, <2>3, <2>4, <2>5, <2>6 DEF Chunks, Sent
  <2> QED  BY <1>1, <1>4, <2>5, <2>7, GoingFacts, ChunksGoOn
<1> QED  BY <1>6, <1>7

-----------------------------------------------------------------------------
(* The steps of a body that is sent as it is.                                *)

LEMMA DataSplit ==
    ASSUME NEW m \in Nat, NEW a \in Nat, NEW b \in Nat
    PROVE  Data(m + 1, m + a) \o Data((m + a) + 1, (m + a) + b) = Data(m + 1, m + (a + b))
<1> DEFINE x == Data(m + 1, m + a)
           y == Data((m + a) + 1, (m + a) + b)
           z == Data(m + 1, m + (a + b))
<1>1. x \in Seq(Tokens) /\ Len(x) = a /\ \A i \in 1 .. a : x[i] = Token("byte", m + i)
  BY DataFacts
<1>2. y \in Seq(Tokens) /\ Len(y) = b /\ \A i \in 1 .. b : y[i] = Token("byte", (m + a) + i)
  <2> DEFINE k == m + a
  <2>1. k \in Nat
    OBVIOUS
  <2> HIDE DEF k
  <2>2. /\ Data(k + 1, k + b) \in Seq(Tokens) /\ Len(Data(k + 1, k + b)) = b
        /\ \A i \in 1 .. b : Data(k + 1, k + b)[i] = Token("byte", k + i)
    BY <2>1, DataFacts
  <2> QED  BY <2>2 DEF k
<1>3. z \in Seq(Tokens) /\ Len(z) = a + b /\ \A i \in 1 .. a + b : z[i] = Token("byte", m + i)
  <2> DEFINE k == a + b
  <2>1. k \in Nat
    OBVIOUS
  <2> HIDE DEF k
  <2>2. /\ Data(m + 1, m + k) \in Seq(Tokens) /\ Len(Data(m + 1, m + k)) = k
        /\ \A i \in 1 .. k : Data(m + 1, m + k)[i] = Token("byte", m + i)
    BY <2>1, DataFacts
  <2> QED  BY <2>2 DEF k
<1> HIDE DEF x, y, z
<1>4. /\ x \o y \in Seq(Tokens) /\ Len(x \o y) = a + b
      /\ \A i \in 1 .. a + b : (x \o y)[i] = IF i <= a THEN x[i] ELSE y[i - a]
  BY <1>1, <1>2, ConcatProperties
<1>5. ASSUME NEW i \in 1 .. a + b PROVE (x \o y)[i] = z[i]
  <2>1. CASE i <= a
    BY <1>1, <1>3, <1>4, <2>1
  <2>2. CASE ~(i <= a)
    <3>1. i - a \in 1 .. b /\ (m + a) + (i - a) = m + i
      BY <2>2
    <3>2. y[i - a] = Token("byte", m + i)
      BY <1>2, <3>1
    <3> QED  BY <1>3, <1>4, <2>2, <3>2
  <2> QED  BY <2>1, <2>2
<1>6. x \o y = z
  BY <1>3, <1>4, <1>5, SeqEqual
<1> QED  BY <1>6 DEF x, y, z

\* What is left of the file behind its first p bytes, with the c that follow them read.
Halves(n, p, c) ==
    /\ Data(p + 1, p + c) \in Seq(Tokens) /\ Len(Data(p + 1, p + c)) = c
    /\ Data(p + c + 1, n) \in Seq(Tokens) /\ Len(Data(p + c + 1, n)) = n - (p + c)
    /\ Data(p + 1, n) = Data(p + 1, p + c) \o Data(p + c + 1, n)

LEMMA FileSplit ==
    ASSUME NEW n \in Nat, NEW p \in Nat, NEW c \in Nat, p + c <= n PROVE Halves(n, p, c)
<1> DEFINE b == n - (p + c)
           k == p + c
<1>1. b \in Nat /\ k \in Nat /\ k + b = n /\ p + (c + b) = n
  OBVIOUS
<1>2. Data(p + 1, p + c) \in Seq(Tokens) /\ Len(Data(p + 1, p + c)) = c
  BY DataFacts
<1>3. Data(p + 1, p + c) \o Data((p + c) + 1, (p + c) + b) = Data(p + 1, p + (c + b))
  <2> HIDE DEF b
  <2> QED  BY <1>1, DataSplit
<1> HIDE DEF b, k
<1>4. Data(k + 1, k + b) \in Seq(Tokens) /\ Len(Data(k + 1, k + b)) = b
  BY <1>1, DataFacts
<1>5. Data(k + 1, n) \in Seq(Tokens) /\ Len(Data(k + 1, n)) = b
  BY <1>1, <1>4
<1>6. Data(p + 1, p + c) \o Data(k + 1, n) = Data(p + 1, n)
  BY <1>1, <1>3, Zenon DEF k
<1> QED  BY <1>2, <1>5, <1>6 DEF b, k, Halves

LEMMA ContentsGoOn ==
    ASSUME Going, SameMessage, ~chunked, body' \in Bodies, call' \in Calls,
           ringbuf' \in Seq(Tokens), wire' \in Seq(Tokens), Contents'
    PROVE  Underway'
<1>1. file'.bytes = Data(1, Whole')
  BY GoingFacts, SameFrame DEF SameMessage
<1> QED  BY <1>1 DEF Underway, SameMessage

LEMMA SendContentRestSends ==
    ASSUME Going, ~hist.cut, NEW k \in Nat, sendContentRest(k) PROVE Outcome
<1>1. /\ phase = "send" /\ ~chunked /\ ~sendfileOn /\ ~call.running /\ file.readdone
      /\ k <= Len(ringbuf) /\ ringTakes(k) /\ UNCHANGED <<hist, chunked, path>>
  BY DEF sendContentRest, Content, Keep
<1>2. Contents /\ body \in Bodies /\ ringbuf \in Seq(Tokens) /\ Len(ringbuf) \in Nat
  BY <1>1, GoingFacts
<1>3. Frame' = Frame
  BY <1>1, FrameKept
<1>4. /\ wire' \in Seq(Tokens) /\ Rest(ringbuf, k) \in Seq(Tokens)
      /\ wire' \o Rest(ringbuf, k) = wire \o ringbuf
      /\ wire' \o (Rest(ringbuf, k) \o CRLF) = wire \o (ringbuf \o CRLF)
      /\ k = Len(ringbuf) => wire' = wire \o ringbuf /\ wire' \o CRLF = wire \o (ringbuf \o CRLF)
  BY <1>1, RingSent, PieceFacts
<1>5. CASE k = Len(ringbuf) /\ body.contentDone
  <2>1. phase' = "done"
    BY <1>5 DEF sendContentRest, DONE
  <2>2. wire \o ringbuf = Frame
    BY <1>2, <1>5 DEF Contents
  <2> QED  BY <1>3, <1>4, <1>5, <2>1, <2>2 DEF Outcome
<1>6. CASE ~(k = Len(ringbuf) /\ body.contentDone)
  <2>1. /\ ringbuf' = IF k = Len(ringbuf) THEN CRLF ELSE Rest(ringbuf, k)
        /\ body' = [body EXCEPT !.contentDone = @ \/ k = Len(ringbuf)]
        /\ phase' = (IF k < Len(ringbuf) THEN "wait" ELSE phase)
        /\ UNCHANGED <<file, call>>
    BY <1>6 DEF sendContentRest, ringHolds, ringLeft
  <2>2. SameMessage
    BY <1>1, <2>1, GoingFacts DEF SameMessage, Going, testExist
  <2>3. body' \in Bodies /\ body'.contentDone = (body.contentDone \/ k = Len(ringbuf))
    BY <1>2, <2>1 DEF Bodies
  <2>4. ringbuf' \in Seq(Tokens)
    BY <1>4, <2>1, PieceFacts
  <2>5. IF body'.contentDone THEN wire' \o ringbuf' = Frame ELSE wire' \o (ringbuf' \o CRLF) = Frame
    <3>1. CASE body.contentDone
      <4>1. wire \o ringbuf = Frame /\ ringbuf' = Rest(ringbuf, k)
        BY <1>2, <1>6, <2>1, <3>1 DEF Contents
      <4> QED  BY <1>4, <2>3, <3>1, <4>1
    <3>2. CASE ~body.contentDone
      <4>1. wire \o (ringbuf \o CRLF) = Frame
        BY <1>1, <1>2, <3>2 DEF Contents
      <4> QED  BY <1>4, <2>1, <2>3, <3>2, <4>1
    <3> QED  BY <3>1, <3>2
  <2>6. Contents'
    <3>1. /\ ~sendfileOn' /\ ~call'.running /\ file'.readdone /\ Frame' = Frame
      BY <1>1, <1>3, <2>1, <2>2, SameFrame
    <3> QED  BY <2>5, <3>1 DEF Contents
  <2>7. Underway'
    BY <1>1, <1>4, <2>1, <2>2, <2>3, <2>4, <2>6, GoingFacts, ContentsGoOn
  <2> QED  BY <1>1, <2>1, <2>7 DEF Outcome
<1> QED  BY <1>5, <1>6

LEMMA SendContentEndSends ==
    ASSUME Going, ~hist.cut, NEW k \in Nat, k <= Len(ringbuf), sendContentEnd(k) PROVE Outcome
<1>1. /\ phase = "send" /\ ~chunked /\ sendfileOn /\ ~call.running /\ body.contentDone
      /\ ringTakes(k) /\ UNCHANGED <<hist, chunked, path>>
  BY DEF sendContentEnd, Content, Keep
<1>2. wire \o ringbuf = Frame
  BY <1>1, GoingFacts DEF Contents
<1>3. Frame' = Frame
  BY <1>1, FrameKept
<1>4. /\ wire' \in Seq(Tokens) /\ Rest(ringbuf, k) \in Seq(Tokens)
      /\ wire' \o Rest(ringbuf, k) = Frame
      /\ k = Len(ringbuf) => wire' = Frame
  BY <1>1, <1>2, RingSent
<1>5. CASE k = Len(ringbuf)
  <2>1. phase' = "done"
    BY <1>5 DEF sendContentEnd, DONE
  <2> QED  BY <1>3, <1>4, <1>5, <2>1 DEF Outcome
<1>6. CASE k # Len(ringbuf)
  <2>1. phase' = "wait" /\ ringbuf' = Rest(ringbuf, k) /\ UNCHANGED <<file, body, call>>
    BY <1>6 DEF sendContentEnd, ringLeft
  <2>2. SameMessage
    BY <1>1, <2>1, GoingFacts DEF SameMessage, Going, testExist
  <2>3. Contents'
    BY <1>1, <1>3, <1>4, <2>1, <2>2, SameFrame DEF Contents, Sent
  <2> QED  BY <1>1, <1>4, <2>1, <2>2, <2>3, GoingFacts, ContentsGoOn DEF Outcome
<1> QED  BY <1>5, <1>6

\* One turn of sendContent's first loop, unless it goes on with old memory.
LEMMA SendContentStep ==
    ASSUME hist \in Hists, NEW k, sendContent(k), ~hist'.cut
    PROVE  LET full == ringbuf \o bytesRead(file, space)
               f == continuousReadOut(file, space)
               ends == k >= Len(full) /\ f.readdone
           IN  /\ Content(FALSE) /\ ~file.readdone
               /\ k <= Len(full) /\ put(First(full, k))
               /\ ringbuf' = IF ends THEN CRLF ELSE Rest(full, k)
               /\ body' = [body EXCEPT !.contentDone = @ \/ ends]
               /\ phase' = IF k < Len(full) THEN "wait" ELSE phase
               /\ file' = f /\ UNCHANGED <<call, hist>> /\ Keep
<1> DEFINE full == ringbuf \o bytesRead(file, space)
           last == k = Len(full)
                   /\ drainsForEver(writtenInFromFile(ptr, Len(bytesRead(file, space))))
<1>1. CASE last
  <2>1. hist' = [hist EXCEPT !.cut = TRUE]
    BY <1>1 DEF sendContent
  <2>2. hist'.cut
    BY <2>1 DEF Hists
  <2> QED  BY <2>2
<1>2. CASE ~last
  BY <1>2, Zenon DEF sendContent
<1> QED  BY <1>1, <1>2

\* The ring is filled from the file and k bytes go out.
LEMMA SendContentSends ==
    ASSUME Going, ~hist.cut, ~hist'.cut, NEW k \in Nat, sendContent(k) PROVE Outcome
<1>0. hist \in Hists
  BY DEF Going
<1> DEFINE p == file.pos
           c == Least(space, Len(file.bytes) - file.pos)
           d == Data(p + 1, p + c)
           e == Data(p + c + 1, Whole)
           full == ringbuf \o d
           done == c < space
           ends == k >= Len(full) /\ done
<1>1. /\ phase = "send" /\ ~chunked /\ ~sendfileOn /\ ~call.running /\ ~file.readdone
      /\ UNCHANGED <<call, hist, chunked, path>>
  BY <1>0, SendContentStep DEF Content, Keep
<1>2. /\ Contents /\ body \in Bodies /\ file \in Files
      /\ ringbuf \in Seq(Tokens) /\ Len(ringbuf) \in Nat /\ wire \in Seq(Tokens)
      /\ Whole \in Nat /\ Len(file.bytes) = Whole /\ RingSize \in Nat
  BY <1>1, GoingFacts, BodyAssumption
<1>3. /\ ~body.contentDone /\ p \in 0 .. Whole /\ p \in Nat /\ Len(ringbuf) <= RingSize
      /\ wire \o (ringbuf \o (Data(p + 1, Whole) \o CRLF)) = Frame
  <2>1. /\ ~body.contentDone /\ p \in 0 .. Whole /\ Len(ringbuf) <= RingSize
        /\ wire \o (ringbuf \o (Data(p + 1, Whole) \o CRLF)) = Frame
    BY <1>1, <1>2 DEF Contents
  <2>2. p \in Nat
    BY <1>2, <2>1
  <2> QED  BY <2>1, <2>2
<1>4. /\ space \in Nat /\ c \in Nat /\ p + c <= Whole /\ c <= space
      /\ done => p + c = Whole
  <2>1. space \in Nat
    BY <1>2, <1>3 DEF space
  <2>2. /\ Least(space, Whole - p) \in Nat /\ p + Least(space, Whole - p) <= Whole
        /\ Least(space, Whole - p) <= space
        /\ Least(space, Whole - p) < space => p + Least(space, Whole - p) = Whole
    BY <1>2, <1>3, <2>1 DEF Least
  <2> QED  BY <1>2, <2>1, <2>2
<1>5. bytesRead(file, space) = d
  <2>1. bytesRead(file, space) = SubSeq(Data(1, Whole), p + 1, p + c)
    BY GoingFacts DEF bytesRead
  <2> HIDE DEF c, p
  <2>2. Whole \in Nat /\ p \in Nat /\ c \in Nat /\ p + c <= Whole
    BY <1>2, <1>3, <1>4
  <2>3. SubSeq(Data(1, Whole), p + 1, p + c) = Data(p + 1, p + c)
    BY <2>2, DataInFile
  <2> QED  BY <2>1, <2>3
<1>6. /\ d \in Seq(Tokens) /\ Len(d) = c /\ e \in Seq(Tokens) /\ Len(e) = Whole - (p + c)
      /\ Data(p + 1, Whole) = d \o e
  <2> HIDE DEF c, p
  <2>1. Whole \in Nat /\ p \in Nat /\ c \in Nat /\ p + c <= Whole
    BY <1>2, <1>3, <1>4
  <2>2. Halves(Whole, p, c)
    BY <2>1, FileSplit
  <2> QED  BY <2>2, Zenon DEF Halves
<1>7. readDone(file, space) = done
  BY DEF readDone
<1>8. /\ k <= Len(full) /\ wire' = wire \o First(full, k)
      /\ ringbuf' = (IF ends THEN CRLF ELSE Rest(full, k))
      /\ body' = [body EXCEPT !.contentDone = @ \/ ends]
      /\ phase' = (IF k < Len(full) THEN "wait" ELSE phase)
      /\ file' = [file EXCEPT !.fd = IF done THEN "stale" ELSE "open", !.readdone = done,
                              !.pos = p + c]
  <2>1. file' = continuousReadOut(file, space) /\ file'.readdone = done
    <3>1. file' = continuousReadOut(file, space)
      BY <1>0, SendContentStep
    <3>2. continuousReadOut(file, space).readdone = readDone(file, space)
      BY <1>2 DEF continuousReadOut, Files
    <3> QED  BY <1>7, <3>1, <3>2
  <2>2. continuousReadOut(file, space) =
           [file EXCEPT !.fd = IF done THEN "stale" ELSE "open", !.readdone = done, !.pos = p + c]
    BY <1>7 DEF continuousReadOut
  <2> HIDE DEF c, d
  <2>3. /\ k <= Len(full) /\ wire' = wire \o First(full, k)
        /\ ringbuf' = (IF k >= Len(full) /\ file'.readdone THEN CRLF ELSE Rest(full, k))
        /\ body' = [body EXCEPT !.contentDone = @ \/ (k >= Len(full) /\ file'.readdone)]
        /\ phase' = (IF k < Len(full) THEN "wait" ELSE phase)
    <3>1. LET r == ringbuf \o bytesRead(file, space)
              f == continuousReadOut(file, space)
              z == k >= Len(r) /\ f.readdone
          IN  /\ k <= Len(r) /\ put(First(r, k))
              /\ ringbuf' = IF z THEN CRLF ELSE Rest(r, k)
              /\ body' = [body EXCEPT !.contentDone = @ \/ z]
              /\ phase' = IF k < Len(r) THEN "wait" ELSE phase
      BY <1>0, SendContentStep, Zenon
    <3> QED  BY <1>5, <2>1, <3>1, Zenon DEF put
  <2> QED  BY <2>1, <2>2, <2>3
<1> HIDE DEF c, d, e, done
<1>9. full \in Seq(Tokens) /\ Len(full) = Len(ringbuf) + c /\ Len(full) \in Nat
  <2>1. ringbuf \in Seq(Tokens) /\ d \in Seq(Tokens)
    BY <1>2, <1>6
  <2>2. full \in Seq(Tokens) /\ Len(full) = Len(ringbuf) + Len(d)
    BY <2>1, Joined, Zenon
  <2> QED  BY <1>2, <1>4, <1>6, <2>2
<1>10. CRLF \in Seq(Tokens) /\ e \o CRLF \in Seq(Tokens)
  BY <1>6, PieceFacts, Joined
<1>11. wire \o (full \o (e \o CRLF)) = Frame
  <2>1. (d \o e) \o CRLF = d \o (e \o CRLF)
    BY <1>6, <1>10, InAnyGrouping
  <2> DEFINE t == e \o CRLF
  <2> HIDE DEF t
  <2>2. ringbuf \in Seq(Tokens) /\ d \in Seq(Tokens) /\ t \in Seq(Tokens)
    BY <1>2, <1>6, <1>10 DEF t
  <2>3. (ringbuf \o d) \o t = ringbuf \o (d \o t)
    BY <2>2, InAnyGrouping
  <2>4. Data(p + 1, Whole) \o CRLF = d \o t
    BY <1>6, <2>1 DEF t
  <2>5. wire \o ((ringbuf \o d) \o t) = Frame
    BY <1>3, <2>3, <2>4
  <2> QED  BY <2>5 DEF t
<1>12. done => e \o CRLF = CRLF
  <2> SUFFICES ASSUME done PROVE e \o CRLF = CRLF
    OBVIOUS
  <2>1. Len(e) = 0
    BY <1>2, <1>4, <1>6
  <2>2. e = <<>>
    BY <1>6, <2>1, EmptySeq
  <2> QED  BY <1>10, <2>2, EmptyJoined
<1> HIDE DEF full
<1>13. /\ wire' \in Seq(Tokens) /\ Rest(full, k) \in Seq(Tokens)
       /\ Len(Rest(full, k)) = Len(full) - k
       /\ wire' \o (Rest(full, k) \o (e \o CRLF)) = Frame
       /\ k = Len(full) => wire' \o (e \o CRLF) = Frame
  <2> DEFINE t == e \o CRLF
  <2>0. k \in 0 .. Len(full)
    BY <1>8, <1>9
  <2> HIDE DEF t
  <2>1. SentSoFar(wire, full, t, k)
    BY <1>2, <1>9, <1>10, <2>0, PartSent DEF t
  <2>2. /\ wire' \in Seq(Tokens) /\ Rest(full, k) \in Seq(Tokens)
        /\ wire' \o (Rest(full, k) \o t) = wire \o (full \o t)
        /\ k = Len(full) => wire' \o t = wire \o (full \o t)
    BY <1>8, <2>1, Zenon DEF SentSoFar
  <2>3. Len(Rest(full, k)) = Len(full) - k
    BY <1>9, <2>0, CutInTwo
  <2>4. wire \o (full \o t) = Frame
    BY <1>11 DEF t
  <2> QED  BY <2>2, <2>3, <2>4 DEF t
<1>14. body' \in Bodies /\ body'.contentDone = ends
  <2>1. ends \in BOOLEAN
    BY DEF done
  <2> HIDE DEF ends
  <2> QED  BY <1>2, <1>3, <1>8, <2>1 DEF Bodies
<1>15. /\ file' \in Files /\ file'.pos = p + c /\ file'.bytes = file.bytes /\ file'.readdone = done
       /\ file'.named = file.named /\ file'.exists = file.exists
  <2>1. done \in BOOLEAN /\ (IF done THEN "stale" ELSE "open") \in {"none", "open", "stale"}
    BY DEF done
  <2>2. p + c \in Int
    BY <1>3, <1>4
  <2>3. /\ file' = [file EXCEPT !.fd = IF done THEN "stale" ELSE "open", !.readdone = done,
                               !.pos = p + c]
        /\ file \in Files
    BY <1>2, <1>8
  <2> HIDE DEF p
  <2> QED  BY <2>1, <2>2, <2>3 DEF Files
<1>16. SameMessage
  BY <1>1, <1>15 DEF SameMessage, Going, testExist
<1>17. ringbuf' \in Seq(Tokens)
  BY <1>8, <1>10, <1>13
<1>18. Whole' = Whole /\ Frame' = Frame /\ ~sendfileOn' /\ ~call'.running
  BY <1>1, <1>16, SameFrame
<1>19. CASE ends
  <2>1. ringbuf' = CRLF /\ k = Len(full) /\ done
    BY <1>8, <1>9, <1>19
  <2>2. wire' \o ringbuf' = Frame
    BY <1>12, <1>13, <2>1
  <2>3. Contents'
    BY <1>14, <1>15, <1>18, <1>19, <2>1, <2>2 DEF Contents
  <2>4. Underway'
    BY <1>1, <1>13, <1>14, <1>16, <1>17, <2>3, GoingFacts, ContentsGoOn
  <2> QED  BY <1>1, <1>8, <2>4 DEF Outcome
<1>20. CASE ~ends
  <2>1. ringbuf' = Rest(full, k)
    BY <1>8, <1>20
  <2>2. done => wire' \o (ringbuf' \o CRLF) = Frame
    BY <1>12, <1>13, <2>1
  <2>3. /\ p + c \in 0 .. Whole' /\ Len(ringbuf') <= RingSize
    <3>1. p \in Nat /\ c \in Nat /\ Whole \in Nat /\ p + c <= Whole /\ Whole' = Whole
      BY <1>2, <1>3, <1>4, <1>18
    <3>2. Len(ringbuf) \in Nat /\ RingSize \in Nat /\ c <= RingSize - Len(ringbuf)
      BY <1>2, <1>4 DEF space
    <3>3. Len(ringbuf') = (Len(ringbuf) + c) - k
      <4>1. Len(ringbuf') = Len(full) - k
        BY <1>13, <2>1
      <4>2. Len(full) = Len(ringbuf) + c
        BY <1>9
      <4> QED  BY <4>1, <4>2, Zenon
    <3> HIDE DEF p
    <3>4. p + c \in 0 .. Whole'
      BY <3>1
    <3>5. Len(ringbuf') <= RingSize
      BY <3>1, <3>2, <3>3
    <3> QED  BY <3>4, <3>5
  <2>4. wire' \o (ringbuf' \o (Data(file'.pos + 1, Whole') \o CRLF)) = Frame'
    BY <1>13, <1>15, <1>18, <2>1 DEF e
  <2>5. Contents'
    BY <1>14, <1>15, <1>18, <1>20, <2>2, <2>3, <2>4 DEF Contents
  <2>6. Underway'
    BY <1>1, <1>13, <1>14, <1>16, <1>17, <2>5, GoingFacts, ContentsGoOn
  <2> QED  BY <1>1, <1>8, <2>6 DEF Outcome
<1> QED  BY <1>19, <1>20

LEMMA SendFileContentSends ==
    ASSUME Going, sendFileContent PROVE Underway'
<1>1. /\ ~chunked /\ sendfileOn /\ ~call.running /\ ~body.contentDone
      /\ file' = [file EXCEPT !.fd = "open"]
      /\ call' = [running |-> TRUE, old |-> file.cur, left |-> getFileSize(file) - file.cur]
      /\ UNCHANGED <<ringbuf, body, wire, hist, chunked, path>>
  BY DEF sendFileContent, Content, openFile, Keep
<1>2. file \in Files /\ Whole \in Nat /\ getFileSize(file) = Whole
  BY GoingFacts
<1>3. file.cur = 0 /\ wire = Data(1, 0) /\ file.pos = 0
  BY <1>1, GoingFacts DEF Contents
<1>4. call' \in Calls /\ call'.running /\ call'.left = Whole
  <2>0. Whole - 0 = Whole
    BY <1>2
  <2>1. call' = [running |-> TRUE, old |-> 0, left |-> Whole]
    BY <1>1, <1>2, <1>3, <2>0
  <2> QED  BY <1>2, <2>1 DEF Calls
<1>5. /\ file' \in Files /\ file'.bytes = file.bytes /\ file'.cur = 0 /\ file'.pos = 0
      /\ file'.named = file.named /\ file'.exists = file.exists
  BY <1>1, <1>2, <1>3 DEF Files
<1>6. SameMessage
  BY <1>1, <1>5 DEF SameMessage, Going, testExist
<1>7. Whole' = Whole /\ sendfileOn' /\ wire' = Data(1, 0) /\ ~body'.contentDone
  BY <1>1, <1>3, <1>6, SameFrame
<1>8. 0 \in 0 .. Whole /\ Whole - 0 = Whole
  BY <1>2
<1>9. Contents'
  BY <1>4, <1>5, <1>7, <1>8 DEF Contents
<1> QED  BY <1>1, <1>4, <1>6, <1>9, GoingFacts, ContentsGoOn

\* sendfile() moves what it was asked for or less of it, from where the last call ended.
LEMMA TakesContent ==
    ASSUME Going, ~hist.cut, ~chunked, NEW n \in Nat, takes(n) PROVE Underway'
<1> DEFINE p == file.pos
<1>1. /\ call.running /\ n <= call.left /\ p + n <= Len(file.bytes)
      /\ call' = [call EXCEPT !.left = @ - n]
      /\ file' = [file EXCEPT !.pos = @ + n]
      /\ hist' = [hist EXCEPT !.cut = @ \/ (chunked /\ n < call.left)]
      /\ put(SubSeq(file.bytes, p + 1, p + n))
      /\ UNCHANGED <<ringbuf, body, chunked, path>>
  BY DEF takes, Offset, Keep
<1>2. hist \in Hists /\ file \in Files /\ call \in Calls /\ Whole \in Nat
  BY GoingFacts DEF Going
<1>3. hist' \in Hists /\ hist'.bytes = hist.bytes /\ hist'.cut = hist.cut
  BY <1>1, <1>2 DEF Hists
<1>4. sendfileOn /\ ~body.contentDone
  BY <1>1, GoingFacts DEF Contents
<1>5. file.cur = 0 /\ wire = Data(1, p) /\ p \in 0 .. Whole /\ call.left = Whole - p
  BY <1>1, <1>4, GoingFacts DEF Contents
<1> HIDE DEF p
<1>6. p \in Nat /\ p + n \in 0 .. Whole /\ p + n \in Nat
  BY <1>1, <1>2, <1>5
<1>7. call' \in Calls /\ call'.running /\ call'.left = Whole - (p + n)
  <2>1. call.left - n = Whole - (p + n) /\ call.left - n \in Int
    BY <1>2, <1>5, <1>6
  <2>2. call' = [call EXCEPT !.left = call.left - n]
    BY <1>1
  <2>3. call' \in Calls /\ call'.running = call.running /\ call'.left = call.left - n
    BY <1>2, <2>1, <2>2 DEF Calls
  <2> QED  BY <1>1, <2>1, <2>3
<1>8. /\ file' \in Files /\ file'.bytes = file.bytes /\ file'.cur = 0 /\ file'.pos = p + n
      /\ file'.named = file.named /\ file'.exists = file.exists
  <2>1. file' = [file EXCEPT !.pos = p + n] /\ p + n \in Int
    BY <1>1, <1>6 DEF p
  <2> QED  BY <1>2, <1>5, <2>1 DEF Files
<1>9. SameMessage
  BY <1>1, <1>3, <1>8 DEF SameMessage, Going, testExist
<1>10. Whole' = Whole /\ sendfileOn' /\ ~body'.contentDone
  BY <1>1, <1>4, <1>9, SameFrame
<1>11. wire' = Data(1, p + n) /\ wire' \in Seq(Tokens)
  <2>1. SubSeq(file.bytes, p + 1, p + n) = Data(p + 1, p + n)
    <3>1. p + n <= Whole
      BY <1>2, <1>6
    <3>2. SubSeq(Data(1, Whole), p + 1, p + n) = Data(p + 1, p + n)
      BY <1>2, <1>6, <3>1, DataInFile
    <3> QED  BY <3>2, GoingFacts
  <2>2. Data(1, p) \o Data(p + 1, p + n) = Data(1, p + n)
    BY <1>6, DataGrows
  <2>3. Data(1, p + n) \in Seq(Tokens)
    <3> DEFINE k == p + n
    <3>1. k \in Nat /\ 0 \in Nat /\ 0 + 1 = 1 /\ 0 + k = k
      BY <1>6
    <3> HIDE DEF k
    <3>2. Data(0 + 1, 0 + k) \in Seq(Tokens)
      BY <3>1, DataFacts
    <3> QED  BY <3>1, <3>2 DEF k
  <2> QED  BY <1>1, <1>5, <2>1, <2>2, <2>3 DEF put
<1>12. Contents'
  BY <1>6, <1>7, <1>8, <1>10, <1>11 DEF Contents
<1> QED  BY <1>1, <1>7, <1>9, <1>11, <1>12, GoingFacts, ContentsGoOn

LEMMA SendfileDoneContent ==
    ASSUME Going, ~chunked, sendfileDone PROVE Underway'
<1>1. /\ call.running /\ call.left <= 0 /\ call' = NoCall /\ file' = fileReset(file)
      /\ body' = [body EXCEPT !.contentDone = TRUE] /\ ringbuf' = CRLF
      /\ UNCHANGED <<hist, wire, chunked, path>>
  BY DEF sendfileDone, ringHolds, Keep
<1>2. Sent /\ sendfileOn /\ ~body.contentDone
  BY <1>1, GoingFacts DEF Contents, Sent
<1>3. wire = Data(1, Whole)
  <2>1. /\ wire = Data(1, file.pos) /\ file.pos \in 0 .. Whole /\ call.left = Whole - file.pos
        /\ Whole \in Nat
    BY <1>1, <1>2, GoingFacts DEF Contents
  <2>2. file.pos = Whole
    BY <1>1, <2>1
  <2> QED  BY <2>1, <2>2
<1>4. body' \in Bodies /\ body'.contentDone
  <2>1. body \in Bodies
    BY GoingFacts
  <2> QED  BY <1>1, <2>1 DEF Bodies
<1>5. call' \in Calls /\ ~call'.running
  BY <1>1 DEF NoCall, Calls
<1>6. SameMessage
  BY <1>1, GoingFacts, ResetFileFacts DEF SameMessage, Going, testExist
<1>7. wire' \o ringbuf' = Frame' /\ sendfileOn'
  BY <1>1, <1>2, <1>3, <1>6, SameFrame DEF Frame, ContentFrame, Whole
<1>8. Contents'
  BY <1>4, <1>5, <1>7 DEF Contents
<1> QED  BY <1>1, <1>4, <1>5, <1>6, <1>8, GoingFacts, PieceFacts, ContentsGoOn

LEMMA RecallContent ==
    ASSUME Going, ~chunked, recall PROVE Underway'
<1>1. /\ UNCHANGED <<file, ringbuf, call, wire, chunked, path, body>>
      /\ hist' = [hist EXCEPT !.cut = @ \/ (chunked /\ getFileSize(file) = 0
                                            /\ body.chunkstate = "NULLON" /\ ringbuf # LastChunk)]
  BY DEF recall, Keep
<1>2. hist' \in Hists /\ hist'.bytes = hist.bytes
  BY <1>1 DEF Hists, Going
<1>3. SameMessage
  BY <1>1, <1>2, GoingFacts DEF SameMessage, Going, testExist
<1>4. /\ Whole' = Whole /\ Frame' = Frame /\ sendfileOn' = sendfileOn /\ Sent' = Sent
  BY <1>1, <1>3, SameFrame DEF Sent
<1>5. Contents'
  BY <1>1, <1>4, GoingFacts DEF Contents
<1> QED  BY <1>1, <1>3, <1>5, GoingFacts, ContentsGoOn

-----------------------------------------------------------------------------
(* Every step.                                                               *)

LEMMA GoingOn ==
    ASSUME SendInv, phase = "send", hist.flushed, ~hist.cut PROVE Going
<1>1. Underway /\ hist \in Hists /\ chunked \in BOOLEAN
  BY DEF SendInv
<1>2. testExist(file)
  BY <1>1 DEF Underway
<1> QED  BY <1>1, <1>2 DEF Going

\* A step of the sender keeps the invariant if it leaves what Outcome says.
LEMMA SenderKeeps ==
    ASSUME SendInv, phase \in {"wait", "send"}, phase' \in {"wait", "send", "done", "error"},
           chunked' = chunked, hist' \in Hists, hist'.bytes = hist.bytes,
           hist'.flushed = hist.flushed, hist.cut => hist'.cut,
           hist.flushed /\ ~hist.cut /\ ~hist'.cut => Outcome
    PROVE  SendInv'
<1>1. chunked' \in BOOLEAN
  BY DEF SendInv
<1>2. hist'.flushed /\ ~hist'.cut => Outcome
  OBVIOUS
<1> QED  BY <1>1, <1>2 DEF SendInv, Outcome

\* Steps that leave hist alone.
LEMMA SameHist ==
    ASSUME SendInv, phase \in {"wait", "send"}, phase' \in {"wait", "send", "done", "error"},
           chunked' = chunked, hist' = hist, hist.flushed /\ ~hist.cut => Outcome
    PROVE  SendInv'
BY SenderKeeps DEF SendInv

\* Steps behind which nothing is said of the wire any more.
LEMMA CutKeeps ==
    ASSUME SendInv, phase' \in {"wait", "send", "garbage", "done", "error"},
           chunked' = chunked, hist' \in Hists, hist'.cut
    PROVE  SendInv'
BY DEF SendInv

LEMMA RefillFailsKeeps ==
    ASSUME SendInv, refillFails PROVE SendInv'
<1>1. hist' = [hist EXCEPT !.cut = TRUE] /\ hist \in Hists /\ phase' = "error" /\ chunked' = chunked
  BY DEF refillFails, Keep, SendInv
<1>2. hist' \in Hists /\ hist'.cut
  BY <1>1 DEF Hists
<1> QED  BY <1>1, <1>2, CutKeeps

LEMMA PrepareKeeps ==
    ASSUME SendInv, Prepare, ~refillFails PROVE SendInv'
<1>1. phase = "send" /\ chunked' = chunked /\ hist' = hist
  BY DEF Prepare, chunkInit, readChunk, chunkEnd, lastChunk, sendFileChunk, sendFileContent,
         sendfileDone, Sending, Content, Keep
<1>2. phase' \in {"send", "error"}
  BY <1>1 DEF Prepare, chunkInit, readChunk, chunkEnd, lastChunk, sendFileChunk, sendFileContent,
              sendfileDone, ERROR
<1>3. ASSUME hist.flushed, ~hist.cut PROVE Outcome
  <2>1. Going
    BY <1>1, <1>3, GoingOn
  <2>2. CASE readChunk
    BY <2>1, <2>2, ReadChunkSends
  <2>3. CASE chunkInit \/ chunkEnd \/ lastChunk \/ sendFileChunk \/ sendFileContent \/ sendfileDone
    <3>1. phase' = "send"
      BY <1>1, <2>3 DEF chunkInit, chunkEnd, lastChunk, sendFileChunk, sendFileContent, sendfileDone
    <3>2. Underway'
      <4>1. CASE sendfileDone
        BY <2>1, <4>1, SendfileDoneChunk, SendfileDoneContent
      <4>2. CASE chunkInit \/ chunkEnd \/ lastChunk \/ sendFileChunk \/ sendFileContent
        BY <2>1, <4>2, ChunkInitSends, ChunkEndSends, LastChunkSends, SendFileChunkSends,
           SendFileContentSends
      <4> QED  BY <2>3, <4>1, <4>2
    <3> QED  BY <3>1, <3>2 DEF Outcome
  <2> QED  BY <2>2, <2>3 DEF Prepare
<1> QED  BY <1>1, <1>2, <1>3, SameHist

LEMMA SocketTakesKeeps ==
    ASSUME SendInv, NEW k \in 0 .. MaxBytes + 5, SocketTakes(k) PROVE SendInv'
<1>0. k \in Nat
  BY BodyAssumption
<1>1. CASE k <= Len(ringbuf) /\ sendChunkEnd(k)
  <2>1. /\ phase = "send" /\ phase' \in {"wait", "send"} /\ chunked' = chunked
        /\ hist \in Hists
    BY <1>1 DEF sendChunkEnd, sendPart, Sending, Keep, SendInv
  <2>2. /\ hist' \in Hists /\ hist'.bytes = hist.bytes /\ hist'.flushed = hist.flushed
        /\ hist.cut => hist'.cut
    BY <1>1, <2>1 DEF sendChunkEnd, sendPart, Hists
  <2>3. ASSUME hist.flushed, ~hist.cut, ~hist'.cut PROVE Outcome
    <3>1. Underway'
      BY <1>0, <1>1, <2>1, <2>3, GoingOn, SendChunkEndSends
    <3> QED  BY <2>1, <3>1 DEF Outcome
  <2> QED  BY <2>1, <2>2, <2>3, SenderKeeps
<1>2. CASE k <= Len(ringbuf) /\ (sendSize(k) \/ sendData(k))
  <2>1. phase = "send" /\ phase' \in {"wait", "send"} /\ chunked' = chunked /\ hist' = hist
    BY <1>2 DEF sendSize, sendData, sendPart, Sending, Keep
  <2>2. ASSUME hist.flushed, ~hist.cut PROVE Outcome
    <3>1. Going
      BY <2>1, <2>2, GoingOn
    <3>2. Underway'
      BY <1>0, <1>2, <2>2, <3>1, SendSizeSends, SendDataSends
    <3> QED  BY <2>1, <3>2 DEF Outcome
  <2> QED  BY <2>1, <2>2, SameHist
<1>3. CASE k <= Len(ringbuf) /\ (sendLastChunk(k) \/ sendContentRest(k) \/ sendContentEnd(k))
  <2>1. phase = "send" /\ chunked' = chunked /\ hist' = hist
    BY <1>3 DEF sendLastChunk, sendContentRest, sendContentEnd, Sending, Content, Keep
  <2>2. phase' \in {"wait", "send", "done"}
    BY <1>3, <2>1 DEF sendLastChunk, sendContentRest, sendContentEnd, DONE
  <2>3. ASSUME hist.flushed, ~hist.cut PROVE Outcome
    <3>1. Going
      BY <2>1, <2>3, GoingOn
    <3> QED  BY <1>0, <1>3, <2>3, <3>1, SendLastChunkSends, SendContentRestSends,
                SendContentEndSends
  <2> QED  BY <2>1, <2>2, <2>3, SameHist
<1>4. CASE sendContent(k)
  <2>1. /\ phase = "send" /\ chunked' = chunked /\ hist \in Hists
        /\ hist' = hist \/ hist' = [hist EXCEPT !.cut = TRUE]
    BY <1>4 DEF sendContent, Content, Keep, SendInv
  <2>2. /\ hist' \in Hists /\ hist'.bytes = hist.bytes /\ hist'.flushed = hist.flushed
        /\ hist.cut => hist'.cut
    BY <2>1 DEF Hists
  <2>3. CASE hist'.cut
    <3>1. phase' \in {"wait", "send", "garbage"}
      BY <1>4, <2>1 DEF sendContent
    <3> QED  BY <2>1, <2>2, <2>3, <3>1, CutKeeps
  <2>4. CASE ~hist'.cut
    <3>1. phase' \in {"wait", "send"}
      BY <1>4, <2>1, <2>4, SendContentStep
    <3>2. ASSUME hist.flushed, ~hist.cut PROVE Outcome
      <4>1. Going
        BY <2>1, <3>2, GoingOn
      <4> QED  BY <1>0, <1>4, <2>4, <3>2, <4>1, SendContentSends
    <3> QED  BY <2>1, <2>2, <2>4, <3>1, <3>2, SenderKeeps
  <2> QED  BY <2>3, <2>4
<1> QED  BY <1>1, <1>2, <1>3, <1>4 DEF SocketTakes, ringSends

LEMMA TakesKeeps ==
    ASSUME SendInv, NEW n \in 1 .. MaxBytes, takes(n) PROVE SendInv'
<1>0. n \in Nat
  BY BodyAssumption
<1>1. /\ phase = "send" /\ phase' = phase /\ chunked' = chunked /\ hist \in Hists
      /\ hist' = [hist EXCEPT !.cut = @ \/ (chunked /\ n < call.left)]
  BY DEF takes, Keep, SendInv
<1>2. /\ hist' \in Hists /\ hist'.bytes = hist.bytes /\ hist'.flushed = hist.flushed
      /\ hist.cut => hist'.cut
  BY <1>1 DEF Hists
<1>3. ASSUME hist.flushed, ~hist.cut, ~hist'.cut PROVE Outcome
  <2>1. Going
    BY <1>1, <1>3, GoingOn
  <2>2. Underway'
    BY <1>0, <1>3, <2>1, TakesChunk, TakesContent
  <2> QED  BY <1>1, <2>2 DEF Outcome
<1> QED  BY <1>1, <1>2, <1>3, SenderKeeps

LEMMA StoppedKeeps ==
    ASSUME SendInv, stopped PROVE SendInv'
<1>1. /\ phase = "send" /\ phase' = "wait" /\ chunked' = chunked /\ hist \in Hists
      /\ chunked \in BOOLEAN
  BY DEF stopped, Keep, SendInv
<1>2. IF chunked THEN hist' = hist ELSE hist' = [hist EXCEPT !.cut = TRUE]
  BY DEF stopped
<1>3. /\ hist' \in Hists /\ hist'.bytes = hist.bytes /\ hist'.flushed = hist.flushed
      /\ (hist.cut => hist'.cut) /\ (~chunked => hist'.cut)
  BY <1>1, <1>2 DEF Hists
<1>4. ASSUME hist.flushed, ~hist.cut, ~hist'.cut PROVE Outcome
  <2>1. Going /\ chunked
    BY <1>1, <1>3, <1>4, GoingOn
  <2>2. Underway'
    BY <2>1, StoppedChunk
  <2> QED  BY <1>1, <2>2 DEF Outcome
<1> QED  BY <1>1, <1>3, <1>4, SenderKeeps

LEMMA SendFailsKeeps ==
    ASSUME SendInv, sendFails PROVE SendInv'
<1>1. /\ phase \in {"send", "garbage"} /\ phase' = "error" /\ chunked' = chunked
      /\ hist' = hist /\ wire' = wire
  BY DEF sendFails, Keep
<1>2. CASE phase = "send"
  <2>1. ASSUME hist.flushed, ~hist.cut PROVE Outcome
    <3>1. Going /\ Frame' = Frame
      BY <1>1, <1>2, <2>1, GoingOn, FrameKept
    <3> QED  BY <1>1, <3>1, WireBegins DEF Outcome
  <2> QED  BY <1>1, <1>2, <2>1, SameHist
<1>3. CASE phase = "garbage"
  <2>1. hist.cut /\ hist \in Hists
    BY <1>3 DEF SendInv
  <2> QED  BY <1>1, <2>1, CutKeeps
<1> QED  BY <1>1, <1>2, <1>3

LEMMA RecallKeeps ==
    ASSUME SendInv, recall PROVE SendInv'
<1>1. /\ phase = "wait" /\ phase' = "send" /\ chunked' = chunked /\ hist \in Hists
      /\ hist' = [hist EXCEPT !.cut = @ \/ (chunked /\ getFileSize(file) = 0
                                            /\ body.chunkstate = "NULLON" /\ ringbuf # LastChunk)]
      /\ testExist(file) /\ chunked \in BOOLEAN
  BY DEF recall, Keep, SendInv
<1>2. /\ hist' \in Hists /\ hist'.bytes = hist.bytes /\ hist'.flushed = hist.flushed
      /\ hist.cut => hist'.cut
  BY <1>1 DEF Hists
<1>3. ASSUME hist.flushed, ~hist.cut, ~hist'.cut PROVE Outcome
  <2>1. Going
    BY <1>1, <1>3 DEF Going, SendInv
  <2>2. Underway'
    BY <1>3, <2>1, RecallChunk, RecallContent
  <2> QED  BY <1>1, <2>2 DEF Outcome
<1> QED  BY <1>1, <1>2, <1>3, SenderKeeps

LEMMA NoFileKeeps ==
    ASSUME SendInv, noFile PROVE SendInv'
<1>1. /\ phase = "wait" /\ phase' = "done" /\ chunked' = chunked /\ hist' = hist /\ wire' = wire
      /\ ~testExist(file)
  BY DEF noFile, Keep
<1>2. ASSUME hist.flushed, ~hist.cut PROVE Outcome
  <2>1. wire = <<>>
    BY <1>1, <1>2 DEF SendInv, Underway
  <2> QED  BY <1>1, <2>1 DEF Outcome
<1> QED  BY <1>1, <1>2, SameHist

\* A step of the writer.
LEMMA WriterKeeps ==
    ASSUME SendInv, phase = "write", phase' \in {"write", "spin"}, hist' \in Hists, ~hist'.cut,
           UNCHANGED <<chunked, wire, body, call>>,
           phase' = "write" => file'.pos = 0 /\ file'.cur = 0 /\ ~file'.readdone
    PROVE  SendInv'
BY DEF SendInv, Unsent

LEMMA AppendKeepsPosition ==
    ASSUME NEW f \in Files, NEW s, f.pos = 0, f.cur = 0, ~f.readdone
    PROVE  /\ appendWriteIn(f, s).pos = 0 /\ appendWriteIn(f, s).cur = 0
           /\ ~appendWriteIn(f, s).readdone
BY DEF appendWriteIn, Files

LEMMA FlushKeepsPosition ==
    ASSUME file \in Files, file.pos = 0, file.cur = 0, ~file.readdone
    PROVE  flushed.pos = 0 /\ flushed.cur = 0 /\ ~flushed.readdone
BY AppendKeepsPosition DEF flushed

LEMMA SetFileKeeps ==
    ASSUME SendInv, setFile PROVE SendInv'
<1>1. PICK n \in 0 .. MaxBytes, exists \in BOOLEAN :
         /\ file' = [NewFile EXCEPT !.named = TRUE, !.exists = exists, !.bytes = Data(1, n)]
         /\ hist' = [NewHist EXCEPT !.bytes = n]
  BY DEF setFile
<1>2. phase = "write" /\ phase' = "write" /\ UNCHANGED <<chunked, wire, body, call>>
  BY DEF setFile
<1>3. file'.pos = 0 /\ file'.cur = 0 /\ ~file'.readdone
  BY <1>1 DEF NewFile
<1>4. hist' \in Hists /\ ~hist'.cut
  <2>1. hist' = [bytes |-> n, flushed |-> TRUE, cut |-> FALSE]
    BY <1>1 DEF NewHist
  <2>2. n \in Nat
    BY BodyAssumption
  <2> QED  BY <2>1, <2>2 DEF Hists
<1> QED  BY <1>2, <1>3, <1>4, WriterKeeps

LEMMA WriteInKeeps ==
    ASSUME FrameInv, writeIn PROVE SendInv'
<1>1. PICK n \in 1 .. MaxBytes - hist.bytes :
         LET s == Data(hist.bytes + 1, hist.bytes + n) IN
         /\ writeInRing(s) \/ writeInFile(s) \/ writeInLoop(s) \/ writeInSpins(s)
         /\ hist' = [hist EXCEPT !.bytes = @ + n]
  BY DEF writeIn
<1> DEFINE s == Data(hist.bytes + 1, hist.bytes + n)
<1>2. phase = "write" /\ UNCHANGED <<chunked, wire, body, call>> /\ SendInv
  BY DEF writeIn, FrameInv
<1>3. /\ file \in Files /\ hist \in Hists /\ WritingType
      /\ file.pos = 0 /\ file.cur = 0 /\ ~file.readdone /\ ~hist.cut
  BY <1>2 DEF FrameInv, WriteInv, WritingType, SendInv, Unsent
<1>4. hist' \in Hists /\ ~hist'.cut
  <2>1. hist' = [hist EXCEPT !.bytes = hist.bytes + n] /\ hist.bytes + n \in Nat
    BY <1>1, <1>3 DEF Hists
  <2> QED  BY <1>3, <2>1 DEF Hists
<1>5. writeInRing(s) \/ writeInFile(s) \/ writeInLoop(s) \/ writeInSpins(s)
  BY <1>1
<1> HIDE DEF s
<1>6. phase' \in {"write", "spin"}
  BY <1>2, <1>5 DEF writeInRing, writeInFile, ringFlushed, writeInLoop, writeInSpins
<1>7. file'.pos = 0 /\ file'.cur = 0 /\ ~file'.readdone
  <2>1. CASE writeInRing(s) \/ writeInSpins(s)
    BY <1>3, <2>1 DEF writeInRing, writeInSpins
  <2>2. CASE writeInFile(s)
    <3>1. flushed \in Files /\ flushed.pos = 0 /\ flushed.cur = 0 /\ ~flushed.readdone
      BY <1>3, FlushFacts, FlushKeepsPosition
    <3>2. file' = appendWriteIn(flushed, s) \/ file' = flushed
      BY <2>2 DEF writeInFile
    <3> QED  BY <1>3, <3>1, <3>2, AppendKeepsPosition
  <2>3. CASE writeInLoop(s)
    <3>1. file' = appendWriteIn(file, ringbuf \o First(s, space))
      BY <2>3 DEF writeInLoop
    <3> QED  BY <1>3, <3>1, AppendKeepsPosition
  <2> QED  BY <1>5, <2>1, <2>2, <2>3
<1> QED  BY <1>2, <1>4, <1>6, <1>7, WriterKeeps

LEMMA FlushKeeps ==
    ASSUME FrameInv, mode \/ closeFile PROVE SendInv'
<1>1. /\ phase = "write" /\ phase' \in {"write", "spin"} /\ file' = flushed /\ hist' = hist
      /\ UNCHANGED <<chunked, wire, body, call>> /\ SendInv
  BY DEF mode, closeFile, flushFile, ringFlushed, FrameInv
<1>2. /\ file \in Files /\ hist \in Hists
      /\ file.pos = 0 /\ file.cur = 0 /\ ~file.readdone /\ ~hist.cut
  BY <1>1 DEF FrameInv, WriteInv, WritingType, SendInv, Unsent
<1>3. flushed.pos = 0 /\ flushed.cur = 0 /\ ~flushed.readdone
  BY <1>2, FlushKeepsPosition
<1> QED  BY <1>1, <1>2, <1>3, WriterKeeps

\* Sending begins: all of the frame is left.
LEMMA AttachKeeps ==
    ASSUME FrameInv, attach PROVE SendInv'
<1>1. /\ phase = "write" /\ phase' = "wait" /\ chunked' \in {chunked, TRUE} /\ path' \in Path
      /\ hist' = [hist EXCEPT !.flushed = ringbuf = <<>>]
      /\ UNCHANGED <<file, ringbuf, body, call, wire>>
  BY DEF attach
<1>2. /\ file \in Files /\ hist \in Hists /\ ringbuf \in Seq(Tokens) /\ wire = <<>>
      /\ InOrder /\ Unsent /\ chunked \in BOOLEAN
  BY <1>1 DEF FrameInv, WriteInv, WritingType, SendInv
<1>3. /\ hist' \in Hists /\ hist'.bytes = hist.bytes /\ hist'.flushed = (ringbuf = <<>>)
      /\ chunked' \in BOOLEAN
  BY <1>1, <1>2 DEF Hists
<1>4. ASSUME ringbuf = <<>> PROVE Underway'
  <2>1. /\ body' \in Bodies /\ body'.readoffset = 0 /\ body'.chunkstate = "UINIT"
        /\ body'.chunksize = RingSize /\ ~body'.contentDone
    BY <1>1, <1>2, BodyAssumption DEF Unsent, NewBody, Bodies, ChunkStates
  <2>2. call' \in Calls /\ ~call'.running
    BY <1>1, <1>2 DEF Unsent, NoCall, Calls
  <2>3. file'.pos = 0 /\ file'.cur = 0 /\ ~file'.readdone
    BY <1>1, <1>2 DEF Unsent
  <2>4. wire' = <<>> /\ ringbuf' = <<>> /\ <<>> \in Seq(Tokens) /\ Len(ringbuf') <= RingSize
    BY <1>1, <1>2, <1>4, BodyAssumption
  <2>5. Whole' \in Nat /\ Frame' \in Seq(Tokens)
    <3>1. Whole' \in Nat
      BY <1>3 DEF Whole, Hists
    <3>2. ChunkFrame(Whole') \in Seq(Tokens)
      BY <3>1, FramesAreTokens DEF ChunkFrame
    <3>3. ContentFrame(Whole') \in Seq(Tokens)
      <4>1. Halves(Whole', 0, 0)
        BY <3>1, FileSplit
      <4>2. 0 + 1 = 1 /\ 0 + 0 + 1 = 1
        OBVIOUS
      <4>3. Data(1, Whole') \in Seq(Tokens)
        BY <4>1, <4>2 DEF Halves
      <4> QED  BY <4>3, PieceFacts, Joined DEF ContentFrame
    <3> QED  BY <3>1, <3>2, <3>3 DEF Frame, Whole
  <2>6. wire' \o Frame' = Frame' /\ ringbuf' \o Frame' = Frame'
    BY <2>4, <2>5, EmptyJoined
  <2>7. CASE testExist(file)
    <3>1. file'.bytes = Data(1, Whole')
      <4>1. file.bytes \o <<>> = Data(1, hist.bytes) /\ file.bytes \in Seq(Tokens)
        BY <1>2, <1>4, <2>7 DEF InOrder, testExist, Files
      <4>2. file.bytes \o <<>> = file.bytes
        BY <4>1, EmptyJoined
      <4> QED  BY <1>1, <1>3, <4>1, <4>2 DEF Whole
    <3>2. CASE chunked'
      <4>1. Behind(body.readoffset)' = Frame'
        BY <2>1, <3>2 DEF Behind, Frame, ChunkFrame, Whole
      <4>2. ~Sent' /\ 0 \in 0 .. Whole'
        BY <2>2, <2>5 DEF Sent
      <4>3. Chunks'
        BY <2>1, <2>2, <2>3, <2>4, <2>6, <4>1, <4>2 DEF Chunks
      <4> QED  BY <1>1, <1>2, <2>1, <2>2, <2>4, <2>7, <3>1, <3>2, <4>3 DEF Underway, testExist
    <3>3. CASE ~chunked'
      <4>1. Data(file'.pos + 1, Whole') \o CRLF = Frame'
        <5>1. 0 + 1 = 1
          OBVIOUS
        <5> QED  BY <2>3, <3>3, <5>1 DEF Frame, ContentFrame, Whole
      <4>2. wire' \o (ringbuf' \o (Data(file'.pos + 1, Whole') \o CRLF)) = Frame'
        BY <2>6, <4>1
      <4>3. ~Sent' /\ 0 \in 0 .. Whole' /\ Data(1, file'.pos) = <<>>
        <5>1. Data(1, 0) = <<>>
          BY DEF Data
        <5> QED  BY <2>2, <2>3, <2>5, <5>1 DEF Sent
      <4>4. Contents'
        BY <2>1, <2>2, <2>3, <2>4, <4>2, <4>3 DEF Contents
      <4> QED  BY <1>1, <1>2, <2>1, <2>2, <2>4, <2>7, <3>1, <3>3, <4>4 DEF Underway, testExist
    <3> QED  BY <3>2, <3>3
  <2>8. CASE ~testExist(file)
    BY <1>1, <1>2, <2>1, <2>2, <2>4, <2>8 DEF Underway, testExist
  <2> QED  BY <2>7, <2>8
<1> QED  BY <1>1, <1>2, <1>3, <1>4 DEF SendInv

LEMMA ClearKeeps ==
    ASSUME SendInv, clear PROVE SendInv'
<1>1. /\ phase' = "write" /\ wire' = <<>> /\ hist' = NewHist /\ file' = NewFile
      /\ body' = NewBody /\ call' = NoCall /\ chunked' = chunked
  BY DEF clear, reset
<1>2. hist' \in Hists /\ ~hist'.cut /\ file'.pos = 0 /\ file'.cur = 0 /\ ~file'.readdone
  BY <1>1 DEF NewHist, NewFile, Hists
<1> QED  BY <1>1, <1>2 DEF SendInv, Unsent

LEMMA SameKeeps ==
    ASSUME SendInv, UNCHANGED vars PROVE SendInv'
<1>1. /\ phase' = phase /\ file' = file /\ ringbuf' = ringbuf /\ body' = body /\ chunked' = chunked
      /\ path' = path /\ call' = call /\ wire' = wire /\ hist' = hist
  BY DEF vars
<1>2. Whole' = Whole /\ Frame' = Frame /\ InChunk' = InChunk /\ Sent' = Sent /\ Unsent' = Unsent
  BY <1>1 DEF Whole, Frame, InChunk, Sent, Unsent
<1>3. \A o : Behind(o)' = Behind(o) /\ RestOfChunk(o)' = RestOfChunk(o)
  BY <1>1, <1>2 DEF Behind, RestOfChunk
<1>4. Chunks' = Chunks
  BY <1>1, <1>2, <1>3 DEF Chunks, sendfileOn
<1>5. Contents' = Contents
  BY <1>1, <1>2 DEF Contents, sendfileOn
<1>6. Underway' = Underway
  BY <1>1, <1>2, <1>4, <1>5 DEF Underway, testExist
<1> QED  BY <1>1, <1>2, <1>6 DEF SendInv

LEMMA NextFrameInv == FrameInv /\ [BodyNext]_vars => FrameInv'
<1> SUFFICES ASSUME FrameInv, [BodyNext]_vars PROVE FrameInv'
  OBVIOUS
<1>1. WriteInv /\ SendInv
  BY DEF FrameInv
<1>2. WriteInv'
  BY <1>1, NextWriteInv
<1>3. SendInv'
  <2>1. CASE setFile \/ writeIn \/ mode \/ closeFile \/ attach
    BY <1>1, <2>1, SetFileKeeps, WriteInKeeps, FlushKeeps, AttachKeeps
  <2>2. CASE spins \/ takesNothing \/ UNCHANGED vars
    BY <1>1, <2>2, SameKeeps DEF spins, takesNothing
  <2>3. CASE noFile \/ recall \/ Prepare \/ stopped \/ sendFails \/ clear
    BY <1>1, <2>3, NoFileKeeps, RecallKeeps, PrepareKeeps, RefillFailsKeeps, StoppedKeeps,
       SendFailsKeeps, ClearKeeps
  <2>4. CASE \E k \in 0 .. MaxBytes + 5 : SocketTakes(k)
    BY <1>1, <2>4, SocketTakesKeeps
  <2>5. CASE \E n \in 1 .. MaxBytes : takes(n)
    BY <1>1, <2>5, TakesKeeps
  <2> QED  BY <2>1, <2>2, <2>3, <2>4, <2>5 DEF BodyNext, Write
<1> QED  BY <1>2, <1>3 DEF FrameInv

LEMMA InitFrameInv == BodyInit => FrameInv
<1> SUFFICES ASSUME BodyInit PROVE FrameInv
  OBVIOUS
<1>1. WriteInv
  BY InitWriteInv
<1>2. SendInv
  BY DEF BodyInit, NewHist, NewFile, Hists, SendInv, Unsent
<1> QED  BY <1>1, <1>2 DEF FrameInv

LEMMA FrameInvIsEnough == FrameInv => WireIsFrame
<1> SUFFICES ASSUME FrameInv, hist.flushed, ~hist.cut
             PROVE  IsPrefix(wire, Frame) /\ (phase = "done" /\ wire # <<>> => wire = Frame)
  BY DEF WireIsFrame
<1>1. SendInv /\ hist \in Hists /\ chunked \in BOOLEAN /\ Frame \in Seq(Tokens)
  BY FrameFacts DEF FrameInv, SendInv
<1>2. wire = <<>> \/ wire = Frame => IsPrefix(wire, Frame)
  <2>1. IsPrefix(<<>>, <<>> \o Frame) /\ <<>> \o Frame = Frame
    BY <1>1, PrefixOfJoined, EmptyJoined
  <2>2. IsPrefix(Frame, Frame \o <<>>) /\ Frame \o <<>> = Frame
    BY <1>1, PrefixOfJoined, EmptyJoined
  <2> QED  BY <2>1, <2>2
<1>3. CASE phase \in {"write", "spin"}
  BY <1>1, <1>2, <1>3 DEF SendInv
<1>4. CASE phase \in {"wait", "send"}
  <2>1. Underway
    BY <1>1, <1>4 DEF SendInv
  <2>2. CASE testExist(file)
    BY <1>1, <1>4, <2>1, <2>2, WireBegins DEF Going
  <2>3. CASE ~testExist(file)
    BY <1>2, <1>4, <2>1, <2>3 DEF Underway
  <2> QED  BY <2>2, <2>3
<1>5. CASE phase = "error"
  BY <1>1, <1>5 DEF SendInv
<1>6. CASE phase = "done"
  BY <1>1, <1>2, <1>6 DEF SendInv
<1>7. phase # "garbage"
  BY <1>1 DEF SendInv
<1> QED  BY <1>1, <1>3, <1>4, <1>5, <1>6, <1>7 DEF SendInv

\* For every size of the ring, every length of a body, on each of the three paths and wherever
\* the socket stops and resumes the sender, the wire holds the beginning of the message's
\* framing, and all of it when send2Socket says DONE.
THEOREM BodyWireIsFrame == Body => []WireIsFrame
<1> QED  BY InitFrameInv, NextFrameInv, FrameInvIsEnough, PTL DEF Body
=============================================================================
