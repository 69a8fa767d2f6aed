-------------------------------- MODULE Fifo --------------------------------
(* What a RingBuffer promises its caller: a bounded first-in first-out queue *)
(* of bytes.                                                                 *)
EXTENDS Naturals, Sequences

CONSTANTS Byte,   \* the values of a byte
          Room    \* the most bytes the queue holds

VARIABLES q,      \* the bytes held, oldest first
          out     \* the bytes the last call delivered

FifoInit == q = <<>> /\ out = <<>>

\* Bytes are added behind the others, as far as there is room.
Put == \E n \in 1 .. Room - Len(q) : \E s \in [1 .. n -> Byte] : q' = q \o s /\ out' = <<>>
\* The oldest n bytes are delivered.
Get == \E n \in 1 .. Len(q) : out' = SubSeq(q, 1, n) /\ q' = SubSeq(q, n + 1, Len(q))
Clear == q' = <<>> /\ out' = <<>>
\* A call that moves nothing.
Nothing == q' = q /\ out' = <<>>

FifoNext == Put \/ Get \/ Clear \/ Nothing
Fifo == FifoInit /\ [][FifoNext]_<<q, out>>
=============================================================================
