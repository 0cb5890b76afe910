---------------------------- MODULE RingBuffer -----------------------------
(***************************************************************************)
(* ring_buffer.c: the ring between the microphone and the uploader, as     *)
(* operations on one record.  Positions wrap with the mask capacity - 1,   *)
(* which is the remainder because the capacity is a power of two.          *)
(***************************************************************************)
EXTENDS Integers, Sequences

CONSTANTS Capacity,     \* of the storage, in bytes
          Byte,         \* what a byte of PCM can be
          Unset         \* storage nothing has been written to

\* is_power_of_two
ASSUME RingBufferAssumption == Capacity \in Nat \ {0} /\ \E k \in 0 .. 16 : Capacity = 2 ^ k

Indices == 0 .. Capacity - 1
Rings == [data : [Indices -> Byte \cup {Unset}], head : Indices, tail : Indices,
          count : 0 .. Capacity, overflow : BOOLEAN]

\* ring_buffer_init: the storage itself is not cleared.
EmptyRing == [data |-> [i \in Indices |-> Unset], head |-> 0, tail |-> 0,
              count |-> 0, overflow |-> FALSE]

\* A faulty variant of Mask, the wrap late by one.  Nothing here uses it.
LateMask(i) == IF i > Capacity THEN i - Capacity ELSE i

Mask(i) == i % Capacity

Least(a, b) == IF a < b THEN a ELSE b

\* One turn of the loop of ring_buffer_push: the part of s that fits ahead of
\* the end of the storage, copied by memcpy.
PushRun(rb, s) ==
  LET n == Least(Len(s), Least(Capacity - rb.count, Capacity - rb.tail)) IN
  [ring |-> [data |-> [i \in Indices |->
                         IF i \in rb.tail .. rb.tail + n - 1 THEN s[i - rb.tail + 1] ELSE rb.data[i]],
             head |-> rb.head,
             tail |-> Mask(rb.tail + n),
             count |-> rb.count + n,
             overflow |-> rb.overflow],
   left |-> SubSeq(s, n + 1, Len(s))]

\* The sticky flag: raised when something is left over.
Flag(ring, left) == ring.overflow \/ left # <<>>

\* ring_buffer_push: up to the end of the storage, then from its beginning;
\* what is left over is lost.
Push(rb, s) ==
  LET first == PushRun(rb, s)
      second == PushRun(first.ring, first.left)
      ring == second.ring
  IN  [data |-> ring.data, head |-> ring.head, tail |-> ring.tail, count |-> ring.count,
       overflow |-> Flag(ring, second.left)]

\* ring_buffer_pop: two memcpys, the second from the beginning of the storage.
Popped(rb, len) == Least(len, rb.count)
Taken(rb, len) ==
  LET n == Popped(rb, len)
      first == Least(n, Capacity - rb.head)
  IN  [i \in 1 .. n |-> rb.data[IF i <= first THEN rb.head + i - 1 ELSE i - first - 1]]
Pop(rb, len) ==
  [data |-> rb.data, head |-> Mask(rb.head + Popped(rb, len)), tail |-> rb.tail,
   count |-> rb.count - Popped(rb, len), overflow |-> rb.overflow]

\* ring_buffer_reset leaves the storage alone.
Reset(rb) == [data |-> rb.data, head |-> 0, tail |-> 0, count |-> 0, overflow |-> FALSE]

\* What the reader will get, in order.
Contents(rb) == [i \in 1 .. rb.count |-> rb.data[Mask(rb.head + i - 1)]]

\* The write position is count bytes ahead of the read position, and what lies
\* between them has been written.
WellFormed(rb) ==
  /\ rb \in Rings
  /\ rb.tail = Mask(rb.head + rb.count)
  /\ \A i \in 1 .. rb.count : rb.data[Mask(rb.head + i - 1)] \in Byte
=============================================================================
