-------------------------- MODULE AudioPath_proofs --------------------------
(***************************************************************************)
(* For every size of the ring, of the streams and of the reads.            *)
(*                                                                         *)
(* The operations of ring_buffer.c keep the ring well formed; a push       *)
(* appends to what the reader will get, a pop takes from its front.        *)
(*                                                                         *)
(* app.rb is never out of step with itself.  The argument is inductive:    *)
(* besides the ring the invariant has what keeps the arguments of push and *)
(* pop in range, the bytes captured and the room in turn_upload_stream.    *)
(*                                                                         *)
(* Microphone and speaker take turns on the codec: what the state of the   *)
(* application says of the codec is inductive as it stands.                *)
(*                                                                         *)
(* A body the gateway takes for complete is the recording.  The invariant  *)
(* follows the bytes: what the decoder has, the part of a chunk that is    *)
(* still to be written, turn_upload_stream and app.rb are, one behind the  *)
(* other, the numbers from 1 to what was captured; between two partial     *)
(* writes the decoder and the parts that are left are inside the same      *)
(* chunk.  The end of the body is written when all of them are empty.      *)
(*                                                                         *)
(* A reply is played in order, and a sound one to its end.  The bytes of a *)
(* file are numbered by the offsets of its chunks; what the parser knows   *)
(* is a function of the position the reader has come to, so a cut between  *)
(* two reads changes nothing.  What TLC computes by recursion is reached   *)
(* by induction over the least counterexample (LeastOf, Climb).  The       *)
(* samples are followed from the speaker back to the stream: played,       *)
(* copied, buffered and still to be read are one behind the other the      *)
(* bytes of the data chunk.  PlaybackInv is the inductive invariant.       *)
(***************************************************************************)
EXTENDS AudioPath, TLAPS, FiniteSetTheorems, WellFoundedInduction, SequenceTheorems

-----------------------------------------------------------------------------
(* ring_buffer.c                                                           *)

\* The capacity is a positive number.
LEMMA CapacityPositive == Capacity \in Nat /\ Capacity > 0
  BY RingBufferAssumption

\* The mask keeps a position and takes one that ran past the end back to the
\* beginning.
LEMMA MaskWraps ==
  ASSUME NEW i \in Nat, i < 2 * Capacity
  PROVE  Mask(i) = IF i < Capacity THEN i ELSE i - Capacity
<1>1. CASE i < Capacity
  BY <1>1, CapacityPositive DEF Mask
<1>2. CASE i >= Capacity
  <2>1. i - Capacity \in 0 .. Capacity - 1
    BY <1>2, CapacityPositive
  <2>2. (i - Capacity + Capacity) % Capacity = (i - Capacity) % Capacity
    BY <2>1, CapacityPositive
  <2> QED
    BY <1>2, <2>1, <2>2, CapacityPositive DEF Mask
<1> QED
  BY <1>1, <1>2, CapacityPositive

\* The smallest of three numbers, as ring_buffer_push takes it.
LEMMA LeastOfThree ==
  ASSUME NEW a \in Nat, NEW b \in Nat, NEW c \in Nat
  PROVE  LET k == Least(a, Least(b, c)) IN
         /\ k \in Nat /\ k <= a /\ k <= b /\ k <= c
         /\ k = a \/ k = b \/ k = c
<1>1. Least(b, c) \in Nat /\ Least(b, c) <= b /\ Least(b, c) <= c
      /\ (Least(b, c) = b \/ Least(b, c) = c)
  BY DEF Least
<1> DEFINE m == Least(b, c)
<1> HIDE DEF m
<1>2. m \in Nat /\ m <= b /\ m <= c /\ (m = b \/ m = c)
  BY <1>1 DEF m
<1>3. LET k == Least(a, m) IN
      /\ k \in Nat /\ k <= a /\ k <= b /\ k <= c
      /\ k = a \/ k = b \/ k = c
  BY <1>2 DEF Least
<1> QED
  BY <1>3 DEF m

\* The ring after ring_buffer_init.
LEMMA EmptyRingWellFormed == WellFormed(EmptyRing)
<1>1. EmptyRing \in Rings
  BY CapacityPositive DEF EmptyRing, Rings, Indices
<1>2. EmptyRing.tail = Mask(EmptyRing.head + EmptyRing.count)
  BY MaskWraps, CapacityPositive DEF EmptyRing
<1>3. \A i \in 1 .. EmptyRing.count : FALSE
  BY DEF EmptyRing
<1> QED
  BY <1>1, <1>2, <1>3 DEF WellFormed

\* ring_buffer_reset
LEMMA ResetWellFormed ==
  ASSUME NEW ring \in Rings
  PROVE  WellFormed(Reset(ring))
<1>1. Reset(ring) \in Rings
  BY CapacityPositive DEF Reset, Rings, Indices
<1>2. Reset(ring).tail = Mask(Reset(ring).head + Reset(ring).count)
  BY MaskWraps, CapacityPositive DEF Reset, Rings
<1>3. \A i \in 1 .. Reset(ring).count : FALSE
  BY DEF Reset, Rings
<1> QED
  BY <1>1, <1>2, <1>3 DEF WellFormed

\* Where a run of n bytes behind the count bytes from position h lands, when it
\* fits and does not run past the end.
LEMMA Positions ==
  ASSUME NEW h \in 0 .. Capacity - 1, NEW c \in 0 .. Capacity, NEW t \in 0 .. Capacity - 1,
         NEW n \in Nat, t = Mask(h + c), c + n <= Capacity, t + n <= Capacity
  PROVE  /\ Mask(t + n) \in 0 .. Capacity - 1
         /\ Mask(t + n) = Mask(h + (c + n))
         /\ \A i \in 1 .. c : /\ Mask(h + i - 1) \in 0 .. Capacity - 1
                              /\ Mask(h + i - 1) < t \/ Mask(h + i - 1) >= t + n
         /\ \A i \in 1 .. n : Mask(h + (c + i) - 1) = t + i - 1
<1>1. t = IF h + c < Capacity THEN h + c ELSE h + c - Capacity
  BY MaskWraps, CapacityPositive
<1>2. Mask(t + n) = IF t + n < Capacity THEN t + n ELSE t + n - Capacity
  BY MaskWraps, CapacityPositive
<1>5. ASSUME NEW i \in 1 .. n
      PROVE  Mask(h + (c + i) - 1) = t + i - 1
  <2> DEFINE p == h + (c + i) - 1
  <2>1. p \in Nat /\ p < 2 * Capacity
    BY CapacityPositive
  <2> HIDE DEF p
  <2>2. Mask(p) = IF p < Capacity THEN p ELSE p - Capacity
    BY <2>1, MaskWraps
  <2>3. (IF p < Capacity THEN p ELSE p - Capacity) = t + i - 1
    BY <1>1, CapacityPositive DEF p
  <2> QED
    BY <2>2, <2>3 DEF p
<1>6. Mask(t + n) \in 0 .. Capacity - 1 /\ Mask(t + n) = Mask(h + (c + n))
  <2> DEFINE p == h + (c + n)
  <2>1. p \in Nat /\ p < 2 * Capacity
    BY CapacityPositive
  <2> HIDE DEF p
  <2>2. Mask(p) = IF p < Capacity THEN p ELSE p - Capacity
    BY <2>1, MaskWraps
  <2>3. (IF p < Capacity THEN p ELSE p - Capacity)
          = (IF t + n < Capacity THEN t + n ELSE t + n - Capacity)
    BY <1>1, CapacityPositive DEF p
  <2>4. Mask(t + n) = Mask(p)
    BY <1>2, <2>2, <2>3
  <2>5. Mask(t + n) \in 0 .. Capacity - 1
    BY <1>2, CapacityPositive
  <2> QED
    BY <2>4, <2>5 DEF p
<1>7. ASSUME NEW i \in 1 .. c
      PROVE  /\ Mask(h + i - 1) \in 0 .. Capacity - 1
             /\ Mask(h + i - 1) < t \/ Mask(h + i - 1) >= t + n
  <2> DEFINE p == h + i - 1
             m == Mask(p)
  <2>1. p \in Nat /\ p < 2 * Capacity
    BY CapacityPositive
  <2>2. m = IF p < Capacity THEN p ELSE p - Capacity
    <3> HIDE DEF p
    <3> QED
      BY <2>1, MaskWraps
  <2> HIDE DEF m
  <2>3. m \in 0 .. Capacity - 1 /\ (m < t \/ m >= t + n)
    BY <1>1, <2>2, CapacityPositive
  <2> QED
    BY <2>3 DEF m
<1> QED
  BY <1>5, <1>6, <1>7

\* Where the read position and what lies behind it are after n bytes were taken.
LEMMA PopPositions ==
  ASSUME NEW h \in 0 .. Capacity - 1, NEW c \in 0 .. Capacity, NEW n \in Nat, n <= c
  PROVE  /\ Mask(h + n) \in 0 .. Capacity - 1
         /\ Mask(Mask(h + n) + (c - n)) = Mask(h + c)
         /\ \A i \in 1 .. c - n : Mask(Mask(h + n) + i - 1) = Mask(h + (n + i) - 1)
         /\ \A i \in 1 .. n : Mask(h + i - 1) = IF i <= Least(n, Capacity - h) THEN h + i - 1
                                                ELSE i - Least(n, Capacity - h) - 1
<1> DEFINE m == Mask(h + n)
<1>1. m = IF h + n < Capacity THEN h + n ELSE h + n - Capacity
  BY MaskWraps, CapacityPositive
<1> HIDE DEF m
<1>2. m \in 0 .. Capacity - 1
  BY <1>1, CapacityPositive
<1>3. ASSUME NEW j \in Nat, n + j <= Capacity
      PROVE  Mask(m + j) = Mask(h + (n + j))
  <2> DEFINE p == m + j
             q == h + (n + j)
  <2>1. p \in Nat /\ p < 2 * Capacity /\ q \in Nat /\ q < 2 * Capacity
    BY <1>2, <1>3, CapacityPositive
  <2>2. \/ p = q
        \/ p = q - Capacity /\ p < Capacity /\ q >= Capacity
    BY <1>1, <1>2, <1>3, CapacityPositive
  <2> HIDE DEF p, q
  <2>3. /\ Mask(p) = IF p < Capacity THEN p ELSE p - Capacity
        /\ Mask(q) = IF q < Capacity THEN q ELSE q - Capacity
    BY <2>1, MaskWraps
  <2>4. Mask(p) = Mask(q)
    BY <2>1, <2>2, <2>3, CapacityPositive
  <2> QED
    BY <2>4 DEF p, q
<1>4. Mask(m + (c - n)) = Mask(h + c)
  <2>1. c - n \in Nat /\ n + (c - n) = c
    OBVIOUS
  <2> QED
    BY <1>3, <2>1
<1>5. ASSUME NEW i \in 1 .. c - n
      PROVE  Mask(m + i - 1) = Mask(h + (n + i) - 1)
  <2>1. i - 1 \in Nat /\ n + (i - 1) <= Capacity
    BY CapacityPositive
  <2>2. m + (i - 1) = m + i - 1 /\ h + (n + (i - 1)) = h + (n + i) - 1
    BY <1>2
  <2> QED
    BY <1>3, <2>1, <2>2
<1>6. ASSUME NEW i \in 1 .. n
      PROVE  Mask(h + i - 1) = IF i <= Least(n, Capacity - h) THEN h + i - 1
                               ELSE i - Least(n, Capacity - h) - 1
  <2> DEFINE p == h + i - 1
  <2>1. p \in Nat /\ p < 2 * Capacity
    BY CapacityPositive
  <2> HIDE DEF p
  <2>2. Mask(p) = IF p < Capacity THEN p ELSE p - Capacity
    BY <2>1, MaskWraps
  <2>3. (IF p < Capacity THEN p ELSE p - Capacity)
          = (IF i <= Least(n, Capacity - h) THEN h + i - 1 ELSE i - Least(n, Capacity - h) - 1)
    BY CapacityPositive DEF p, Least
  <2> QED
    BY <2>2, <2>3 DEF p
<1> QED
  BY <1>2, <1>4, <1>5, <1>6 DEF m

\* One memcpy of a push: what it copies lands behind what is there, and the
\* rest is left.
LEMMA PushRunAppends ==
  ASSUME NEW ring, WellFormed(ring), NEW s \in Seq(Byte)
  PROVE  LET n == Least(Len(s), Least(Capacity - ring.count, Capacity - ring.tail)) IN
         /\ WellFormed(PushRun(ring, s).ring)
         /\ PushRun(ring, s).left \in Seq(Byte)
         /\ PushRun(ring, s).ring.count = ring.count + n
         /\ PushRun(ring, s).ring.overflow = ring.overflow
         /\ \A i \in 1 .. ring.count : Contents(PushRun(ring, s).ring)[i] = Contents(ring)[i]
         /\ \A i \in 1 .. n : Contents(PushRun(ring, s).ring)[ring.count + i] = s[i]
<1> DEFINE n == Least(Len(s), Least(Capacity - ring.count, Capacity - ring.tail))
           new == PushRun(ring, s).ring
<1>0. ring \in Rings /\ ring.tail = Mask(ring.head + ring.count)
  BY DEF WellFormed
<1>1. /\ ring.head \in 0 .. Capacity - 1 /\ ring.tail \in 0 .. Capacity - 1
      /\ ring.count \in 0 .. Capacity /\ ring.overflow \in BOOLEAN
  BY <1>0 DEF Rings, Indices
<1>2. ring.data \in [Indices -> Byte \cup {Unset}]
  BY <1>0 DEF Rings
<1>3. n \in Nat /\ n <= Len(s) /\ ring.count + n <= Capacity /\ ring.tail + n <= Capacity
  <2>1. Len(s) \in Nat /\ Capacity - ring.count \in Nat /\ Capacity - ring.tail \in Nat
    BY <1>1, CapacityPositive
  <2>2. Least(Capacity - ring.count, Capacity - ring.tail) \in Nat
    BY <2>1 DEF Least
  <2>3. n \in Nat
    BY <2>1, <2>2 DEF Least
  <2>4. n <= Len(s) /\ n <= Capacity - ring.count /\ n <= Capacity - ring.tail
    BY <2>1, <2>2 DEF Least
  <2> QED
    BY <1>1, <2>3, <2>4, CapacityPositive
<1>4. \A i \in 1 .. n : s[i] \in Byte
  BY <1>3
<1> DEFINE data == [i \in Indices |->
                      IF i \in ring.tail .. ring.tail + n - 1 THEN s[i - ring.tail + 1] ELSE ring.data[i]]
<1>5. new = [data |-> data, head |-> ring.head, tail |-> Mask(ring.tail + n),
             count |-> ring.count + n, overflow |-> ring.overflow]
  BY DEF PushRun
<1>6. /\ new.data = data
      /\ new.tail = Mask(ring.tail + n) /\ new.count = ring.count + n
      /\ new.head = ring.head /\ new.overflow = ring.overflow
  BY <1>5
<1> HIDE DEF n, new, data
<1>7. /\ Mask(ring.tail + n) \in 0 .. Capacity - 1
      /\ Mask(ring.tail + n) = Mask(ring.head + (ring.count + n))
      /\ \A i \in 1 .. ring.count : /\ Mask(ring.head + i - 1) \in 0 .. Capacity - 1
                                  /\ \/ Mask(ring.head + i - 1) < ring.tail
                                     \/ Mask(ring.head + i - 1) >= ring.tail + n
      /\ \A i \in 1 .. n : Mask(ring.head + (ring.count + i) - 1) = ring.tail + i - 1
  BY <1>0, <1>1, <1>3, Positions
<1>8. data \in [Indices -> Byte \cup {Unset}]
  <2>1. ASSUME NEW i \in Indices, i \in ring.tail .. ring.tail + n - 1
        PROVE  s[i - ring.tail + 1] \in Byte
    BY <2>1, <1>1, <1>3, <1>4, CapacityPositive DEF Indices
  <2> QED
    BY <1>2, <2>1 DEF data
<1>9. new \in Rings
  BY <1>1, <1>3, <1>5, <1>7, <1>8, CapacityPositive DEF Rings, Indices
<1>10. ASSUME NEW i \in 1 .. ring.count
       PROVE  data[Mask(ring.head + i - 1)] = ring.data[Mask(ring.head + i - 1)]
  <2>1. Mask(ring.head + i - 1) \in Indices
    BY <1>7 DEF Indices
  <2> DEFINE m == Mask(ring.head + i - 1)
  <2>2. m \in Int /\ (m < ring.tail \/ m >= ring.tail + n)
    BY <1>7, CapacityPositive
  <2> HIDE DEF m
  <2>3. ~(m \in ring.tail .. ring.tail + n - 1)
    BY <1>1, <1>3, <2>2
  <2> QED
    BY <2>1, <2>3 DEF data, m
<1>11. ASSUME NEW i \in 1 .. n
       PROVE  data[Mask(ring.head + (ring.count + i) - 1)] = s[i]
  <2> DEFINE m == ring.tail + i - 1
  <2>1. m \in Indices /\ m \in ring.tail .. ring.tail + n - 1
    BY <1>1, <1>3, CapacityPositive DEF Indices
  <2>2. m - ring.tail + 1 = i
    BY <1>1, <1>3
  <2> HIDE DEF m
  <2>3. data[m] = s[i]
    BY <2>1, <2>2 DEF data
  <2> QED
    BY <2>3, <1>7 DEF m
<1>12. WellFormed(new)
  <2>1. ASSUME NEW i \in 1 .. ring.count + n
        PROVE  data[Mask(ring.head + i - 1)] \in Byte
    <3>1. CASE i \in 1 .. ring.count
      BY <3>1, <1>10 DEF WellFormed
    <3>2. CASE i - ring.count \in 1 .. n
      <4>1. data[Mask(ring.head + (ring.count + (i - ring.count)) - 1)] = s[i - ring.count]
        BY <3>2, <1>11
      <4>2. ring.count + (i - ring.count) = i
        BY <1>1, <1>3
      <4> QED
        BY <3>2, <4>1, <4>2, <1>4
    <3> QED
      BY <3>1, <3>2, <1>1, <1>3
  <2> QED
    BY <1>6, <1>7, <1>9, <2>1 DEF WellFormed
<1>13. PushRun(ring, s).left \in Seq(Byte)
  <2>1. PushRun(ring, s).left = SubSeq(s, n + 1, Len(s))
    BY DEF PushRun, n
  <2> QED
    BY <1>3, <2>1
<1>14. \A i \in 1 .. ring.count : Contents(new)[i] = Contents(ring)[i]
  BY <1>1, <1>3, <1>6, <1>10 DEF Contents
<1>15. \A i \in 1 .. n : Contents(new)[ring.count + i] = s[i]
  <2>1. ASSUME NEW i \in 1 .. n
        PROVE  Contents(new)[ring.count + i] = data[Mask(ring.head + (ring.count + i) - 1)]
    <3>1. ring.count + i \in 1 .. ring.count + n
      BY <1>1, <1>3
    <3> QED
      BY <3>1, <1>6 DEF Contents
  <2> QED
    BY <2>1, <1>11
<1> QED
  BY <1>6, <1>12, <1>13, <1>14, <1>15 DEF n, new

\* The two runs of a push together take what there is room for.
LEMMA TwoRuns ==
  ASSUME NEW cap \in Nat, NEW len \in Nat, NEW count \in 0 .. cap, NEW tail \in 0 .. cap - 1,
         NEW after \in 0 .. cap - 1, NEW n1 \in Nat, NEW n2 \in Nat, NEW n,
         n1 <= len, n1 <= cap - count, n1 <= cap - tail,
         n1 = len \/ n1 = cap - count \/ n1 = cap - tail,
         n1 = cap - tail => after = 0,
         n2 <= len - n1, n2 <= cap - (count + n1), n2 <= cap - after,
         n2 = len - n1 \/ n2 = cap - (count + n1) \/ n2 = cap - after,
         n = IF len < cap - count THEN len ELSE cap - count
  PROVE  n1 + n2 = n
<1>1. CASE n1 = len
  BY <1>1
<1>2. CASE n1 = cap - count
  BY <1>2
<1>3. CASE n1 = cap - tail
  BY <1>3
<1> QED
  BY <1>1, <1>2, <1>3

\* ring_buffer_push: as much of the data as there is room for comes to stand, in
\* order, behind what the reader had to get, and the flag says whether that was
\* all of it.
THEOREM PushAppends ==
  ASSUME NEW ring, WellFormed(ring), NEW s \in Seq(Byte)
  PROVE  LET n == Least(Len(s), Capacity - ring.count) IN
         /\ WellFormed(Push(ring, s))
         /\ Push(ring, s).count = ring.count + n
         /\ Push(ring, s).overflow = (ring.overflow \/ n < Len(s))
         /\ \A i \in 1 .. ring.count : Contents(Push(ring, s))[i] = Contents(ring)[i]
         /\ \A i \in 1 .. n : Contents(Push(ring, s))[ring.count + i] = s[i]
<1> DEFINE n1 == Least(Len(s), Least(Capacity - ring.count, Capacity - ring.tail))
           one == PushRun(ring, s).ring
           rest == PushRun(ring, s).left
           n2 == Least(Len(rest), Least(Capacity - one.count, Capacity - one.tail))
           two == PushRun(one, rest).ring
           over == PushRun(one, rest).left
           n == Least(Len(s), Capacity - ring.count)
<1>1. /\ WellFormed(one) /\ rest \in Seq(Byte)
      /\ one.count = ring.count + n1 /\ one.overflow = ring.overflow
      /\ \A i \in 1 .. ring.count : Contents(one)[i] = Contents(ring)[i]
      /\ \A i \in 1 .. n1 : Contents(one)[ring.count + i] = s[i]
  BY PushRunAppends
<1>2. /\ WellFormed(two) /\ over \in Seq(Byte)
      /\ two.count = one.count + n2 /\ two.overflow = one.overflow
      /\ \A i \in 1 .. one.count : Contents(two)[i] = Contents(one)[i]
      /\ \A i \in 1 .. n2 : Contents(two)[one.count + i] = rest[i]
  <2>1. WellFormed(one) /\ rest \in Seq(Byte)
    BY <1>1
  <2> HIDE DEF one, rest
  <2> QED
    BY <2>1, PushRunAppends
<1>3. rest = SubSeq(s, n1 + 1, Len(s)) /\ over = SubSeq(rest, n2 + 1, Len(rest))
  BY DEF PushRun
<1>4. Push(ring, s) = [data |-> two.data, head |-> two.head, tail |-> two.tail,
                     count |-> two.count, overflow |-> Flag(two, over)]
  BY DEF Push
<1>5. one.tail = Mask(ring.tail + n1)
  BY DEF PushRun
<1>6. two \in Rings /\ one \in Rings /\ ring \in Rings
  BY <1>1, <1>2 DEF WellFormed
<1>7. /\ ring.count \in 0 .. Capacity /\ ring.tail \in 0 .. Capacity - 1 /\ ring.overflow \in BOOLEAN
      /\ one.count \in 0 .. Capacity /\ one.tail \in 0 .. Capacity - 1
      /\ two.count \in 0 .. Capacity
  BY <1>6 DEF Rings, Indices
<1> HIDE DEF one, two, rest, over
<1>8. n1 \in Nat /\ n1 <= Len(s) /\ n1 <= Capacity - ring.count /\ n1 <= Capacity - ring.tail
      /\ (n1 = Len(s) \/ n1 = Capacity - ring.count \/ n1 = Capacity - ring.tail)
  <2>1. Len(s) \in Nat /\ Capacity - ring.count \in Nat /\ Capacity - ring.tail \in Nat
    BY <1>7, CapacityPositive
  <2> QED
    BY <2>1, LeastOfThree
<1>9. Len(rest) = Len(s) - n1 /\ (\A i \in 1 .. Len(s) - n1 : rest[i] = s[n1 + i])
  BY <1>3, <1>8
<1>10. n2 \in Nat /\ n2 <= Len(rest) /\ n2 <= Capacity - one.count /\ n2 <= Capacity - one.tail
       /\ (n2 = Len(rest) \/ n2 = Capacity - one.count \/ n2 = Capacity - one.tail)
  <2>1. Len(rest) \in Nat
    BY <1>1
  <2>2. Capacity - one.count \in Nat /\ Capacity - one.tail \in Nat
    BY <1>7, CapacityPositive
  <2> QED
    BY <2>1, <2>2, LeastOfThree
<1> HIDE DEF n1, n2
<1>11. n1 = Capacity - ring.tail => one.tail = 0
  <2>1. ASSUME n1 = Capacity - ring.tail
        PROVE  ring.tail + n1 = Capacity
    BY <2>1, <1>7, CapacityPositive
  <2>2. Mask(Capacity) = 0
    BY MaskWraps, CapacityPositive
  <2> QED
    BY <1>5, <2>1, <2>2
<1>12. n1 + n2 = n
  <2>1. n = IF Len(s) < Capacity - ring.count THEN Len(s) ELSE Capacity - ring.count
    BY DEF Least
  <2> HIDE DEF n
  <2>2. Len(s) \in Nat /\ Len(rest) = Len(s) - n1 /\ one.count = ring.count + n1
    BY <1>1, <1>9
  <2>3. /\ n2 <= Len(s) - n1 /\ n2 <= Capacity - (ring.count + n1)
        /\ n2 = Len(s) - n1 \/ n2 = Capacity - (ring.count + n1) \/ n2 = Capacity - one.tail
    BY <2>2, <1>10
  <2> DEFINE len == Len(s)
             count == ring.count
             tail == ring.tail
             after == one.tail
  <2>4. /\ Capacity \in Nat /\ len \in Nat /\ count \in 0 .. Capacity
        /\ tail \in 0 .. Capacity - 1 /\ after \in 0 .. Capacity - 1
        /\ n1 \in Nat /\ n2 \in Nat
    BY <2>2, <1>7, <1>8, <1>10, CapacityPositive
  <2>5. /\ n1 <= len /\ n1 <= Capacity - count /\ n1 <= Capacity - tail
        /\ n1 = len \/ n1 = Capacity - count \/ n1 = Capacity - tail
    BY <1>8
  <2>6. /\ n2 <= len - n1 /\ n2 <= Capacity - (count + n1) /\ n2 <= Capacity - after
        /\ n2 = len - n1 \/ n2 = Capacity - (count + n1) \/ n2 = Capacity - after
    BY <2>3, <1>10
  <2>7. n1 = Capacity - tail => after = 0
    BY <1>11
  <2>8. n = IF len < Capacity - count THEN len ELSE Capacity - count
    BY <2>1
  <2> HIDE DEF len, count, tail, after
  <2> QED
    BY <2>4, <2>5, <2>6, <2>7, <2>8, TwoRuns
<1>13. over # <<>> <=> n < Len(s)
  <2>1. Len(over) = Len(rest) - n2 /\ Len(rest) \in Nat
    <3>1. Len(rest) \in Nat /\ n2 + 1 \in 1 .. Len(rest) + 1
      BY <1>1, <1>10
    <3> QED
      BY <3>1, <1>1, <1>3, <1>10
  <2>2. over # <<>> <=> Len(over) # 0
    BY <1>2
  <2>3. Len(s) \in Nat /\ Len(rest) = Len(s) - n1
    BY <1>9
  <2> HIDE DEF n
  <2> QED
    BY <1>8, <1>10, <1>12, <2>1, <2>2, <2>3
<1> DEFINE new == Push(ring, s)
<1>14. /\ new \in Rings /\ new.count = two.count /\ new.head = two.head /\ new.tail = two.tail
       /\ new.data = two.data /\ new.overflow = Flag(two, over)
  BY <1>2, <1>4, <1>6 DEF Rings, Flag
<1> HIDE DEF new
<1>15. WellFormed(new)
  BY <1>2, <1>14 DEF WellFormed
<1>16. Contents(new) = Contents(two)
  BY <1>14 DEF Contents
<1>17. new.overflow = (ring.overflow \/ n < Len(s))
  BY <1>1, <1>2, <1>13, <1>14 DEF Flag
<1>18. new.count = ring.count + n
  BY <1>1, <1>2, <1>7, <1>8, <1>10, <1>12, <1>14
<1>19. ASSUME NEW i \in 1 .. ring.count
       PROVE  Contents(new)[i] = Contents(ring)[i]
  <2>1. i \in 1 .. one.count
    <3>1. one.count = ring.count + n1 /\ ring.count \in Nat /\ n1 \in Nat
      BY <1>1, <1>7, <1>8
    <3> QED
      BY <3>1
  <2>2. Contents(one)[i] = Contents(ring)[i]
    BY <1>1
  <2>3. Contents(two)[i] = Contents(one)[i]
    BY <1>2, <2>1
  <2> QED
    BY <1>16, <2>2, <2>3
<1>20. ASSUME NEW i \in 1 .. n
       PROVE  Contents(new)[ring.count + i] = s[i]
  <2>1. CASE i <= n1
    <3>1. i \in 1 .. n1 /\ ring.count + i \in 1 .. one.count
      <4>1. one.count = ring.count + n1 /\ ring.count \in Nat /\ n1 \in Nat
        BY <1>1, <1>7, <1>8
      <4> QED
        BY <2>1, <4>1
    <3>2. Contents(one)[ring.count + i] = s[i]
      BY <3>1, <1>1
    <3>3. Contents(two)[ring.count + i] = Contents(one)[ring.count + i]
      BY <3>1, <1>2
    <3> QED
      BY <3>2, <3>3, <1>16
  <2>2. CASE i > n1
    <3>1. i - n1 \in 1 .. n2 /\ i - n1 \in 1 .. Len(s) - n1
      BY <2>2, <1>7, <1>8, <1>9, <1>10, <1>12
    <3>2. one.count + (i - n1) = ring.count + i /\ n1 + (i - n1) = i
      BY <1>1, <1>7, <1>8, <1>12
    <3> QED
      BY <3>1, <3>2, <1>2, <1>9, <1>16
  <2> QED
    BY <2>1, <2>2, <1>7, <1>8, <1>12
<1> QED
  BY <1>15, <1>17, <1>18, <1>19, <1>20 DEF new

\* ring_buffer_pop: the reader gets what is at the front, in order, and the rest
\* stays.
THEOREM PopTakes ==
  ASSUME NEW ring, WellFormed(ring), NEW len \in Nat
  PROVE  LET n == Least(len, ring.count) IN
         /\ WellFormed(Pop(ring, len))
         /\ Pop(ring, len).count = ring.count - n
         /\ Pop(ring, len).overflow = ring.overflow
         /\ \A i \in 1 .. n : Taken(ring, len)[i] = Contents(ring)[i]
         /\ \A i \in 1 .. ring.count - n : Contents(Pop(ring, len))[i] = Contents(ring)[n + i]
<1> DEFINE n == Popped(ring, len)
           new == Pop(ring, len)
<1>0. ring \in Rings /\ ring.tail = Mask(ring.head + ring.count)
      /\ \A i \in 1 .. ring.count : ring.data[Mask(ring.head + i - 1)] \in Byte
  BY DEF WellFormed
<1>1. /\ ring.head \in 0 .. Capacity - 1 /\ ring.tail \in 0 .. Capacity - 1
      /\ ring.count \in 0 .. Capacity /\ ring.overflow \in BOOLEAN
  BY <1>0 DEF Rings, Indices
<1>2. ring.data \in [Indices -> Byte \cup {Unset}]
  BY <1>0 DEF Rings
<1>3. n \in Nat /\ n <= ring.count /\ n = Least(len, ring.count)
  BY <1>1 DEF Popped, Least
<1>4. new = [data |-> ring.data, head |-> Mask(ring.head + n), tail |-> ring.tail,
             count |-> ring.count - n, overflow |-> ring.overflow]
  BY DEF Pop
<1>5. /\ new.data = ring.data /\ new.head = Mask(ring.head + n) /\ new.tail = ring.tail
      /\ new.count = ring.count - n /\ new.overflow = ring.overflow
  BY <1>4
<1>6. Taken(ring, len) = [i \in 1 .. n |-> ring.data[IF i <= Least(n, Capacity - ring.head)
                                                 THEN ring.head + i - 1
                                                 ELSE i - Least(n, Capacity - ring.head) - 1]]
  BY DEF Taken
<1> HIDE DEF n, new
<1>7. /\ Mask(ring.head + n) \in 0 .. Capacity - 1
      /\ Mask(Mask(ring.head + n) + (ring.count - n)) = Mask(ring.head + ring.count)
      /\ \A i \in 1 .. ring.count - n :
           Mask(Mask(ring.head + n) + i - 1) = Mask(ring.head + (n + i) - 1)
      /\ \A i \in 1 .. n : Mask(ring.head + i - 1) =
                             IF i <= Least(n, Capacity - ring.head) THEN ring.head + i - 1
                             ELSE i - Least(n, Capacity - ring.head) - 1
  <2>1. ring.head \in 0 .. Capacity - 1 /\ ring.count \in 0 .. Capacity /\ n \in 0 .. ring.count
    BY <1>1, <1>3
  <2> QED
    BY <2>1, PopPositions
<1>8. new \in Rings
  BY <1>1, <1>2, <1>3, <1>4, <1>7, CapacityPositive DEF Rings, Indices
<1>9. ASSUME NEW i \in 1 .. ring.count - n
      PROVE  new.data[Mask(new.head + i - 1)] = ring.data[Mask(ring.head + (n + i) - 1)]
             /\ n + i \in 1 .. ring.count
  BY <1>1, <1>3, <1>5, <1>7
<1>10. WellFormed(new)
  BY <1>0, <1>5, <1>7, <1>8, <1>9 DEF WellFormed
<1>11. ASSUME NEW i \in 1 .. n PROVE Taken(ring, len)[i] = Contents(ring)[i]
  <2> DEFINE k == IF i <= Least(n, Capacity - ring.head) THEN ring.head + i - 1
                  ELSE i - Least(n, Capacity - ring.head) - 1
  <2>1. Taken(ring, len)[i] = ring.data[k]
    BY <1>6
  <2>2. k = Mask(ring.head + i - 1)
    BY <1>7
  <2>3. i \in 1 .. ring.count
    BY <1>1, <1>3
  <2> HIDE DEF k
  <2>4. Contents(ring)[i] = ring.data[Mask(ring.head + i - 1)]
    BY <2>3 DEF Contents
  <2> QED
    BY <2>1, <2>2, <2>4
<1>12. \A i \in 1 .. ring.count - n : Contents(new)[i] = Contents(ring)[n + i]
  BY <1>5, <1>9 DEF Contents
<1> QED
  BY <1>3, <1>5, <1>10, <1>11, <1>12 DEF new

-----------------------------------------------------------------------------
(* The recording on its way to the gateway.                                *)

RingInv ==
  /\ RingWellFormed
  /\ captured \in 0 .. MaxRecord
  /\ outgoing \in Seq(Byte) /\ Len(outgoing) <= StreamSize

\* What recording_drain takes from a well-formed ring: bytes, and no more than
\* the stream has room for.
LEMMA DrainKeepsTaken ==
  ASSUME NEW ring, WellFormed(ring), outgoing \in Seq(Byte), Len(outgoing) <= StreamSize
  PROVE  LET m == Moved(ring)
             n == Least(m, ring.count)
         IN  /\ m \in Nat /\ n \in Nat /\ n <= StreamSize - Len(outgoing)
             /\ Taken(ring, m) \in Seq(Byte) /\ Len(Taken(ring, m)) = n
<1> DEFINE m == Moved(ring)
           n == Least(m, ring.count)
<1>1. ring.count \in Nat
  BY CapacityPositive DEF WellFormed, Rings
<1>2. m \in Nat /\ m <= StreamSize - Len(outgoing)
  BY <1>1, AudioPathAssumption DEF Moved, Least
<1>3. n \in Nat /\ n <= m
  BY <1>1, <1>2 DEF Least
<1> HIDE DEF m
<1>5. \A i \in 1 .. n : Taken(ring, m)[i] = Contents(ring)[i]
  BY <1>2, PopTakes
<1>6. \A i \in 1 .. n : Contents(ring)[i] \in Byte
  <2>1. \A i \in 1 .. ring.count : Contents(ring)[i] \in Byte
    BY DEF WellFormed, Contents
  <2>2. n <= ring.count
    BY <1>1, <1>2 DEF Least
  <2> QED
    BY <1>1, <1>3, <2>1, <2>2
<1>7. Taken(ring, m) \in Seq(Byte) /\ Len(Taken(ring, m)) = n
  <2> DEFINE first == Least(n, Capacity - ring.head)
             byte(i) == ring.data[IF i <= first THEN ring.head + i - 1 ELSE i - first - 1]
  <2>1. Taken(ring, m) = [i \in 1 .. n |-> byte(i)]
    BY DEF Taken, Popped
  <2> HIDE DEF n, byte
  <2>2. \A i \in 1 .. n : byte(i) \in Byte
    BY <1>5, <1>6, <2>1
  <2> QED
    BY <1>3, <2>1, <2>2
<1> HIDE DEF n
<1>8. n <= StreamSize - Len(outgoing)
  BY <1>2, <1>3, AudioPathAssumption
<1> QED
  BY <1>2, <1>3, <1>7, <1>8 DEF m, n

\* It fits into the stream, and leaves a well-formed ring.
LEMMA DrainKeeps ==
  ASSUME NEW ring, WellFormed(ring), Drain(ring),
         outgoing \in Seq(Byte), Len(outgoing) <= StreamSize
  PROVE  WellFormed(rb') /\ outgoing' \in Seq(Byte) /\ Len(outgoing') <= StreamSize
<1> DEFINE m == Moved(ring)
           n == Least(m, ring.count)
<1>1. /\ m \in Nat /\ n \in Nat /\ n <= StreamSize - Len(outgoing)
      /\ Taken(ring, m) \in Seq(Byte) /\ Len(Taken(ring, m)) = n
  BY DrainKeepsTaken
<1>2. rb' = Pop(ring, m) /\ outgoing' = outgoing \o Taken(ring, m)
  BY DEF Drain
<1> HIDE DEF m, n
<1>3. WellFormed(rb')
  BY <1>1, <1>2, PopTakes
<1> QED
  BY <1>1, <1>2, <1>3, AudioPathAssumption

LEMMA InitRingInv == Init => RingInv
<1> SUFFICES ASSUME Init PROVE RingInv
  OBVIOUS
<1>1. rb = EmptyRing /\ captured = 0 /\ outgoing = <<>>
  BY DEF Init
<1>2. WellFormed(rb)
  BY <1>1, EmptyRingWellFormed
<1> QED
  BY <1>1, <1>2, AudioPathAssumption DEF RingInv, RingWellFormed

LEMMA NextRingInv == RingInv /\ [Next]_vars => RingInv'
<1> SUFFICES ASSUME RingInv, [Next]_vars PROVE RingInv'
  OBVIOUS
<1>1. /\ WellFormed(rb) /\ captured \in 0 .. MaxRecord
      /\ outgoing \in Seq(Byte) /\ Len(outgoing) <= StreamSize
  BY DEF RingInv, RingWellFormed
<1>2. ASSUME UNCHANGED <<rb, captured, outgoing>> PROVE RingInv'
  BY <1>1, <1>2 DEF RingInv, RingWellFormed, WellFormed, Rings, Indices
<1>3. ASSUME WellFormed(rb'), captured' \in 0 .. MaxRecord,
             outgoing' \in Seq(Byte), Len(outgoing') <= StreamSize
      PROVE  RingInv'
  BY <1>3 DEF RingInv, RingWellFormed, WellFormed, Rings, Indices
<1>4. CASE Press
  <2>1. rb' = Reset(rb) /\ captured' = 0 /\ outgoing' = <<>>
    BY <1>4 DEF Press
  <2>2. WellFormed(rb')
    BY <1>1, <2>1, ResetWellFormed DEF WellFormed
  <2> QED
    BY <1>3, <2>1, <2>2, AudioPathAssumption
<1>5. ASSUME NEW n \in 0 .. CaptureSize, NEW released \in BOOLEAN, Record(n, released)
      PROVE  RingInv'
  <2> DEFINE s == [i \in 1 .. n |-> captured + i]
  <2>1. captured + n <= MaxRecord /\ captured' = captured + n /\ Drain(Push(rb, s))
    BY <1>5 DEF Record, Captured
  <2>2. n \in Nat /\ captured + n <= MaxRecord
    BY <2>1, AudioPathAssumption
  <2>3. s \in Seq(Byte)
    BY <1>1, <2>2, AudioPathAssumption
  <2> HIDE DEF s
  <2>4. WellFormed(Push(rb, s))
    BY <1>1, <2>3, PushAppends
  <2>5. WellFormed(rb') /\ outgoing' \in Seq(Byte) /\ Len(outgoing') <= StreamSize
    BY <1>1, <2>1, <2>4, DrainKeeps
  <2>6. captured' \in 0 .. MaxRecord
    BY <1>1, <2>1, <2>2, AudioPathAssumption
  <2> QED
    BY <1>3, <2>5, <2>6
<1>6. ASSUME NEW pressed \in BOOLEAN, Process(pressed) PROVE RingInv'
  <2>1. captured' = captured /\ (Drain(rb) \/ UNCHANGED <<rb, outgoing>>)
    BY <1>6 DEF Process
  <2>2. CASE Drain(rb)
    BY <1>1, <1>3, <2>1, <2>2, DrainKeeps
  <2> QED
    BY <1>2, <2>1, <2>2
<1>7. CASE Receive
  <2>1. rb' = rb /\ captured' = captured
    BY <1>7 DEF Receive, taskFrame
  <2>2. CASE outgoing' = outgoing
    BY <1>2, <2>1, <2>2
  <2>3. CASE outgoing' = SubSeq(outgoing, Least(Len(outgoing), ReadSize) + 1, Len(outgoing))
    <3>1. /\ Least(Len(outgoing), ReadSize) \in Nat
          /\ Least(Len(outgoing), ReadSize) <= Len(outgoing)
      BY <1>1, AudioPathAssumption DEF Least
    <3>2. outgoing' \in Seq(Byte) /\ Len(outgoing') <= Len(outgoing)
      BY <1>1, <2>3, <3>1
    <3> QED
      BY <1>1, <1>3, <2>1, <3>2, AudioPathAssumption
  <2> QED
    BY <1>7, <2>2, <2>3 DEF Receive
<1>8. ASSUME \/ PressRefused \/ RecordingStops \/ Play \/ Acknowledge \/ SleepAborted \/ Elapse
             \/ Poll \/ ReadBreaks \/ FeedReply \/ Exit \/ Check \/ WriteBreaks
      PROVE  UNCHANGED <<rb, captured, outgoing>>
  <2>1. CASE PressRefused \/ RecordingStops \/ Play \/ Acknowledge \/ SleepAborted \/ Elapse
    BY <2>1 DEF PressRefused, RecordingStops, Play, Acknowledge, SleepAborted, Elapse, recorder
  <2>2. CASE Poll \/ ReadBreaks \/ FeedReply \/ Exit \/ Check \/ WriteBreaks
    BY <2>2 DEF Poll, ReadBreaks, FeedReply, Exit, Check, WriteBreaks, recorder, taskFrame
  <2> QED
    BY <1>8, <2>1, <2>2
<1>9. ASSUME NEW how, NEW n, NEW accepted,
             Open(how) \/ Write(n) \/ Answered(accepted) \/ ReadReply(n)
      PROVE  UNCHANGED <<rb, captured, outgoing>>
  BY <1>9 DEF Open, Write, Answered, ReadReply, taskFrame
<1>10. CASE UNCHANGED vars
  BY <1>2, <1>10 DEF vars, recorder
<1>11. CASE MainLoop
  BY <1>2, <1>4, <1>5, <1>6, <1>8, <1>11 DEF MainLoop
<1>12. CASE VoiceTurn
  BY <1>2, <1>7, <1>8, <1>9, <1>12 DEF VoiceTurn
<1> QED
  BY <1>2, <1>8, <1>10, <1>11, <1>12 DEF Next

\* However many bytes are captured and drained, and wherever the ends of app.rb
\* have wrapped, ring_buffer_push and ring_buffer_pop leave a ring whose write
\* position is count bytes ahead of its read position.
THEOREM RingStaysWellFormed == Spec => []RingWellFormed
<1>1. RingInv => RingWellFormed
  BY DEF RingInv
<1> QED
  BY <1>1, InitRingInv, NextRingInv, PTL DEF Spec
-----------------------------------------------------------------------------
\* What the state of the application says of the codec: the speaker is open, and
\* its buffer in use, exactly during a playback, which only PLAYING knows.
Fits(c, s) ==
  /\ DOMAIN c = {"ready", "mic", "spk", "capture", "playback", "due", "dma"}
  /\ {c.ready, c.mic, c.spk, c.capture, c.playback} \subseteq BOOLEAN
  /\ c.capture => s = "RECORDING" /\ c.ready
  /\ c.playback => s = "PLAYING" /\ ~c.mic
  /\ c.spk <=> c.playback
  /\ ~c.playback => c.dma = <<>>

\* The odd byte of a reply does not outlive it.
CodecInv == Fits(codec, state) /\ (state # "PLAYING" => pending = <<>>)

LEMMA SilentFits ==
  ASSUME NEW c, NEW s, NEW t, Fits(c, s), s \notin {"RECORDING", "PLAYING"}
  PROVE  Fits(c, t)
  BY DEF Fits

LEMMA DeinitedFits ==
  ASSUME NEW c, NEW s, Fits(c, s), s \notin {"RECORDING", "PLAYING"}
  PROVE  Fits(Deinited(c), s)
  BY DEF Fits, Deinited

LEMMA EnsuredFits ==
  ASSUME NEW c, NEW s, NEW ok \in BOOLEAN, Fits(c, s), s \notin {"RECORDING", "PLAYING"}
  PROVE  Fits(Ensured(c, ok), s)
<1>1. Fits(Deinited(c), s)
  BY DeinitedFits
<1>2. CASE ok
  <2>1. Fits([Deinited(c) EXCEPT !.ready = TRUE, !.mic = TRUE], s)
    BY <1>1 DEF Fits
  <2> QED
    BY <1>2, <2>1 DEF Ensured, CaptureInit
<1>3. CASE ~ok
  BY <1>1, <1>3 DEF Ensured, CaptureInit
<1> QED
  BY <1>2, <1>3

LEMMA CaptureFits ==
  ASSUME NEW c, NEW ok \in BOOLEAN, Fits(c, "IDLE")
  PROVE  Fits(CaptureStarted(Ensured(c, ok)), "RECORDING")
<1> DEFINE d == Ensured(c, ok)
<1>1. Fits(d, "IDLE")
  BY EnsuredFits
<1> HIDE DEF d
<1> SUFFICES Fits(CaptureStarted(d), "RECORDING")
  BY DEF d
<1> QED
  BY <1>1 DEF Fits, CaptureStarted

LEMMA StopCaptureFits ==
  ASSUME NEW c, NEW t, Fits(c, "RECORDING")
  PROVE  Fits(CaptureStopped(c), t)
  BY DEF Fits, CaptureStopped

LEMMA PlaybackFits ==
  ASSUME NEW c, NEW init \in BOOLEAN, NEW ok \in BOOLEAN, NEW reopened \in BOOLEAN,
         Fits(c, "PROCESSING")
  PROVE  Fits(PlaybackStarted(Ensured(c, init), ok, reopened), "PLAYING")
<1> DEFINE d == Ensured(c, init)
<1>1. Fits(d, "PROCESSING")
  BY EnsuredFits
<1> SUFFICES Fits(PlaybackStarted(d, ok, reopened), "PLAYING")
  OBVIOUS
<1> HIDE DEF d
<1>2. CASE ~d.ready
  BY <1>1, <1>2, SilentFits DEF PlaybackStarted
<1>3. CASE d.ready
  <2>1. ~d.playback
    BY <1>1 DEF Fits
  <2> DEFINE e == PlaybackStarted(d, ok, reopened)
  <2>2. e = [d EXCEPT !.capture = FALSE, !.mic = ~ok /\ reopened, !.spk = ok,
                      !.playback = ok, !.due = IF ok THEN 0 ELSE @]
    BY <1>3, <2>1 DEF PlaybackStarted
  <2>3. DOMAIN e = DOMAIN d
    BY <2>2
  <2>4. /\ e.ready = d.ready /\ e.capture = FALSE /\ e.mic = (~ok /\ reopened)
        /\ e.spk = ok /\ e.playback = ok /\ e.dma = d.dma
    BY <1>1, <2>2 DEF Fits
  <2>5. d.dma = <<>>
    BY <1>1, <2>1 DEF Fits
  <2> HIDE DEF e
  <2>6. Fits(e, "PLAYING")
    BY <1>1, <2>3, <2>4, <2>5 DEF Fits
  <2> QED
    BY <2>6 DEF e
<1> QED
  BY <1>2, <1>3

LEMMA WrittenFits ==
  ASSUME NEW c, NEW bytes, Fits(c, "PLAYING"), c.playback
  PROVE  Fits(Written(c, bytes), "PLAYING")
  BY DEF Fits, Written

LEMMA StopPlaybackFits ==
  ASSUME NEW c, NEW t, NEW reopened \in BOOLEAN, Fits(c, "PLAYING")
  PROVE  Fits(PlaybackStopped(c, reopened), t)
  BY DEF Fits, PlaybackStopped

LEMMA InitCodec == Init => CodecInv
  BY DEF Init, CodecInv, Fits

LEMMA NextCodec == CodecInv /\ [Next]_vars => CodecInv'
<1> SUFFICES ASSUME CodecInv, [Next]_vars PROVE CodecInv'
  OBVIOUS
<1>1. Fits(codec, state) /\ (state # "PLAYING" => pending = <<>>)
  BY DEF CodecInv
<1>2. ASSUME UNCHANGED <<codec, state, pending>> PROVE CodecInv'
  BY <1>1, <1>2 DEF CodecInv, Fits
<1>3. ASSUME Fits(codec', state'), state' # "PLAYING" => pending' = <<>> PROVE CodecInv'
  BY <1>3 DEF CodecInv, Fits
<1>4. CASE Press
  <2>1. PICK ok \in BOOLEAN : codec' = CaptureStarted(Ensured(codec, ok))
    BY <1>4 DEF Press
  <2>2. state = "IDLE" /\ state' = "RECORDING" /\ pending' = <<>>
    BY <1>4 DEF Press
  <2> QED
    BY <1>1, <1>3, <2>1, <2>2, CaptureFits
<1>5. CASE PressRefused \/ Acknowledge
  <2>1. /\ state \in {"IDLE", "ERROR"} /\ state' \in {"IDLE", "ERROR"}
        /\ codec' = codec /\ pending' = pending
    BY <1>5 DEF PressRefused, Acknowledge, player
  <2> QED
    BY <1>1, <1>3, <2>1, SilentFits
<1>6. CASE RecordingStops
  <2>1. state = "RECORDING" /\ state' = "ERROR" /\ codec' = CaptureStopped(codec) /\ pending' = pending
    BY <1>6 DEF RecordingStops, player
  <2> QED
    BY <1>1, <1>3, <2>1, StopCaptureFits
<1>7. ASSUME NEW n, NEW released, Record(n, released) PROVE CodecInv'
  <2>1. state = "RECORDING" /\ pending' = pending
    BY <1>7 DEF Record, player
  <2>2. CASE released
    <3>1. codec' = CaptureStopped(codec) /\ state' # "PLAYING"
      BY <1>7, <2>2 DEF Record
    <3> QED
      BY <1>1, <1>3, <2>1, <3>1, StopCaptureFits
  <2>3. CASE ~released
    BY <1>2, <1>7, <2>1, <2>3 DEF Record
  <2> QED
    BY <2>2, <2>3
<1>8. ASSUME NEW pressed, Process(pressed) PROVE CodecInv'
  <2>1. state = "PROCESSING" /\ pending' = pending
    BY <1>8 DEF Process, player
  <2>2. \/ state' = "ERROR" /\ codec' = codec
        \/ /\ state' = "PLAYING"
           /\ \E init, ok, reopened \in BOOLEAN :
                codec' = PlaybackStarted(Ensured(codec, init), ok, reopened)
        \/ UNCHANGED <<state, codec>>
    BY <1>8 DEF Process
  <2>3. CASE state' = "ERROR" /\ codec' = codec
    BY <1>1, <1>3, <2>1, <2>3, SilentFits
  <2>4. CASE /\ state' = "PLAYING"
             /\ \E init, ok, reopened \in BOOLEAN :
                  codec' = PlaybackStarted(Ensured(codec, init), ok, reopened)
    BY <1>1, <1>3, <2>1, <2>4, PlaybackFits
  <2>5. CASE UNCHANGED <<state, codec>>
    BY <1>2, <2>1, <2>5
  <2> QED
    BY <2>2, <2>3, <2>4, <2>5
<1>9. CASE Play
  <2> DEFINE n == Least(Len(incoming), ReadSize - Len(pending))
             bytes == pending \o SubSeq(incoming, 1, n)
             frames == SubSeq(bytes, 1, 2 * (Len(bytes) \div 2))
             after == IF frames = <<>> THEN codec ELSE Written(codec, frames)
  <2>1. state = "PLAYING"
    BY <1>9 DEF Play
  <2>2. \/ state' \in {"IDLE", "ERROR"} /\ Release(codec)
        \/ /\ frames # <<>> => Writable(codec, frames)
           /\ \/ state' = "IDLE" /\ Release(after)
              \/ state' = state /\ codec' = after
    BY <1>9 DEF Play
  <2> HIDE DEF frames
  <2>3. ASSUME NEW c, Fits(c, "PLAYING"), Release(c), state' \in {"IDLE", "ERROR"} PROVE CodecInv'
    BY <1>3, <2>3, StopPlaybackFits DEF Release
  <2>4. ASSUME frames # <<>> => Writable(codec, frames) PROVE Fits(after, "PLAYING")
    BY <1>1, <2>1, <2>4, WrittenFits DEF Writable
  <2> HIDE DEF after
  <2> QED
    BY <1>1, <1>3, <2>1, <2>2, <2>3, <2>4
<1>10. CASE SleepAborted
  <2>1. /\ state \in {"IDLE", "ERROR"} /\ state' = state /\ pending' = pending
        /\ codec' = Deinited(codec)
    BY <1>10 DEF SleepAborted, player
  <2>2. Fits(codec', state')
    BY <1>1, <2>1, DeinitedFits
  <2> QED
    BY <1>1, <1>3, <2>1, <2>2
<1>11. CASE Elapse
  <2>1. /\ state' = state /\ pending' = pending /\ codec.playback
        /\ codec' = [codec EXCEPT !.due = @ - 1,
                                  !.dma = IF @ = <<>> THEN @ ELSE SubSeq(@, 3, Len(@))]
    BY <1>11 DEF Elapse
  <2>2. Fits(codec', state')
    BY <1>1, <2>1 DEF Fits
  <2> QED
    BY <1>1, <1>3, <2>1, <2>2
<1>12. CASE VoiceTurn
  <2>1. ASSUME NEW how, NEW n, NEW accepted,
               \/ Open(how) \/ Receive \/ Check \/ WriteBreaks \/ Write(n)
               \/ Answered(accepted) \/ Poll \/ ReadBreaks \/ FeedReply \/ Exit \/ ReadReply(n)
        PROVE  UNCHANGED <<codec, state, pending>>
    BY <2>1 DEF Open, Receive, Check, WriteBreaks, Write, Answered, Poll, ReadBreaks,
                FeedReply, Exit, ReadReply, taskFrame, player
  <2> QED
    BY <1>2, <1>12, <2>1 DEF VoiceTurn
<1>13. CASE MainLoop
  BY <1>4, <1>5, <1>6, <1>7, <1>8, <1>9, <1>10, <1>13 DEF MainLoop
<1>14. CASE UNCHANGED vars
  BY <1>2, <1>14 DEF vars, player
<1> QED
  BY <1>11, <1>12, <1>13, <1>14 DEF Next

\* Capture runs only while recording and with the speaker off, playback only while
\* playing and with the microphone off, whichever of the two could not be opened
\* or put back (audio_sticks3.c:160), and no sound is left over from a reply.
THEOREM CodecTakesTurns == Spec => []CodecFollowsState
<1>1. CodecInv => CodecFollowsState
  BY DEF CodecInv, Fits, CodecFollowsState
<1> QED
  BY <1>1, InitCodec, NextCodec, PTL DEF Spec

-----------------------------------------------------------------------------
\* The task is there while its flag says so.
WorkInv ==
  /\ flags = [f \in DOMAIN NoFlags |-> flags[f]]
  /\ {flags.cancel, flags.started, flags.finished, flags.failed, flags.released, flags.active}
       \subseteq BOOLEAN
  /\ flags.active <=> pc # "none"

Sending == Uploading \ {"opening"}

\* A session is open exactly while the task sends, and nobody else holds the
\* transport.
SessionInv ==
  /\ transport \in [begun : BOOLEAN, finished : BOOLEAN]
  /\ Busy => pc \in Sending
  /\ pc \in Sending => session.state = "OPEN"

\* What was recorded, in order: the body the gateway has decoded, the part of a
\* chunk that is still to be written, the stream, the ring.
Body == IF pc = "opening" THEN <<>> ELSE peer.body
Run(s, from) == \A i \in 1 .. Len(s) : s[i] = from + i
Bytes(from, k) == [i \in 1 .. k |-> Pcm(from + i)]

\* out and the decoder are inside one chunk, of which k bytes are to come.
InChunk(k) ==
  \/ /\ out = <<<<Size(k), CRLF>>, Bytes(Len(peer.body), k), <<CRLF>>>>
     /\ k > 0 /\ peer.at = "size"
  \/ /\ out = <<<<CRLF>>, Bytes(Len(peer.body), k), <<CRLF>>>>
     /\ k > 0 /\ peer.at = "sizeEnd" /\ peer.left = k
  \/ /\ out = <<Bytes(Len(peer.body), k), <<CRLF>>>>
     /\ k > 0 /\ peer.at = "data" /\ peer.left = k
  \/ out = <<<<CRLF>>>> /\ k = 0 /\ peer.at = "dataEnd"

InTerminal ==
  \/ out = <<<<Size(0), CRLF, CRLF>>>> /\ peer.at = "size"
  \/ out = <<<<CRLF, CRLF>>>> /\ peer.at = "sizeEnd" /\ peer.left = 0
  \/ out = <<<<CRLF>>>> /\ peer.at = "end"
  \/ out = <<>> /\ peer.at = "whole"

IsPeer(p) == p = [at |-> p.at, left |-> p.left, body |-> p.body]

WireInv ==
  /\ IsPeer(peer)
  /\ peer.body \in Seq(Nat) /\ Run(peer.body, 0)
  /\ pc \in {"receiving", "checking"} => out = <<>> /\ peer.at = "size"
  /\ pc = "closing" => InTerminal

InOrder(k) ==
  /\ pc = "writing" => InChunk(k)
  /\ Run(outgoing, Len(Body) + k)
  /\ Run(Contents(rb), Len(Body) + k + Len(outgoing))
  /\ ~rb.overflow => Len(Body) + k + Len(outgoing) + rb.count = captured

StreamInv == pc \in Uploading => \E k \in 0 .. ReadSize : (pc # "writing" => k = 0) /\ InOrder(k)

\* A recording that is finished and was not given up has left the ring; what is
\* closed is finished.
DoneInv ==
  /\ rb.overflow => rb.count > 0
  /\ flags.finished /\ ~flags.failed => flags.released
  /\ flags.released => state # "RECORDING"
  /\ flags.finished /\ ~flags.failed => rb.count = 0
  /\ pc = "closing" => flags.finished /\ ~flags.failed /\ outgoing = <<>>
  /\ flags.active /\ pc # "opening" /\ peer.at = "whole" =>
       /\ flags.finished /\ flags.released
       /\ rb.count = 0 /\ ~rb.overflow
       /\ Len(peer.body) = captured

UploadInv == WorkInv /\ SessionInv /\ WireInv /\ StreamInv /\ DoneInv

LEMMA DecodesSize == ASSUME NEW p, NEW v, p.at = "size"
                     PROVE  Decoded(p, Size(v)) = [p EXCEPT !.at = "sizeEnd", !.left = v]
  BY Zenon DEF Decoded, Size

LEMMA DecodesSizeEnd == ASSUME NEW p, p.at = "sizeEnd"
                        PROVE  Decoded(p, CRLF) = [p EXCEPT !.at = IF p.left = 0 THEN "end" ELSE "data"]
  BY Zenon DEF Decoded

LEMMA DecodesByte ==
  ASSUME NEW p, NEW b, p.at = "data"
  PROVE  Decoded(p, Pcm(b)) = [at |-> IF p.left = 1 THEN "dataEnd" ELSE "data", left |-> p.left - 1,
                               body |-> Append(p.body, b)]
  BY Zenon DEF Decoded, Pcm

LEMMA DecodesDataEnd == ASSUME NEW p, p.at = "dataEnd"
                        PROVE  Decoded(p, CRLF) = [p EXCEPT !.at = "size"]
  BY Zenon DEF Decoded

LEMMA DecodesEnd == ASSUME NEW p, p.at = "end"
                    PROVE  Decoded(p, CRLF) = [p EXCEPT !.at = "whole"]
  BY Zenon DEF Decoded

\* The decoder takes the tokens of one write one after the other.
LEMMA Unrolled ==
  ASSUME NEW n \in 1 .. 3, WriteSocket(n)
  PROVE  LET d1 == Decoded(peer, out[1][1])
             d2 == Decoded(d1, out[1][2])
         IN  peer' = IF n = 1 THEN d1 ELSE IF n = 2 THEN d2 ELSE Decoded(d2, out[1][3])
<1> DEFINE d1 == Decoded(peer, out[1][1])
           d2 == Decoded(d1, out[1][2])
           d3 == Decoded(d2, out[1][3])
           F(f) == f = [i \in 0 .. n |-> IF i = 0 THEN peer ELSE Decoded(f[i - 1], out[1][i])]
           after == CHOOSE f : F(f)
           g == [i \in 0 .. n |-> IF i = 0 THEN peer ELSE IF i = 1 THEN d1 ELSE IF i = 2 THEN d2 ELSE d3]
<1>1. peer' = after[n]
  BY DEF WriteSocket
<1>2. F(g)
  <2>1. ASSUME NEW i \in 0 .. n
        PROVE  g[i] = IF i = 0 THEN peer ELSE Decoded(g[i - 1], out[1][i])
    <3>1. i = 0 \/ i = 1 \/ i = 2 \/ i = 3
      OBVIOUS
    <3> QED
      BY <3>1
  <2> HIDE DEF d1, d2, d3
  <2> QED
    BY <2>1
<1>3. F(after)
  BY <1>2, Zenon
<1> HIDE DEF after
<1>4. after[0] = peer
  BY <1>3
<1>5. after[1] = d1
  BY <1>3, <1>4
<1>6. n >= 2 => after[2] = d2
  BY <1>3, <1>5
<1>7. n = 3 => after[3] = d3
  BY <1>3, <1>6
<1> QED
  BY <1>1, <1>5, <1>6, <1>7

LEMMA Dropped ==
  ASSUME NEW S, NEW s \in Seq(S), NEW n \in Nat, n < Len(s)
  PROVE  SubSeq(s, n + 1, Len(s)) = [i \in 1 .. Len(s) - n |-> s[n + i]]
  OBVIOUS

\* What a write leaves of the tokens that are not PCM.
LEMMA RestOfTwo ==
  ASSUME NEW a, NEW b
  PROVE  /\ SubSeq(<<a>>, 2, 1) = <<>> /\ SubSeq(<<a, b>>, 3, 2) = <<>>
         /\ SubSeq(<<a, b>>, 2, 2) = <<b>>
<1> DEFINE s == <<a, b>>
<1>1. s \in Seq({a, b}) /\ Len(s) = 2 /\ s[2] = b
  OBVIOUS
<1> HIDE DEF s
<1>2. SubSeq(s, 2, 2) = [i \in 1 .. 1 |-> s[1 + i]]
  BY <1>1, Dropped
<1>3. [i \in 1 .. 1 |-> s[1 + i]] = <<b>>
  BY <1>1
<1>4. SubSeq(<<a>>, 2, 1) = <<>> /\ SubSeq(<<a, b>>, 3, 2) = <<>>
  OBVIOUS
<1> QED
  BY <1>2, <1>3, <1>4 DEF s

LEMMA RestOfThree ==
  ASSUME NEW a, NEW b, NEW c
  PROVE  /\ SubSeq(<<a, b, c>>, 2, 3) = <<b, c>>
         /\ SubSeq(<<a, b, c>>, 3, 3) = <<c>>
         /\ SubSeq(<<a, b, c>>, 4, 3) = <<>>
<1> DEFINE t == <<a, b, c>>
<1>1. t \in Seq({a, b, c}) /\ Len(t) = 3 /\ t[2] = b /\ t[3] = c
  OBVIOUS
<1> HIDE DEF t
<1>2. SubSeq(t, 2, 3) = [i \in 1 .. 2 |-> t[1 + i]] /\ SubSeq(t, 3, 3) = [i \in 1 .. 1 |-> t[2 + i]]
  BY <1>1, Dropped
<1>3. [i \in 1 .. 2 |-> t[1 + i]] = <<b, c>> /\ [i \in 1 .. 1 |-> t[2 + i]] = <<c>>
  BY <1>1
<1>4. SubSeq(<<a, b, c>>, 4, 3) = <<>>
  OBVIOUS
<1> QED
  BY <1>2, <1>3, <1>4 DEF t

LEMMA BytesAre ==
  ASSUME NEW from \in Nat, NEW k \in Nat
  PROVE  Len(Bytes(from, k)) = k /\ \A i \in 1 .. k : Bytes(from, k)[i] = Pcm(from + i)
  BY DEF Bytes

LEMMA RestOfBytes ==
  ASSUME NEW from \in Nat, NEW k \in Nat, NEW n \in 1 .. k
  PROVE  /\ n < k => SubSeq(Bytes(from, k), n + 1, k) = Bytes(from + n, k - n)
         /\ SubSeq(Bytes(from, k), k + 1, k) = <<>>
<1> DEFINE s == Bytes(from, k)
           Tokens == {Pcm(i) : i \in Nat}
<1>1. s \in Seq(Tokens) /\ Len(s) = k /\ \A i \in 1 .. k : s[i] = Pcm(from + i)
  BY DEF Bytes
<1> HIDE DEF s
<1>2. ASSUME n < k PROVE SubSeq(s, n + 1, k) = Bytes(from + n, k - n)
  <2>1. SubSeq(s, n + 1, k) = [i \in 1 .. k - n |-> s[n + i]]
    BY <1>1, <1>2, Dropped
  <2>2. \A i \in 1 .. k - n : s[n + i] = Pcm((from + n) + i)
    <3> TAKE i \in 1 .. k - n
    <3>1. n + i \in 1 .. k /\ from + (n + i) = (from + n) + i
      BY <1>2
    <3> QED
      BY <1>1, <3>1
  <2> QED
    BY <2>1, <2>2 DEF Bytes
<1>3. SubSeq(s, k + 1, k) = <<>>
  BY <1>1
<1> QED
  BY <1>1, <1>2, <1>3 DEF s

\* The size of a chunk goes over in one write or two.
LEMMA SizeWritten ==
  ASSUME NEW k \in Nat \ {0}, NEW n \in 1 .. 3, WriteSocket(n), IsPeer(peer),
         \/ out = <<<<Size(k), CRLF>>, Bytes(Len(peer.body), k), <<CRLF>>>> /\ peer.at = "size"
         \/ out = <<<<CRLF>>, Bytes(Len(peer.body), k), <<CRLF>>>> /\ peer.at = "sizeEnd" /\ peer.left = k
  PROVE  InChunk(k)' /\ out' # <<>> /\ IsPeer(peer') /\ peer'.body = peer.body
<1> DEFINE P == Bytes(Len(peer.body), k)
           sizeEnd == [at |-> "sizeEnd", left |-> k, body |-> peer.body]
           data == [at |-> "data", left |-> k, body |-> peer.body]
<1>1. Decoded(sizeEnd, CRLF) = data
  BY DecodesSizeEnd
<1>2. n \in 1 .. Len(out[1]) /\ out' = IF Rest(n) = <<>> THEN Tail(out) ELSE [out EXCEPT ![1] = Rest(n)]
  BY DEF WriteSocket
<1>3. CASE out = <<<<Size(k), CRLF>>, P, <<CRLF>>>> /\ peer.at = "size"
  <2>1. out[1] = <<Size(k), CRLF>> /\ Len(out[1]) = 2 /\ Tail(out) = <<P, <<CRLF>>>>
    BY <1>3
  <2>2. Decoded(peer, out[1][1]) = sizeEnd
    <3>1. [peer EXCEPT !.at = "sizeEnd", !.left = k] = sizeEnd
      <4> DEFINE q == [peer EXCEPT !.at = "sizeEnd"]
      <4>1. q = [at |-> "sizeEnd", left |-> peer.left, body |-> peer.body]
        BY DEF IsPeer
      <4>2. [peer EXCEPT !.at = "sizeEnd", !.left = k] = [q EXCEPT !.left = k]
        BY DEF IsPeer
      <4> HIDE DEF q
      <4> QED
        BY <4>1, <4>2
    <3> QED
      BY <1>3, <2>1, <3>1, DecodesSize
  <2>3. CASE n = 1
    <3>1. peer' = sizeEnd
      BY <2>2, <2>3, Unrolled
    <3>2. Rest(n) = <<CRLF>>
      <4>1. SubSeq(<<Size(k), CRLF>>, 2, 2) = <<CRLF>>
        BY RestOfTwo
      <4>2. n + 1 = 2
        BY <2>3
      <4> QED
        BY <2>1, <4>1, <4>2 DEF Rest
    <3>3. out' = <<<<CRLF>>, P, <<CRLF>>>>
      BY <1>2, <1>3, <3>2
    <3> QED
      BY <3>1, <3>3 DEF InChunk, IsPeer
  <2>4. CASE n = 2
    <3>1. peer' = data
      BY <1>1, <2>1, <2>2, <2>4, Unrolled
    <3>2. Rest(n) = <<>>
      BY <2>1, <2>4, RestOfTwo DEF Rest
    <3>3. out' = <<P, <<CRLF>>>>
      BY <1>2, <2>1, <3>2
    <3> QED
      BY <3>1, <3>3 DEF InChunk, IsPeer
  <2> QED
    BY <1>2, <2>1, <2>3, <2>4
<1>4. CASE out = <<<<CRLF>>, P, <<CRLF>>>> /\ peer.at = "sizeEnd" /\ peer.left = k
  <2>1. out[1] = <<CRLF>> /\ n = 1 /\ Len(out[1]) = 1 /\ Tail(out) = <<P, <<CRLF>>>>
    BY <1>2, <1>4
  <2>2. peer' = data
    BY <1>1, <1>4, <2>1, Unrolled DEF IsPeer
  <2>3. Rest(n) = <<>>
    BY <2>1, RestOfTwo DEF Rest
  <2>4. out' = <<P, <<CRLF>>>>
    BY <1>2, <2>1, <2>3
  <2> QED
    BY <2>2, <2>4 DEF InChunk, IsPeer
<1> QED
  BY <1>3, <1>4

\* A write of n bytes of PCM leaves the decoder n bytes further.
LEMMA BytesWritten ==
  ASSUME NEW k \in Nat \ {0}, NEW n \in 1 .. 3, WriteSocket(n), IsPeer(peer),
         peer.body \in Seq(Nat), Run(peer.body, 0),
         out = <<Bytes(Len(peer.body), k), <<CRLF>>>>, peer.at = "data", peer.left = k
  PROVE  /\ n <= k /\ InChunk(k - n)' /\ out' # <<>> /\ IsPeer(peer')
         /\ peer'.body \in Seq(Nat) /\ Run(peer'.body, 0)
         /\ Len(peer'.body) = Len(peer.body) + n
<1> DEFINE b == Len(peer.body)
           P == Bytes(b, k)
           at(i) == IF i = k THEN "dataEnd" ELSE "data"
<1>1. b \in Nat /\ Len(P) = k /\ \A i \in 1 .. k : P[i] = Pcm(b + i)
  <2>1. b \in Nat
    OBVIOUS
  <2> QED
    BY <2>1, BytesAre
<1>2. n \in 1 .. k /\ out' = IF Rest(n) = <<>> THEN Tail(out) ELSE [out EXCEPT ![1] = Rest(n)]
  BY <1>1 DEF WriteSocket
<1>3. out[1] = P /\ Tail(out) = <<<<CRLF>>>>
  OBVIOUS
<1>4. ASSUME NEW p, NEW i \in 1 .. k, IsPeer(p), p.at = "data", p.left = k - (i - 1),
             p.body \in Seq(Nat), Run(p.body, 0), Len(p.body) = b + (i - 1)
      PROVE  LET q == Decoded(p, P[i]) IN
             /\ IsPeer(q) /\ q.at = at(i) /\ q.left = k - i
             /\ q.body \in Seq(Nat) /\ Run(q.body, 0) /\ Len(q.body) = b + i
  <2> DEFINE q == Decoded(p, P[i])
  <2>1. q = [at |-> IF p.left = 1 THEN "dataEnd" ELSE "data", left |-> p.left - 1,
             body |-> Append(p.body, b + i)]
    BY <1>1, <1>4, DecodesByte
  <2>2. IsPeer(q) /\ q.at = at(i) /\ q.left = k - i /\ q.body = Append(p.body, b + i)
    <3>1. p.left = 1 <=> i = k
      BY <1>4
    <3>2. p.left - 1 = k - i
      BY <1>4
    <3>3. /\ q.at = (IF p.left = 1 THEN "dataEnd" ELSE "data") /\ q.left = p.left - 1
          /\ q.body = Append(p.body, b + i) /\ IsPeer(q)
      BY <2>1 DEF IsPeer
    <3> QED
      BY <3>1, <3>2, <3>3
  <2>3. q.body \in Seq(Nat) /\ Len(q.body) = b + i
    BY <1>1, <1>4, <2>2
  <2>4. Run(q.body, 0)
    <3> SUFFICES ASSUME NEW j \in 1 .. Len(q.body) PROVE q.body[j] = 0 + j
      BY DEF Run
    <3>1. j \in 1 .. Len(p.body) \/ j = Len(p.body) + 1
      <4>1. Len(p.body) \in Nat /\ Len(q.body) = Len(p.body) + 1
        BY <1>1, <1>4, <2>3
      <4> QED
        BY <4>1
    <3>2. j \in 1 .. Len(p.body) => q.body[j] = p.body[j] /\ p.body[j] = 0 + j
      BY <1>4, <2>2 DEF Run
    <3>3. j = Len(p.body) + 1 => q.body[j] = b + i
      BY <1>4, <2>2
    <3>4. Len(p.body) + 1 = b + i /\ 0 + j = j
      BY <1>1, <1>4
    <3> QED
      BY <3>1, <3>2, <3>3, <3>4
  <2> QED
    BY <2>2, <2>3, <2>4
<1> DEFINE d1 == Decoded(peer, P[1])
           d2 == Decoded(d1, P[2])
           d3 == Decoded(d2, P[3])
           Far(q, i) == /\ IsPeer(q) /\ q.at = at(i) /\ q.left = k - i
                        /\ q.body \in Seq(Nat) /\ Run(q.body, 0) /\ Len(q.body) = b + i
<1> HIDE DEF b, P
<1>5. Far(d1, 1)
  BY <1>1, <1>4 DEF b
<1> HIDE DEF d1
<1>6. k >= 2 => Far(d2, 2)
  BY <1>1, <1>4, <1>5
<1> HIDE DEF d2
<1>7. k >= 3 => Far(d3, 3)
  <2> SUFFICES ASSUME k >= 3 PROVE Far(d3, 3)
    OBVIOUS
  <2>1. 3 \in 1 .. k /\ k - (3 - 1) = k - 2 /\ b + (3 - 1) = b + 2
    BY <1>1
  <2>2. d2.at = "data"
    BY <1>6
  <2> QED
    BY <1>4, <1>6, <2>1, <2>2
<1> HIDE DEF d3
<1>8. Far(peer', n)
  <2>1. peer' = IF n = 1 THEN d1 ELSE IF n = 2 THEN d2 ELSE d3
    BY <1>3, Unrolled DEF d1, d2, d3
  <2> QED
    BY <1>2, <1>5, <1>6, <1>7, <2>1
<1>9. InChunk(k - n)' /\ out' # <<>>
  <2>1. CASE n = k
    <3>1. Rest(n) = <<>>
      BY <1>1, <1>3, <2>1, RestOfBytes DEF Rest, P
    <3>2. out' = <<<<CRLF>>>> /\ peer'.at = "dataEnd"
      BY <1>2, <1>3, <1>8, <2>1, <3>1
    <3> QED
      BY <2>1, <3>2 DEF InChunk
  <2>2. CASE n < k
    <3>1. Rest(n) = Bytes(b + n, k - n)
      <4>1. Rest(n) = SubSeq(Bytes(b, k), n + 1, k)
        BY <1>1, <1>3 DEF Rest, P
      <4> QED
        BY <1>1, <1>2, <2>2, <4>1, RestOfBytes
    <3>2. Len(Bytes(b + n, k - n)) = k - n
      <4>1. b + n \in Nat /\ k - n \in Nat
        BY <1>1, <1>2
      <4> QED
        BY <4>1, BytesAre
    <3>3. out' = <<Bytes(b + n, k - n), <<CRLF>>>>
      BY <1>2, <1>3, <2>2, <3>1, <3>2 DEF b, P
    <3> QED
      <4>1. peer'.at = "data" /\ peer'.left = k - n /\ Len(peer'.body) = b + n /\ k - n > 0
        BY <1>2, <1>8, <2>2
      <4> QED
        BY <3>3, <4>1 DEF InChunk
  <2> QED
    BY <1>2, <2>1, <2>2
<1> QED
  BY <1>2, <1>8, <1>9 DEF b

LEMMA ChunkEndWritten ==
  ASSUME NEW n \in 1 .. 3, WriteSocket(n), IsPeer(peer), out = <<<<CRLF>>>>, peer.at = "dataEnd"
  PROVE  out' = <<>> /\ peer'.at = "size" /\ IsPeer(peer') /\ peer'.body = peer.body
<1>1. n = 1 /\ out[1] = <<CRLF>> /\ Rest(n) = <<>>
  BY RestOfTwo DEF WriteSocket, Rest
<1>2. out' = <<>>
  BY <1>1 DEF WriteSocket
<1>3. peer' = [peer EXCEPT !.at = "size"]
  BY <1>1, Unrolled, DecodesDataEnd
<1> QED
  BY <1>2, <1>3 DEF IsPeer

\* The terminal chunk goes over in up to three writes, and completes the body.
LEMMA TerminalWritten ==
  ASSUME NEW n \in 1 .. 3, WriteSocket(n), IsPeer(peer), InTerminal
  PROVE  InTerminal' /\ IsPeer(peer') /\ peer'.body = peer.body
<1> DEFINE sizeEnd == [at |-> "sizeEnd", left |-> 0, body |-> peer.body]
           end == [at |-> "end", left |-> peer.left, body |-> peer.body]
           whole == [at |-> "whole", left |-> peer.left, body |-> peer.body]
           t1 == out[1][1]
           t2 == out[1][2]
           t3 == out[1][3]
<1>1. /\ n \in 1 .. Len(out[1]) /\ out # <<>>
      /\ out' = IF Rest(n) = <<>> THEN Tail(out) ELSE [out EXCEPT ![1] = Rest(n)]
  BY DEF WriteSocket
<1>2. peer' = LET d1 == Decoded(peer, t1)
                  d2 == Decoded(d1, t2)
              IN  IF n = 1 THEN d1 ELSE IF n = 2 THEN d2 ELSE Decoded(d2, t3)
  BY Unrolled
<1>3. ASSUME NEW l
      PROVE  LET p == [at |-> "end", left |-> l, body |-> peer.body] IN
             Decoded(p, CRLF) = [at |-> "whole", left |-> l, body |-> peer.body]
  BY DecodesEnd
<1>4. Decoded(sizeEnd, CRLF) = [at |-> "end", left |-> 0, body |-> peer.body]
  BY DecodesSizeEnd
<1>5. CASE out = <<<<Size(0), CRLF, CRLF>>>> /\ peer.at = "size"
  <2>1. out[1] = <<Size(0), CRLF, CRLF>> /\ t1 = Size(0) /\ t2 = CRLF /\ t3 = CRLF /\ Len(out[1]) = 3
    BY <1>5
  <2>2. Decoded(peer, t1) = sizeEnd
    <3> DEFINE q == [peer EXCEPT !.at = "sizeEnd"]
    <3>1. q = [at |-> "sizeEnd", left |-> peer.left, body |-> peer.body]
      BY DEF IsPeer
    <3>2. [peer EXCEPT !.at = "sizeEnd", !.left = 0] = [q EXCEPT !.left = 0]
      BY DEF IsPeer
    <3>3. Decoded(peer, t1) = [peer EXCEPT !.at = "sizeEnd", !.left = 0]
      BY <1>5, <2>1, DecodesSize
    <3> HIDE DEF q
    <3> QED
      BY <3>1, <3>2, <3>3
  <2>3. CASE n = 1
    <3>1. SubSeq(<<Size(0), CRLF, CRLF>>, 2, 3) = <<CRLF, CRLF>>
      BY RestOfThree
    <3>2. out' = <<<<CRLF, CRLF>>>>
      BY <1>1, <1>5, <2>1, <2>3, <3>1 DEF Rest
    <3> QED
      BY <1>2, <2>2, <2>3, <3>2 DEF InTerminal, IsPeer
  <2>4. CASE n = 2
    <3>1. SubSeq(<<Size(0), CRLF, CRLF>>, 3, 3) = <<CRLF>>
      BY RestOfThree
    <3>2. out' = <<<<CRLF>>>>
      BY <1>1, <1>5, <2>1, <2>4, <3>1 DEF Rest
    <3> QED
      BY <1>2, <1>4, <2>1, <2>2, <2>4, <3>2 DEF InTerminal, IsPeer
  <2>5. CASE n = 3
    <3>1. SubSeq(<<Size(0), CRLF, CRLF>>, 4, 3) = <<>>
      BY RestOfThree
    <3>2. out' = <<>>
      BY <1>1, <1>5, <2>1, <2>5, <3>1 DEF Rest
    <3>3. Decoded([at |-> "end", left |-> 0, body |-> peer.body], CRLF)
            = [at |-> "whole", left |-> 0, body |-> peer.body]
      BY <1>3
    <3>4. peer' = [at |-> "whole", left |-> 0, body |-> peer.body]
      BY <1>2, <1>4, <2>1, <2>2, <2>5, <3>3
    <3> QED
      BY <3>2, <3>4 DEF InTerminal, IsPeer
  <2> QED
    BY <2>3, <2>4, <2>5
<1>6. CASE out = <<<<CRLF, CRLF>>>> /\ peer.at = "sizeEnd" /\ peer.left = 0
  <2>1. /\ out[1] = <<CRLF, CRLF>> /\ t1 = CRLF /\ t2 = CRLF /\ Len(out[1]) = 2
        /\ peer = sizeEnd
    BY <1>6 DEF IsPeer
  <2>2. CASE n = 1
    <3>1. SubSeq(<<CRLF, CRLF>>, 2, 2) = <<CRLF>>
      BY RestOfTwo
    <3>2. out' = <<<<CRLF>>>>
      BY <1>1, <1>6, <2>1, <2>2, <3>1 DEF Rest
    <3> QED
      BY <1>2, <1>4, <2>1, <2>2, <3>2 DEF InTerminal, IsPeer
  <2>3. CASE n = 2
    <3>1. SubSeq(<<CRLF, CRLF>>, 3, 2) = <<>>
      BY RestOfTwo
    <3>2. out' = <<>>
      BY <1>1, <1>6, <2>1, <2>3, <3>1 DEF Rest
    <3>3. Decoded([at |-> "end", left |-> 0, body |-> peer.body], CRLF)
            = [at |-> "whole", left |-> 0, body |-> peer.body]
      BY <1>3
    <3>4. peer' = [at |-> "whole", left |-> 0, body |-> peer.body]
      BY <1>2, <1>4, <2>1, <2>3, <3>3
    <3> QED
      BY <3>2, <3>4 DEF InTerminal, IsPeer
  <2> QED
    BY <1>1, <2>1, <2>2, <2>3
<1>7. CASE out = <<<<CRLF>>>> /\ peer.at = "end"
  <2>1. out[1] = <<CRLF>> /\ t1 = CRLF /\ n = 1 /\ Len(out[1]) = 1 /\ peer = end
    BY <1>1, <1>7 DEF IsPeer
  <2>2. SubSeq(<<CRLF>>, 2, 1) = <<>>
    BY RestOfTwo
  <2>3. out' = <<>>
    BY <1>1, <1>7, <2>1, <2>2 DEF Rest
  <2>4. peer' = whole
    BY <1>2, <1>3, <2>1
  <2> QED
    BY <2>3, <2>4 DEF InTerminal, IsPeer
<1> QED
  BY <1>1, <1>5, <1>6, <1>7 DEF InTerminal

\* Whatever the socket takes of a chunk, no byte of it is lost or doubled.
LEMMA ChunkWritten ==
  ASSUME NEW k \in Nat, NEW n \in 1 .. 3, WriteSocket(n), InChunk(k),
         IsPeer(peer), peer.body \in Seq(Nat), Run(peer.body, 0)
  PROVE  /\ IsPeer(peer') /\ peer'.body \in Seq(Nat) /\ Run(peer'.body, 0)
         /\ \E j \in 0 .. k : /\ Len(peer'.body) + j = Len(peer.body) + k
                              /\ \/ out' # <<>> /\ InChunk(j)'
                                 \/ out' = <<>> /\ j = 0 /\ peer'.at = "size"
<1> Len(peer.body) \in Nat
  OBVIOUS
<1>1. CASE \/ out = <<<<Size(k), CRLF>>, Bytes(Len(peer.body), k), <<CRLF>>>> /\ k > 0 /\ peer.at = "size"
           \/ out = <<<<CRLF>>, Bytes(Len(peer.body), k), <<CRLF>>>> /\ k > 0 /\ peer.at = "sizeEnd"
              /\ peer.left = k
  <2>1. InChunk(k)' /\ out' # <<>> /\ IsPeer(peer') /\ peer'.body = peer.body
    BY <1>1, SizeWritten
  <2> QED
    BY <2>1
<1>2. CASE out = <<Bytes(Len(peer.body), k), <<CRLF>>>> /\ k > 0 /\ peer.at = "data" /\ peer.left = k
  <2>1. /\ n <= k /\ InChunk(k - n)' /\ out' # <<>> /\ IsPeer(peer')
        /\ peer'.body \in Seq(Nat) /\ Run(peer'.body, 0)
        /\ Len(peer'.body) = Len(peer.body) + n
    BY <1>2, BytesWritten
  <2>2. k - n \in 0 .. k /\ Len(peer'.body) + (k - n) = Len(peer.body) + k
    BY <2>1
  <2> QED
    BY <2>1, <2>2
<1>3. CASE out = <<<<CRLF>>>> /\ k = 0 /\ peer.at = "dataEnd"
  <2>1. out' = <<>> /\ peer'.at = "size" /\ IsPeer(peer') /\ peer'.body = peer.body
    BY <1>3, ChunkEndWritten
  <2> QED
    BY <1>3, <2>1
<1> QED
  BY <1>1, <1>2, <1>3 DEF InChunk

LEMMA ContentsLength == ASSUME NEW ring, WellFormed(ring)
                        PROVE  Len(Contents(ring)) = ring.count /\ ring.count \in Nat
<1>1. ring.count \in Nat
  BY CapacityPositive DEF WellFormed, Rings
<1> QED
  BY <1>1 DEF Contents

\* recording_drain moves bytes from the ring to the stream, and their order stays.
LEMMA DrainInOrder ==
  ASSUME NEW ring, WellFormed(ring), Drain(ring), NEW from \in Nat,
         outgoing \in Seq(Byte), Len(outgoing) <= StreamSize,
         Run(outgoing, from), Run(Contents(ring), from + Len(outgoing))
  PROVE  /\ Run(outgoing', from) /\ Run(Contents(rb'), from + Len(outgoing'))
         /\ Len(outgoing') + rb'.count = Len(outgoing) + ring.count
         /\ rb'.overflow = ring.overflow
         /\ ring.overflow => rb'.count = ring.count
<1> DEFINE m == Moved(ring)
           n == Least(m, ring.count)
           T == Taken(ring, m)
<1>1. ring.count \in Nat /\ Len(Contents(ring)) = ring.count /\ Len(outgoing) \in Nat
  BY ContentsLength
<1>2. m \in Nat /\ (ring.overflow => m = 0)
  BY <1>1, AudioPathAssumption DEF Moved, Least
<1>3. n \in Nat /\ n <= ring.count /\ n <= m
  BY <1>1, <1>2 DEF Least
<1>4. rb' = Pop(ring, m) /\ outgoing' = outgoing \o T
  BY DEF Drain
<1>5. Len(T) = n /\ T \in Seq(Byte)
  BY DrainKeepsTaken
<1> HIDE DEF m
<1>6. /\ WellFormed(rb') /\ rb'.count = ring.count - n /\ rb'.overflow = ring.overflow
      /\ \A i \in 1 .. n : T[i] = Contents(ring)[i]
      /\ \A i \in 1 .. ring.count - n : Contents(rb')[i] = Contents(ring)[n + i]
  BY <1>2, <1>4, PopTakes
<1>7. Len(Contents(rb')) = ring.count - n
  BY <1>6, ContentsLength
<1> HIDE DEF n, T
<1>8. Len(outgoing') = Len(outgoing) + n
  <2>1. Len(outgoing \o T) = Len(outgoing) + Len(T)
    BY <1>5
  <2>2. Len(outgoing') = Len(outgoing \o T)
    BY <1>4
  <2> QED
    BY <1>5, <2>1, <2>2
<1>9. Run(outgoing', from)
  <2> SUFFICES ASSUME NEW i \in 1 .. Len(outgoing') PROVE outgoing'[i] = from + i
    BY DEF Run
  <2>1. CASE i <= Len(outgoing)
    BY <1>1, <1>4, <1>5, <2>1 DEF Run
  <2>2. CASE i > Len(outgoing)
    <3>1. i - Len(outgoing) \in 1 .. n
      BY <1>1, <1>3, <1>8, <2>2
    <3>2. outgoing'[i] = T[i - Len(outgoing)]
      BY <1>1, <1>4, <1>5, <1>8, <2>2
    <3>3. Contents(ring)[i - Len(outgoing)] = from + Len(outgoing) + (i - Len(outgoing))
      BY <1>1, <1>3, <3>1 DEF Run
    <3> QED
      BY <1>1, <1>6, <3>1, <3>2, <3>3
  <2> QED
    BY <1>1, <2>1, <2>2
<1>10. Run(Contents(rb'), from + Len(outgoing'))
  <2> SUFFICES ASSUME NEW i \in 1 .. ring.count - n
               PROVE  Contents(rb')[i] = from + Len(outgoing') + i
    BY <1>7 DEF Run
  <2>1. n + i \in 1 .. ring.count
    BY <1>1, <1>3
  <2>2. Contents(ring)[n + i] = from + Len(outgoing) + (n + i)
    BY <1>1, <2>1 DEF Run
  <2> QED
    BY <1>1, <1>3, <1>6, <1>8, <2>2
<1> QED
  BY <1>1, <1>2, <1>3, <1>6, <1>8, <1>9, <1>10

\* The microphone adds its bytes behind those of the ring, or the ring overflows.
LEMMA RecordInOrder ==
  ASSUME RingInv, WireInv, NEW k \in Nat, InOrder(k), NEW n \in 0 .. CaptureSize,
         ~rb.overflow, captured + n <= MaxRecord, captured' = captured + n,
         Drain(Captured(n)), UNCHANGED <<pc, upload>>
  PROVE  InOrder(k)'
<1> DEFINE s == [i \in 1 .. n |-> captured + i]
           ring == Push(rb, s)
           room == Least(n, Capacity - rb.count)
           from == Len(Body) + k
<1>1. /\ WellFormed(rb) /\ captured \in Nat /\ captured + n <= MaxRecord /\ n \in Nat
      /\ outgoing \in Seq(Byte) /\ Len(outgoing) <= StreamSize
  BY AudioPathAssumption DEF RingInv, RingWellFormed
<1>2. s \in Seq(Byte) /\ Len(s) = n
  BY <1>1, AudioPathAssumption
<1>3. from \in Nat /\ Len(outgoing) \in Nat /\ rb.count \in Nat /\ rb.count <= Capacity
  BY <1>1, ContentsLength DEF WireInv, Body, WellFormed, Rings
<1>4. /\ WellFormed(ring) /\ ring.count = rb.count + room
      /\ ring.overflow = (rb.overflow \/ room < n)
      /\ \A i \in 1 .. rb.count : Contents(ring)[i] = Contents(rb)[i]
      /\ \A i \in 1 .. room : Contents(ring)[rb.count + i] = s[i]
  <2> HIDE DEF s
  <2> QED
    BY <1>1, <1>2, PushAppends
<1>5. room \in Nat /\ room <= n
  BY <1>1, <1>3, CapacityPositive DEF Least
<1>6. from + Len(outgoing) + rb.count = captured
  BY <1>3 DEF InOrder
<1>7. Len(Contents(ring)) = ring.count /\ Len(Contents(rb)) = rb.count
  BY <1>1, <1>4, ContentsLength
<1>8. \A i \in 1 .. room : s[i] = captured + i
  BY <1>5
<1> HIDE DEF ring, s, room
<1>9. Run(Contents(ring), from + Len(outgoing))
  <2> SUFFICES ASSUME NEW i \in 1 .. ring.count
               PROVE  Contents(ring)[i] = from + Len(outgoing) + i
    BY <1>7 DEF Run
  <2>1. CASE i <= rb.count
    BY <1>3, <1>4, <1>7, <2>1 DEF InOrder, Run
  <2>2. CASE i > rb.count
    <3>1. i - rb.count \in 1 .. room /\ i = rb.count + (i - rb.count)
      <4>1. ring.count = rb.count + room /\ rb.count \in Nat /\ room \in Nat
        BY <1>3, <1>4, <1>5
      <4> QED
        BY <2>2, <4>1
    <3>2. Contents(ring)[i] = captured + (i - rb.count)
      BY <1>4, <1>8, <3>1
    <3> QED
      BY <1>3, <1>6, <3>2
  <2> QED
    BY <1>3, <2>1, <2>2
<1>10. Drain(ring)
  BY DEF Captured, ring, s
<1>11. Run(outgoing, from)
  BY DEF InOrder
<1>12. /\ Run(outgoing', from) /\ Run(Contents(rb'), from + Len(outgoing'))
       /\ Len(outgoing') + rb'.count = Len(outgoing) + ring.count
       /\ rb'.overflow = ring.overflow
  BY <1>1, <1>3, <1>4, <1>9, <1>10, <1>11, DrainInOrder
<1>13. ~rb'.overflow => from + Len(outgoing') + rb'.count = captured'
  <2> SUFFICES ASSUME ~rb'.overflow PROVE from + Len(outgoing') + rb'.count = captured'
    OBVIOUS
  <2>1. room = n
    <3>1. ~(room < n)
      BY <1>4, <1>12, Zenon
    <3> QED
      BY <1>1, <1>5, <3>1
  <2>2. WellFormed(rb') /\ outgoing' \in Seq(Byte)
    BY <1>1, <1>4, <1>10, DrainKeeps
  <2>3. rb'.count \in Nat /\ Len(outgoing') \in Nat
    BY <2>2, ContentsLength
  <2>4. Len(outgoing') + rb'.count = Len(outgoing) + (rb.count + n)
    BY <1>4, <1>12, <2>1
  <2> HIDE DEF from
  <2> QED
    <3>1. from \in Nat /\ Len(outgoing) \in Nat /\ rb.count \in Nat
      BY <1>3
    <3>2. from + Len(outgoing) + rb.count = captured
      BY <1>6
    <3>3. captured' = captured + n /\ n \in Nat /\ captured \in Nat
      BY <1>1
    <3>4. from + (Len(outgoing) + (rb.count + n)) = captured + n
      BY <3>1, <3>2, <3>3
    <3>5. from + Len(outgoing') + rb'.count = from + (Len(outgoing') + rb'.count)
      BY <2>3, <3>1
    <3> QED
      BY <2>4, <3>3, <3>4, <3>5
<1>14. Len(Body)' = Len(Body) /\ (InChunk(k)' <=> InChunk(k)) /\ pc' = pc
  BY DEF Body, InChunk, upload
<1> QED
  BY <1>12, <1>13, <1>14 DEF InOrder

-----------------------------------------------------------------------------
(* The steps of the upload.                                                *)

\* http_session_abort and the report of it, from anywhere in the upload.
LEMMA GivesUpFrees ==
  ASSUME SessionInv, IsPeer(peer), pc \in Sending, GivesUp
  PROVE  /\ pc' = "leaving" /\ out' = <<>>
         /\ transport' \in [begun : BOOLEAN, finished : BOOLEAN] /\ ~Busy'
         /\ flags' = [flags EXCEPT !.failed = TRUE, !.result = "failed"]
         /\ IsPeer(peer') /\ peer'.body = peer.body
         /\ peer'.at = "whole" => peer.at = "whole"
<1>1. session.state = "OPEN"
  BY DEF SessionInv
<1>2. /\ transport' = [begun |-> FALSE, finished |-> TRUE] /\ out' = <<>> /\ pc' = "leaving"
      /\ flags' = [flags EXCEPT !.failed = TRUE, !.result = "failed"]
      /\ peer' = IF peer.at = "whole" THEN peer ELSE [peer EXCEPT !.at = "gone"]
  BY <1>1 DEF GivesUp, AbortSession, AbortTransport
<1> QED
  BY <1>2 DEF Busy, IsPeer

\* The transport is free when a session is opened, and what it opens is new.
LEMMA OpenBegins ==
  ASSUME SessionInv, NEW how \in {"refused", "nomemory", "unreachable", "open"}, Open(how)
  PROVE  /\ pc = "opening" /\ UNCHANGED <<state, rb, captured, outgoing>>
         /\ transport' \in [begun : BOOLEAN, finished : BOOLEAN]
         /\ IsPeer(peer') /\ peer'.body = <<>> /\ out' = <<>>
         /\ \/ /\ pc' = "receiving" /\ session'.state = "OPEN" /\ flags' = flags /\ peer'.at = "size"
            \/ /\ pc' = "leaving" /\ ~Busy' /\ peer'.at = "gone"
               /\ flags' = [flags EXCEPT !.failed = TRUE, !.result = "failed"]
<1>1. pc = "opening" /\ ~Busy
  BY DEF Open, SessionInv, Sending
<1>2. /\ transport' = [begun |-> how = "open", finished |-> FALSE]
      /\ peer' = IF how = "open" THEN NewPeer ELSE NoPeer
      /\ session' = [state |-> IF how = "open" THEN "OPEN" ELSE "CLOSED", aborted |-> FALSE]
      /\ out' = <<>>
  BY <1>1, Zenon DEF Open, OpenSession, BeginTransport, Begin
<1>3. IsPeer(NewPeer) /\ NewPeer.at = "size" /\ NewPeer.body = <<>>
  BY DEF IsPeer, NewPeer, NoPeer
<1>4. IsPeer(NoPeer) /\ NoPeer.at = "gone" /\ NoPeer.body = <<>>
  BY DEF IsPeer, NoPeer
<1>5. UNCHANGED <<state, rb, captured, outgoing>>
  BY DEF Open, taskFrame
<1>6. CASE how = "open"
  <2>1. session'.state = "OPEN" /\ pc' = "receiving" /\ flags' = flags
    BY <1>2, <1>6 DEF Open
  <2>2. transport' \in [begun : BOOLEAN, finished : BOOLEAN]
    BY <1>2, <1>6
  <2> QED
    BY <1>1, <1>2, <1>3, <1>5, <1>6, <2>1, <2>2
<1>7. CASE how # "open"
  <2>1. /\ pc' = "leaving" /\ flags' = [flags EXCEPT !.failed = TRUE, !.result = "failed"]
    BY <1>2, <1>7 DEF Open
  <2>2. transport' = [begun |-> FALSE, finished |-> FALSE]
    BY <1>2, <1>7
  <2> QED
    BY <1>1, <1>2, <1>4, <1>5, <1>7, <2>1, <2>2 DEF Busy
<1> QED
  BY <1>6, <1>7

\* The steps that write to the connection, or end it.
LEMMA ReceiveSteps ==
  ASSUME Receive
  PROVE  /\ pc = "receiving" /\ UNCHANGED <<state, rb, captured>>
         /\ \/ flags.failed /\ GivesUp /\ UNCHANGED outgoing
            \/ /\ Least(Len(outgoing), ReadSize) = 0
               /\ pc' = "checking" /\ UNCHANGED <<flags, upload>>
               /\ outgoing' = SubSeq(outgoing, Least(Len(outgoing), ReadSize) + 1, Len(outgoing))
            \/ /\ pc' = "writing" /\ UNCHANGED <<flags, session, transport, client, peer>>
               /\ Least(Len(outgoing), ReadSize) # 0
               /\ out' = ChunkParts(SubSeq(outgoing, 1, Least(Len(outgoing), ReadSize)))
               /\ outgoing' = SubSeq(outgoing, Least(Len(outgoing), ReadSize) + 1, Len(outgoing))
  BY DEF Receive, WriteBody, StartWriting, taskFrame

LEMMA CheckSteps ==
  ASSUME Check
  PROVE  /\ pc = "checking" /\ UNCHANGED <<state, rb, captured, outgoing>>
         /\ \/ pc' = "receiving" /\ UNCHANGED <<flags, upload>>
            \/ GivesUp
            \/ /\ pc' = "closing" /\ UNCHANGED <<flags, session, transport, client, peer>>
               /\ AllSent /\ ~flags.failed /\ out' = FinishParts
  BY DEF Check, FinishBody, StartWriting, taskFrame

LEMMA AnsweredSteps ==
  ASSUME NEW accepted, Answered(accepted)
  PROVE  /\ pc = "closing" /\ out = <<>> /\ UNCHANGED <<state, rb, captured, outgoing>>
         /\ \/ /\ pc' = "waiting" /\ UNCHANGED <<flags, client, out, peer>>
               /\ transport' = [transport EXCEPT !.finished = TRUE]
            \/ GivesUp
  BY DEF Answered, CloseSession, FinishTransport, taskFrame

\* All the others leave the connection alone.
LEMMA OtherSteps ==
  ASSUME \/ MainLoop \/ Elapse \/ Poll \/ ReadBreaks \/ FeedReply \/ Exit
         \/ \E n \in 0 .. ReadSize : ReadReply(n)
         \/ UNCHANGED vars
  PROVE  /\ UNCHANGED upload
         /\ \/ pc' = pc
            \/ Press
            \/ pc \notin Uploading /\ pc' \notin Uploading
<1>1. CASE Press
  BY <1>1 DEF Press
<1>2. CASE \/ PressRefused \/ RecordingStops \/ Play \/ Acknowledge \/ SleepAborted \/ Elapse
           \/ \E n \in 0 .. CaptureSize, released \in BOOLEAN : Record(n, released)
           \/ \E pressed \in BOOLEAN : Process(pressed)
           \/ UNCHANGED vars
  BY <1>2 DEF PressRefused, RecordingStops, Play, Acknowledge, SleepAborted, Elapse, Record, Process, vars
<1>3. CASE Poll \/ ReadBreaks
  BY <1>3 DEF Poll, ReadBreaks, Retry, Leave, Uploading
<1>4. CASE FeedReply \/ Exit
  BY <1>4 DEF FeedReply, Exit, Retry, Leave, Uploading
<1>5. ASSUME NEW n \in 0 .. ReadSize, ReadReply(n)
      PROVE  UNCHANGED upload /\ pc \notin Uploading /\ pc' \notin Uploading
  BY <1>5 DEF ReadReply, Retry, Leave, Uploading
<1> QED
  BY <1>1, <1>2, <1>3, <1>4, <1>5 DEF MainLoop

-----------------------------------------------------------------------------
(* The parts of the invariant.                                             *)

LEMMA NextWorkInv ==
  ASSUME WorkInv, SessionInv, WireInv, [Next]_vars
  PROVE  WorkInv'
<1> USE DEF WorkInv, NoFlags
<1>1. ASSUME flags' = [flags EXCEPT !.failed = TRUE, !.result = "failed"], pc' # "none", pc # "none"
      PROVE  WorkInv'
  <2>1. /\ flags'.cancel = flags.cancel /\ flags'.started = flags.started
        /\ flags'.finished = flags.finished /\ flags'.failed
        /\ flags'.released = flags.released /\ flags'.active = flags.active
    BY <1>1
  <2>2. flags' = [f \in DOMAIN NoFlags |-> flags'[f]]
    BY <1>1
  <2> QED
    BY <1>1, <2>1, <2>2
<1>2. CASE Press
  BY <1>2 DEF Press
<1>3. CASE PressRefused \/ RecordingStops \/ Acknowledge \/ SleepAborted \/ Elapse
  BY <1>3 DEF PressRefused, RecordingStops, OverflowFlags, Acknowledge, SleepAborted, Elapse
<1>4. CASE Play
  BY <1>4 DEF Play
<1>5. ASSUME NEW n \in 0 .. CaptureSize, NEW released \in BOOLEAN, Record(n, released) PROVE WorkInv'
  BY <1>5 DEF Record
<1>6. ASSUME NEW pressed \in BOOLEAN, Process(pressed) PROVE WorkInv'
  <2> DEFINE lost == flags.result = "failed"
             ended == flags.finished \/ (flags.released /\ rb'.count = 0)
             cancelled == flags.cancel \/ pressed \/ (lost /\ flags.active)
  <2>1. flags' = [flags EXCEPT !.finished = ended, !.cancel = cancelled] /\ pc' = pc
    BY <1>6 DEF Process
  <2>2. ended \in BOOLEAN /\ cancelled \in BOOLEAN
    OBVIOUS
  <2> HIDE DEF ended, cancelled
  <2>3. flags' = [f \in DOMAIN NoFlags |-> flags'[f]]
    BY <2>1
  <2>4. /\ flags'.cancel = cancelled /\ flags'.finished = ended
        /\ flags'.started = flags.started /\ flags'.failed = flags.failed
        /\ flags'.released = flags.released /\ flags'.active = flags.active
    BY <2>1
  <2> QED
    BY <2>1, <2>2, <2>3, <2>4
<1>7. ASSUME NEW how \in {"refused", "nomemory", "unreachable", "open"}, Open(how) PROVE WorkInv'
  BY <1>1, <1>7, OpenBegins
<1>8. CASE Receive \/ Check \/ WriteBreaks \/ \E accepted \in BOOLEAN : Answered(accepted)
  <2>1. /\ pc \in Sending /\ pc' # "none"
        /\ flags' = flags \/ GivesUp
    BY <1>8, ReceiveSteps, CheckSteps, AnsweredSteps DEF WriteBreaks, GivesUp, Sending, Uploading
  <2>2. GivesUp => flags' = [flags EXCEPT !.failed = TRUE, !.result = "failed"]
    BY DEF GivesUp
  <2> QED
    BY <1>1, <2>1, <2>2 DEF Sending, Uploading
<1>9. ASSUME NEW n \in 1 .. 3, Write(n) PROVE WorkInv'
  BY <1>9 DEF Write
<1>10. CASE Poll \/ ReadBreaks \/ \E n \in 0 .. ReadSize : ReadReply(n)
  BY <1>10 DEF Poll, ReadBreaks, ReadReply, Retry, Leave
<1>11. CASE FeedReply
  <2> DEFINE s == Feed(parser, SubSeq(File, reply.fed + 1, reply.got), RoomFor)
             invalid == s.asked /\ s.p.rate # PlayRate
             handed == flags.started \/ (s.asked /\ ~invalid)
             asked == flags.started \/ s.asked
  <2>1. /\ pc = "feeding" /\ pc' \in {"feeding", "waiting", "leaving", "reading"}
        /\ \/ flags' = flags
           \/ flags' = [flags EXCEPT !.result = "failed"]
           \/ flags' = [flags EXCEPT !.result = "failed", !.started = handed]
           \/ flags' = [flags EXCEPT !.started = asked]
    BY <1>11 DEF FeedReply, Retry, Leave
  <2>2. handed \in BOOLEAN /\ asked \in BOOLEAN
    OBVIOUS
  <2> HIDE DEF handed, asked
  <2>3. flags' = [f \in DOMAIN NoFlags |-> flags'[f]]
    BY <2>1
  <2>4. /\ flags'.started \in {flags.started, handed, asked}
        /\ flags'.cancel = flags.cancel /\ flags'.finished = flags.finished
        /\ flags'.failed = flags.failed
        /\ flags'.released = flags.released /\ flags'.active = flags.active
    BY <2>1
  <2> QED
    BY <2>1, <2>2, <2>3, <2>4
<1>12. CASE Exit
  BY <1>12 DEF Exit
<1>13. CASE UNCHANGED vars
  BY <1>13 DEF vars
<1> QED
  BY <1>2, <1>3, <1>4, <1>5, <1>6, <1>7, <1>8, <1>9, <1>10, <1>11, <1>12, <1>13
     DEF Next, MainLoop, VoiceTurn

\* Press finds no task, so that none holds the transport.
LEMMA NextSessionInv ==
  ASSUME WorkInv, SessionInv, WireInv, [Next]_vars
  PROVE  SessionInv'
<1> USE DEF SessionInv, Sending, Uploading
<1>1. ASSUME GivesUp, pc \in Sending PROVE SessionInv'
  BY <1>1, GivesUpFrees DEF WireInv, IsPeer
<1>2. ASSUME NEW how \in {"refused", "nomemory", "unreachable", "open"}, Open(how) PROVE SessionInv'
  BY <1>2, OpenBegins
<1>3. CASE Receive
  BY <1>1, <1>3, ReceiveSteps DEF Busy, upload
<1>4. CASE Check
  BY <1>1, <1>4, CheckSteps DEF Busy, upload
<1>5. ASSUME NEW accepted \in BOOLEAN, Answered(accepted) PROVE SessionInv'
  <2>1. pc = "closing"
    BY <1>5, AnsweredSteps
  <2>2. CASE GivesUp
    BY <1>1, <2>1, <2>2
  <2>3. CASE pc' = "waiting" /\ transport' = [transport EXCEPT !.finished = TRUE]
    BY <2>3 DEF Busy
  <2> QED
    BY <1>5, <2>2, <2>3, AnsweredSteps
<1>6. CASE WriteBreaks
  BY <1>1, <1>6 DEF WriteBreaks
<1>7. ASSUME NEW n \in 1 .. 3, Write(n) PROVE SessionInv'
  BY <1>7 DEF Write, WriteSocket, Busy
<1>8. CASE \/ MainLoop \/ Elapse \/ Poll \/ ReadBreaks \/ FeedReply \/ Exit
           \/ \E n \in 0 .. ReadSize : ReadReply(n)
           \/ UNCHANGED vars
  <2>1. UNCHANGED <<transport, session>> /\ (pc' = pc \/ Press \/ (pc \notin Uploading /\ pc' \notin Uploading))
    BY <1>8, OtherSteps DEF upload
  <2>2. CASE Press
    <3>1. pc = "none" /\ pc' = "opening"
      BY <2>2 DEF Press, WorkInv
    <3> QED
      BY <2>1, <3>1 DEF Busy
  <2> QED
    BY <2>1, <2>2 DEF Busy
<1> QED
  BY <1>2, <1>3, <1>4, <1>5, <1>6, <1>7, <1>8 DEF Next, VoiceTurn

LEMMA NextWireInv ==
  ASSUME WorkInv, SessionInv, WireInv, StreamInv, [Next]_vars
  PROVE  WireInv'
<1>1. /\ IsPeer(peer) /\ peer.body \in Seq(Nat) /\ Run(peer.body, 0)
      /\ pc \in {"receiving", "checking"} => out = <<>> /\ peer.at = "size"
      /\ pc = "closing" => InTerminal
  BY DEF WireInv
<1>2. ASSUME IsPeer(peer'), peer'.body = peer.body,
             pc' \in {"receiving", "checking"} => out' = <<>> /\ peer'.at = "size",
             pc' = "closing" => InTerminal'
      PROVE  WireInv'
  BY <1>1, <1>2 DEF WireInv, Run
<1>3. ASSUME UNCHANGED upload, pc' \in {"receiving", "checking"} => pc \in {"receiving", "checking"},
             pc' = "closing" => pc = "closing"
      PROVE  WireInv'
  <2>1. InTerminal' <=> InTerminal
    BY <1>3 DEF upload, InTerminal
  <2> QED
    BY <1>1, <1>2, <1>3, <2>1 DEF upload, IsPeer
<1>4. ASSUME GivesUp, pc \in Sending PROVE WireInv'
  BY <1>1, <1>2, <1>4, GivesUpFrees
<1>5. ASSUME NEW how \in {"refused", "nomemory", "unreachable", "open"}, Open(how) PROVE WireInv'
  <2>1. /\ IsPeer(peer') /\ peer'.body = <<>> /\ out' = <<>>
        /\ pc' = "receiving" => peer'.at = "size"
        /\ pc' \in {"receiving", "leaving"}
    BY <1>5, OpenBegins
  <2>2. peer'.body \in Seq(Nat) /\ Run(peer'.body, 0)
    BY <2>1 DEF Run
  <2> QED
    BY <2>1, <2>2 DEF WireInv, Run
<1>6. CASE Receive
  <2>1. CASE GivesUp
    BY <1>4, <1>6, <2>1, ReceiveSteps DEF Sending, Uploading
  <2>2. CASE pc' = "checking" /\ UNCHANGED upload
    BY <1>3, <1>6, <2>2, ReceiveSteps
  <2>3. CASE pc' = "writing" /\ peer' = peer
    BY <1>1, <1>2, <2>3 DEF IsPeer
  <2> QED
    BY <1>6, <2>1, <2>2, <2>3, ReceiveSteps
<1>7. CASE Check
  <2>1. CASE GivesUp
    BY <1>4, <1>7, <2>1, CheckSteps DEF Sending, Uploading
  <2>2. CASE pc' = "receiving" /\ UNCHANGED upload
    BY <1>3, <1>7, <2>2, CheckSteps
  <2>3. CASE pc' = "closing" /\ peer' = peer /\ out' = FinishParts
    <3>1. peer'.at = "size"
      BY <1>1, <1>7, <2>3, CheckSteps
    <3>2. InTerminal'
      BY <2>3, <3>1 DEF InTerminal, FinishParts
    <3> QED
      BY <1>1, <1>2, <2>3, <3>2 DEF IsPeer
  <2> QED
    BY <1>7, <2>1, <2>2, <2>3, CheckSteps
<1>8. ASSUME NEW accepted \in BOOLEAN, Answered(accepted) PROVE WireInv'
  <2>1. CASE GivesUp
    BY <1>4, <1>8, <2>1, AnsweredSteps DEF Sending, Uploading
  <2>2. CASE pc' = "waiting" /\ peer' = peer
    BY <1>1, <1>2, <2>2 DEF IsPeer
  <2> QED
    BY <1>8, <2>1, <2>2, AnsweredSteps
<1>9. CASE WriteBreaks
  BY <1>4, <1>9 DEF WriteBreaks, Sending, Uploading
<1>10. ASSUME NEW n \in 1 .. 3, Write(n) PROVE WireInv'
  <2>1. /\ WriteSocket(n) /\ pc \in {"writing", "closing"}
        /\ pc' = IF pc = "writing" /\ out' = <<>> THEN "checking" ELSE pc
    BY <1>10 DEF Write
  <2>2. CASE pc = "writing"
    <3>1. PICK k \in 0 .. ReadSize : InChunk(k)
      BY <2>2 DEF StreamInv, InOrder, Uploading
    <3>2. k \in Nat
      BY AudioPathAssumption
    <3>3. /\ IsPeer(peer') /\ peer'.body \in Seq(Nat) /\ Run(peer'.body, 0)
          /\ out' = <<>> => peer'.at = "size"
      BY <1>1, <2>1, <3>1, <3>2, ChunkWritten
    <3> QED
      BY <2>1, <2>2, <3>3 DEF WireInv, Run
  <2>3. CASE pc = "closing"
    <3>1. InTerminal' /\ IsPeer(peer') /\ peer'.body = peer.body
      BY <1>1, <2>1, <2>3, TerminalWritten
    <3> QED
      BY <1>2, <2>1, <2>3, <3>1
  <2> QED
    BY <2>1, <2>2, <2>3
<1>11. CASE \/ MainLoop \/ Elapse \/ Poll \/ ReadBreaks \/ FeedReply \/ Exit
            \/ \E n \in 0 .. ReadSize : ReadReply(n)
            \/ UNCHANGED vars
  <2>1. Press => pc' = "opening"
    BY DEF Press
  <2> QED
    BY <1>3, <1>11, <2>1, OtherSteps DEF Uploading
<1> QED
  BY <1>5, <1>6, <1>7, <1>8, <1>9, <1>10, <1>11 DEF Next, VoiceTurn

\* What is written next is what the stream held first.
LEMMA ReceiveInOrder ==
  ASSUME RingInv, WireInv, InOrder(0), Receive, pc' = "writing"
  PROVE  \E k \in 1 .. ReadSize : InOrder(k)'
<1> DEFINE n == Least(Len(outgoing), ReadSize)
<1>1. /\ pc = "receiving" /\ UNCHANGED <<rb, captured, peer>>
      /\ n # 0 /\ out' = ChunkParts(SubSeq(outgoing, 1, n))
      /\ outgoing' = SubSeq(outgoing, n + 1, Len(outgoing))
  BY ReceiveSteps DEF upload, GivesUp
<1>2. outgoing \in Seq(Byte) /\ Len(outgoing) \in Nat /\ Len(peer.body) \in Nat
  BY DEF RingInv, WireInv
<1>a. n \in 1 .. ReadSize /\ n <= Len(outgoing)
  <2>1. ReadSize \in Nat /\ Len(outgoing) \in Nat /\ n # 0
    BY <1>1, <1>2, AudioPathAssumption
  <2> QED
    BY <2>1 DEF Least
<1>b. PICK k \in 1 .. ReadSize : k = n
  BY <1>a
<1>c. PICK b \in Nat : b = Len(peer.body)
  BY <1>2
<1>3. k <= Len(outgoing)
  BY <1>a, <1>b
<1> DEFINE part == SubSeq(outgoing, 1, k)
<1>d. out' = ChunkParts(part) /\ outgoing' = SubSeq(outgoing, k + 1, Len(outgoing))
  BY <1>1, <1>b
<1> HIDE DEF n
<1>4. Run(outgoing, b) /\ Body = peer.body /\ Body' = peer.body
  <2>1. Body = peer.body /\ Body' = peer.body
    BY <1>1 DEF Body
  <2>2. Run(outgoing, Len(Body) + 0)
    BY DEF InOrder
  <2> QED
    BY <1>2, <1>c, <2>1, <2>2
<1>5. Len(part) = k /\ \A i \in 1 .. k : part[i] = b + i
  <2>1. Len(part) = k /\ \A i \in 1 .. k : part[i] = outgoing[i]
    BY <1>2, <1>3
  <2> QED
    BY <1>2, <1>3, <1>4, <2>1 DEF Run
<1> HIDE DEF part
<1>6. InChunk(k)'
  <2>1. [i \in 1 .. k |-> Pcm(part[i])] = Bytes(b, k)
    BY <1>5 DEF Bytes
  <2>2. out' = <<<<Size(k), CRLF>>, Bytes(b, k), <<CRLF>>>>
    BY <1>d, <1>5, <2>1 DEF ChunkParts
  <2>3. peer'.at = "size" /\ k > 0
    BY <1>1, <1>3 DEF WireInv
  <2>4. peer'.body = peer.body
    BY <1>1
  <2> QED
    BY <1>c, <2>2, <2>3, <2>4 DEF InChunk
<1>7. Len(outgoing') = Len(outgoing) - k /\ \A i \in 1 .. Len(outgoing') : outgoing'[i] = outgoing[k + i]
  BY <1>d, <1>2, <1>3
<1>8. Run(outgoing', b + k)
  <2> SUFFICES ASSUME NEW i \in 1 .. Len(outgoing') PROVE outgoing'[i] = (b + k) + i
    BY DEF Run
  <2>1. k + i \in 1 .. Len(outgoing)
    BY <1>2, <1>3, <1>7
  <2>2. outgoing'[i] = b + (k + i)
    BY <1>4, <1>7, <2>1 DEF Run
  <2> QED
    BY <1>2, <1>3, <2>2
<1>9. b + k + Len(outgoing') = b + 0 + Len(outgoing)
  BY <1>2, <1>3, <1>7
<1>10. /\ Run(Contents(rb), b + 0 + Len(outgoing))
       /\ ~rb.overflow => b + 0 + Len(outgoing) + rb.count = captured
  BY <1>4, <1>c DEF InOrder
<1>11. InOrder(k)'
  <2>1. Len(Body') = b
    BY <1>4, <1>c
  <2>2. Run(outgoing', Len(Body') + k)
    BY <1>8, <2>1
  <2>3. Contents(rb') = Contents(rb) /\ rb' = rb /\ captured' = captured
    BY <1>1
  <2>4. Run(Contents(rb'), Len(Body') + k + Len(outgoing'))
    BY <1>9, <1>10, <2>1, <2>3
  <2>5. ~rb'.overflow => Len(Body') + k + Len(outgoing') + rb'.count = captured'
    BY <1>9, <1>10, <2>1, <2>3
  <2> QED
    BY <1>6, <2>2, <2>4, <2>5 DEF InOrder, Run
<1> QED
  BY <1>11

\* From the microphone to the decoder nothing is lost, doubled or moved, whatever
\* the pieces it goes over in.
LEMMA NextStreamInv ==
  ASSUME RingInv, WorkInv, SessionInv, WireInv, StreamInv, [Next]_vars
  PROVE  StreamInv'
<1>1. /\ outgoing \in Seq(Byte) /\ Len(outgoing) \in Nat /\ Len(outgoing) <= StreamSize
      /\ WellFormed(rb) /\ Len(Contents(rb)) = rb.count /\ rb.count \in Nat
  BY ContentsLength DEF RingInv, RingWellFormed
<1>2. /\ IsPeer(peer) /\ peer.body \in Seq(Nat) /\ Run(peer.body, 0)
      /\ pc = "closing" => InTerminal
      /\ Len(Body) \in Nat
  BY DEF WireInv, Body
<1>3. ASSUME pc' \notin Uploading PROVE StreamInv'
  BY <1>3 DEF StreamInv
<1>4. ASSUME InOrder(0)' PROVE StreamInv'
  BY <1>4, AudioPathAssumption DEF StreamInv
<1>5. ASSUME NEW k \in 1 .. ReadSize, InOrder(k)', pc' = "writing" PROVE StreamInv'
  BY <1>5, AudioPathAssumption DEF StreamInv
<1>6. ASSUME UNCHANGED <<rb, captured, outgoing>>, Body' = Body, pc' # "writing", InOrder(0)
      PROVE  StreamInv'
  <2>1. InOrder(0)'
    BY <1>6 DEF InOrder, Run, Contents, Mask
  <2> QED
    BY <1>4, <2>1
<1>7. ASSUME UNCHANGED <<rb, captured, outgoing, pc, upload>> PROVE StreamInv'
  <2>1. ASSUME NEW k \in 0 .. ReadSize, InOrder(k) PROVE InOrder(k)'
    <3>1. Body' = Body /\ (InChunk(k)' <=> InChunk(k))
      BY <1>7 DEF Body, InChunk, upload
    <3> QED
      BY <1>7, <2>1, <3>1 DEF InOrder, Run, Contents, Mask
  <2> QED
    BY <1>7, <2>1 DEF StreamInv
<1>8. CASE GivesUp
  BY <1>3, <1>8 DEF GivesUp, Uploading
<1>9. pc \in Uploading \ {"writing"} => InOrder(0)
  BY DEF StreamInv
<1>10. ASSUME NEW how \in {"refused", "nomemory", "unreachable", "open"}, Open(how) PROVE StreamInv'
  <2>1. pc = "opening" /\ UNCHANGED <<rb, captured, outgoing>> /\ peer'.body = <<>>
    BY <1>10, OpenBegins
  <2>2. CASE pc' = "receiving"
    <3>1. Body' = Body
      BY <2>1, <2>2 DEF Body
    <3> QED
      BY <1>6, <1>9, <2>1, <2>2, <3>1 DEF Uploading
  <2> QED
    BY <1>3, <1>10, <2>2, OpenBegins DEF Uploading
<1>11. CASE Receive
  <2>1. pc = "receiving" /\ UNCHANGED <<rb, captured>> /\ InOrder(0)
    BY <1>9, <1>11, ReceiveSteps DEF Uploading
  <2>2. CASE pc' = "writing"
    BY <1>5, <1>11, <2>1, <2>2, ReceiveInOrder
  <2>3. CASE pc' = "checking"
    <3>1. /\ Least(Len(outgoing), ReadSize) = 0 /\ peer' = peer
          /\ outgoing' = SubSeq(outgoing, Least(Len(outgoing), ReadSize) + 1, Len(outgoing))
      BY <1>11, <2>3, ReceiveSteps DEF GivesUp, upload
    <3>2. outgoing' = SubSeq(outgoing, 1, Len(outgoing))
      BY <3>1
    <3>3. outgoing' = outgoing
      BY <1>1, <3>2
    <3>4. Body' = Body
      BY <2>1, <2>3, <3>1 DEF Body
    <3> QED
      BY <1>6, <2>1, <2>3, <3>3, <3>4
  <2> QED
    BY <1>8, <1>11, <2>2, <2>3, ReceiveSteps
<1>12. CASE Check
  <2>1. pc = "checking" /\ UNCHANGED <<rb, captured, outgoing>> /\ InOrder(0)
    BY <1>9, <1>12, CheckSteps DEF Uploading
  <2>2. CASE pc' \in {"receiving", "closing"} /\ peer' = peer
    <3>1. Body' = Body
      BY <2>1, <2>2 DEF Body
    <3> QED
      BY <1>6, <2>1, <2>2, <3>1
  <2> QED
    BY <1>8, <1>12, <2>2, CheckSteps DEF upload
<1>13. ASSUME NEW accepted \in BOOLEAN, Answered(accepted) PROVE StreamInv'
  BY <1>3, <1>8, <1>13, AnsweredSteps DEF Uploading
<1>14. CASE WriteBreaks
  BY <1>8, <1>14 DEF WriteBreaks
<1>15. ASSUME NEW n \in 1 .. 3, Write(n) PROVE StreamInv'
  <2>1. /\ WriteSocket(n) /\ pc \in {"writing", "closing"} /\ UNCHANGED <<rb, captured, outgoing>>
        /\ pc' = IF pc = "writing" /\ out' = <<>> THEN "checking" ELSE pc
    BY <1>15 DEF Write, taskFrame
  <2>2. Body = peer.body /\ Body' = peer'.body
    BY <2>1 DEF Body
  <2>3. CASE pc = "closing"
    <3>1. Body' = Body
      BY <1>2, <2>1, <2>2, <2>3, TerminalWritten
    <3> QED
      BY <1>6, <1>9, <2>1, <2>3, <3>1 DEF Uploading
  <2>4. CASE pc = "writing"
    <3>1. PICK k \in 0 .. ReadSize : InOrder(k)
      BY <2>4 DEF StreamInv, Uploading
    <3>2. k \in Nat /\ k <= ReadSize /\ InChunk(k)
      BY <2>4, <3>1, AudioPathAssumption DEF InOrder
    <3>3. /\ peer'.body \in Seq(Nat) /\ Len(peer'.body) \in Nat
          /\ \E j \in 0 .. k : /\ Len(peer'.body) + j = Len(peer.body) + k
                               /\ out' = <<>> => j = 0
                               /\ out' # <<>> => InChunk(j)'
      BY <1>2, <2>1, <3>2, ChunkWritten
    <3>4. PICK j \in 0 .. k : /\ Len(peer'.body) + j = Len(peer.body) + k
                              /\ out' = <<>> => j = 0
                              /\ out' # <<>> => InChunk(j)'
      BY <3>3
    <3>5. j \in 0 .. ReadSize /\ Len(Body') + j = Len(Body) + k
      BY <2>2, <3>2, <3>4, AudioPathAssumption
    <3>6. InOrder(j)'
      <4>1. Run(outgoing', Len(Body') + j)
        BY <2>1, <3>1, <3>5 DEF InOrder, Run
      <4>2. Contents(rb') = Contents(rb) /\ rb' = rb /\ captured' = captured /\ outgoing' = outgoing
        BY <2>1
      <4>3. Run(Contents(rb'), Len(Body') + j + Len(outgoing'))
        BY <3>1, <3>5, <4>2 DEF InOrder
      <4>4. ~rb'.overflow => Len(Body') + j + Len(outgoing') + rb'.count = captured'
        BY <3>1, <3>5, <4>2 DEF InOrder
      <4>5. pc' = "writing" => InChunk(j)'
        BY <2>1, <3>4
      <4> QED
        BY <4>1, <4>3, <4>4, <4>5 DEF InOrder, Run
    <3>7. pc' # "writing" => j = 0
      BY <2>1, <2>4, <3>4
    <3> QED
      BY <3>5, <3>6, <3>7 DEF StreamInv
  <2> QED
    BY <2>1, <2>3, <2>4
<1>16. CASE Press
  <2>1. /\ rb' = Reset(rb) /\ captured' = 0 /\ outgoing' = <<>> /\ pc' = "opening"
    BY <1>16 DEF Press
  <2>2. Contents(rb') = <<>> /\ rb'.count = 0
    BY <2>1 DEF Contents, Reset
  <2>3. Body' = <<>>
    BY <2>1 DEF Body
  <2>4. InOrder(0)'
    BY <2>1, <2>2, <2>3 DEF InOrder, Run
  <2> QED
    BY <1>4, <2>4
<1>17. ASSUME NEW n \in 0 .. CaptureSize, NEW released \in BOOLEAN, Record(n, released)
       PROVE  StreamInv'
  <2>1. /\ ~rb.overflow /\ captured + n <= MaxRecord /\ captured' = captured + n
        /\ Drain(Captured(n)) /\ UNCHANGED <<pc, upload>>
    BY <1>17 DEF Record
  <2>2. ASSUME NEW k \in 0 .. ReadSize, InOrder(k) PROVE InOrder(k)'
    <3>1. k \in Nat
      BY AudioPathAssumption
    <3> QED
      BY <2>1, <2>2, <3>1, RecordInOrder
  <2> QED
    BY <2>1, <2>2 DEF StreamInv
<1>18. ASSUME NEW pressed \in BOOLEAN, Process(pressed) PROVE StreamInv'
  <2>1. UNCHANGED <<captured, pc, upload>> /\ (Drain(rb) \/ UNCHANGED <<rb, outgoing>>)
    BY <1>18 DEF Process
  <2>2. CASE UNCHANGED <<rb, outgoing>>
    BY <1>7, <2>1, <2>2
  <2>3. CASE Drain(rb)
    <3>1. ASSUME NEW k \in 0 .. ReadSize, InOrder(k) PROVE InOrder(k)'
      <4>1. PICK from \in Nat : from = Len(Body) + k
        BY <1>2, AudioPathAssumption
      <4>2. Body' = Body /\ (InChunk(k)' <=> InChunk(k)) /\ pc' = pc /\ captured' = captured
        BY <2>1 DEF Body, InChunk, upload
      <4>3. Run(outgoing, from) /\ Run(Contents(rb), from + Len(outgoing))
        BY <3>1, <4>1 DEF InOrder
      <4>4. /\ Run(outgoing', from) /\ Run(Contents(rb'), from + Len(outgoing'))
            /\ Len(outgoing') + rb'.count = Len(outgoing) + rb.count
            /\ rb'.overflow = rb.overflow
        BY <1>1, <2>3, <4>3, DrainInOrder
      <4>5. WellFormed(rb') /\ outgoing' \in Seq(Byte)
        BY <1>1, <2>3, DrainKeeps
      <4>6. rb'.count \in Nat /\ Len(outgoing') \in Nat
        BY <4>5, ContentsLength
      <4>7. from + Len(outgoing') + rb'.count = from + Len(outgoing) + rb.count
        <5>1. rb.count \in Nat /\ Len(outgoing) \in Nat /\ from \in Nat
          BY <1>1, <4>1, ContentsLength
        <5>2. Len(outgoing') + rb'.count = Len(outgoing) + rb.count
          BY <4>4
        <5> QED
          BY <4>6, <5>1, <5>2
      <4>8. ~rb'.overflow => from + Len(outgoing') + rb'.count = captured'
        BY <3>1, <4>1, <4>2, <4>4, <4>7 DEF InOrder
      <4> QED
        BY <3>1, <4>1, <4>2, <4>4, <4>8 DEF InOrder
    <3> QED
      BY <2>1, <3>1 DEF StreamInv
  <2> QED
    BY <2>1, <2>2, <2>3
<1>19. ASSUME \/ PressRefused \/ RecordingStops \/ Play \/ Acknowledge \/ SleepAborted \/ Elapse
              \/ Poll \/ ReadBreaks \/ FeedReply \/ Exit
              \/ (\E n \in 0 .. ReadSize : ReadReply(n))
              \/ UNCHANGED vars
       PROVE  StreamInv'
  <2>1. UNCHANGED <<rb, captured, outgoing>>
    <3>1. CASE PressRefused \/ RecordingStops \/ Play \/ Acknowledge \/ SleepAborted \/ Elapse
      BY <3>1 DEF PressRefused, RecordingStops, Play, Acknowledge, SleepAborted, Elapse, recorder
    <3>2. CASE Poll \/ ReadBreaks \/ FeedReply \/ Exit
      BY <3>2 DEF Poll, ReadBreaks, FeedReply, Exit, recorder, taskFrame
    <3>3. CASE (\E n \in 0 .. ReadSize : ReadReply(n)) \/ UNCHANGED vars
      BY <3>3 DEF ReadReply, recorder, taskFrame, vars
    <3> QED
      BY <1>19, <3>1, <3>2, <3>3
  <2>2. UNCHANGED upload /\ (pc' = pc \/ Press \/ pc' \notin Uploading)
    BY <1>19, OtherSteps DEF MainLoop
  <2> QED
    BY <1>3, <1>7, <1>16, <2>1, <2>2
<1> QED
  BY <1>10, <1>11, <1>12, <1>13, <1>14, <1>15, <1>16, <1>17, <1>18, <1>19 DEF Next, MainLoop, VoiceTurn

\* It moves nothing once the ring has overflowed.
LEMMA DrainCounts ==
  ASSUME NEW ring, WellFormed(ring), Drain(ring)
  PROVE  rb'.overflow = ring.overflow /\ (ring.overflow => rb'.count = ring.count)
<1>1. ring.count \in Nat
  BY ContentsLength
<1>2. rb'.overflow = ring.overflow
  BY DEF Drain, Pop
<1>3. ASSUME ring.overflow PROVE rb'.count = ring.count
  BY <1>1, <1>3 DEF Drain, Pop, Moved, Popped, Least
<1> QED
  BY <1>2, <1>3

\* The terminal chunk is written when the finished flag has found the ring and the
\* stream empty, and the flag is set once the capture has ended.
LEMMA NextDoneInv ==
  ASSUME RingInv, WorkInv, SessionInv, WireInv, StreamInv, DoneInv, [Next]_vars
  PROVE  DoneInv'
<1>0. /\ flags = [f \in DOMAIN NoFlags |-> flags[f]] /\ DOMAIN NoFlags = DOMAIN flags
      /\ {"cancel", "started", "finished", "failed", "released", "active", "result"} = DOMAIN flags
      /\ flags.active <=> pc # "none"
  BY DEF WorkInv, NoFlags
<1>1. /\ rb.overflow => rb.count > 0
      /\ flags.finished /\ ~flags.failed => flags.released
      /\ flags.released => state # "RECORDING"
      /\ flags.finished /\ ~flags.failed => rb.count = 0
      /\ pc = "closing" => flags.finished /\ ~flags.failed /\ outgoing = <<>>
      /\ flags.active /\ pc # "opening" /\ peer.at = "whole" =>
           /\ flags.finished /\ flags.released
           /\ rb.count = 0 /\ ~rb.overflow
           /\ Len(peer.body) = captured
  BY DEF DoneInv
<1>2. ASSUME UNCHANGED <<rb, captured, outgoing, peer>>,
             flags'.finished = flags.finished, flags'.failed = flags.failed,
             flags'.released = flags.released, flags'.active => flags.active,
             pc' = pc \/ (pc # "opening" /\ pc' # "closing"),
             state' = "RECORDING" => state = "RECORDING"
      PROVE  DoneInv'
  BY <1>1, <1>2 DEF DoneInv
<1>3. ASSUME GivesUp, pc \in Sending, UNCHANGED <<state, rb, captured, outgoing>> PROVE DoneInv'
  <2>1. /\ pc' = "leaving" /\ peer'.body = peer.body
        /\ peer'.at = "whole" => peer.at = "whole"
        /\ flags' = [flags EXCEPT !.failed = TRUE, !.result = "failed"]
    BY <1>3, GivesUpFrees DEF WireInv
  <2>2. flags'.finished = flags.finished /\ flags'.failed = TRUE /\ flags'.released = flags.released
    BY <1>0, <2>1
  <2>3. flags.active /\ pc # "opening"
    BY <1>0, <1>3 DEF Sending, Uploading
  <2> QED
    BY <1>1, <1>3, <2>1, <2>2, <2>3 DEF DoneInv
<1>4. ASSUME NEW how \in {"refused", "nomemory", "unreachable", "open"}, Open(how) PROVE DoneInv'
  <2>1. /\ UNCHANGED <<state, rb, captured, outgoing>> /\ peer'.at # "whole" /\ pc' # "closing"
        /\ flags' \in {flags, [flags EXCEPT !.failed = TRUE, !.result = "failed"]}
    BY <1>4, OpenBegins
  <2>2. /\ flags'.finished = flags.finished /\ flags'.released = flags.released
        /\ ~flags'.failed => ~flags.failed
    BY <1>0, <2>1
  <2> QED
    BY <1>1, <2>1, <2>2 DEF DoneInv
<1>5. CASE Receive
  <2>1. pc = "receiving" /\ UNCHANGED <<state, rb, captured>> /\ peer.at = "size"
    BY <1>5, ReceiveSteps DEF WireInv
  <2>2. CASE GivesUp
    <3>1. pc' = "leaving"
      BY <2>2 DEF GivesUp
    <3>2. outgoing' = outgoing
      BY <1>5, <3>1, ReceiveSteps
    <3> QED
      BY <1>3, <2>1, <2>2, <3>2 DEF Sending, Uploading
  <2>3. CASE pc' \in {"checking", "writing"} /\ flags' = flags /\ peer' = peer
    BY <1>1, <2>1, <2>3 DEF DoneInv
  <2> QED
    BY <1>5, <2>2, <2>3, ReceiveSteps DEF upload
<1>6. CASE Check
  <2>1. pc = "checking" /\ UNCHANGED <<state, rb, captured, outgoing>> /\ peer.at = "size"
    BY <1>6, CheckSteps DEF WireInv
  <2>2. CASE GivesUp
    BY <1>3, <2>1, <2>2 DEF Sending, Uploading
  <2>3. CASE pc' = "receiving" /\ flags' = flags /\ peer' = peer
    BY <1>2, <2>1, <2>3
  <2>4. CASE pc' = "closing" /\ AllSent /\ ~flags.failed /\ flags' = flags /\ peer' = peer
    BY <1>1, <2>1, <2>4 DEF DoneInv, AllSent
  <2> QED
    BY <1>6, <2>2, <2>3, <2>4, CheckSteps DEF upload
<1>7. ASSUME NEW accepted \in BOOLEAN, Answered(accepted) PROVE DoneInv'
  <2>1. pc = "closing" /\ UNCHANGED <<state, rb, captured, outgoing>>
    BY <1>7, AnsweredSteps
  <2>2. CASE GivesUp
    BY <1>3, <2>1, <2>2 DEF Sending, Uploading
  <2>3. CASE pc' = "waiting" /\ UNCHANGED <<flags, peer>>
    BY <1>2, <2>1, <2>3
  <2> QED
    BY <1>7, <2>2, <2>3, AnsweredSteps
<1>8. CASE WriteBreaks
  <2>1. pc \in Sending /\ GivesUp /\ UNCHANGED <<state, rb, captured, outgoing>>
    BY <1>8 DEF WriteBreaks, Sending, Uploading, taskFrame
  <2> QED
    BY <1>3, <2>1
<1>9. ASSUME NEW n \in 1 .. 3, Write(n) PROVE DoneInv'
  <2>1. /\ WriteSocket(n) /\ pc \in {"writing", "closing"}
        /\ pc' = IF pc = "writing" /\ out' = <<>> THEN "checking" ELSE pc
        /\ UNCHANGED <<state, rb, captured, flags, outgoing>>
    BY <1>9 DEF Write, taskFrame
  <2>2. CASE pc = "writing"
    <3>1. PICK k \in 0 .. ReadSize : InChunk(k)
      BY <2>2 DEF StreamInv, InOrder, Uploading
    <3>2. \E j : InChunk(j)' \/ peer'.at = "size"
      BY <2>1, <3>1, ChunkWritten, AudioPathAssumption DEF WireInv
    <3>3. peer'.at # "whole"
      BY <3>2 DEF InChunk
    <3> QED
      BY <1>1, <2>1, <2>2, <3>3 DEF DoneInv
  <2>3. CASE pc = "closing"
    <3>1. peer'.body = peer.body
      BY <2>1, <2>3, TerminalWritten DEF WireInv
    <3>2. flags.finished /\ flags.released /\ outgoing = <<>> /\ rb.count = 0 /\ ~rb.overflow
      BY <1>1, <2>3
    <3>3. InOrder(0)
      BY <2>3 DEF StreamInv, Uploading
    <3>4. Len(peer.body) + 0 + 0 + 0 = captured
      BY <2>3, <3>2, <3>3 DEF InOrder, Body
    <3>5. Len(peer'.body) = captured'
      BY <2>1, <3>1, <3>4 DEF WireInv
    <3> QED
      BY <1>1, <2>1, <2>3, <3>2, <3>5 DEF DoneInv
  <2> QED
    BY <2>1, <2>2, <2>3
<1>10. CASE Press
  <2>1. /\ rb' = Reset(rb) /\ pc' = "opening"
        /\ flags' = [NoFlags EXCEPT !.active = TRUE, !.result = "waiting"]
    BY <1>10 DEF Press
  <2>2. ~flags'.finished /\ ~flags'.released /\ ~rb'.overflow
    BY <2>1 DEF NoFlags, Reset
  <2> QED
    BY <2>1, <2>2 DEF DoneInv
<1>11. CASE RecordingStops
  <2>1. /\ state = "RECORDING" /\ state' = "ERROR" /\ UNCHANGED <<rb, captured, outgoing, pc, peer>>
        /\ flags' \in {flags, [flags EXCEPT !.failed = TRUE, !.finished = TRUE, !.cancel = TRUE]}
    BY <1>11 DEF RecordingStops, OverflowFlags, recorder, upload
  <2>2. ~flags.released /\ pc # "closing"
    BY <1>1, <2>1
  <2>3. CASE flags' = flags
    BY <1>1, <2>1, <2>2, <2>3 DEF DoneInv
  <2>4. CASE flags' = [flags EXCEPT !.failed = TRUE, !.finished = TRUE, !.cancel = TRUE]
    <3>1. flags'.failed = TRUE /\ flags'.released = flags.released /\ flags'.active = flags.active
      BY <1>0, <2>4
    <3> QED
      BY <1>1, <2>1, <2>2, <3>1 DEF DoneInv
  <2> QED
    BY <2>1, <2>3, <2>4
<1>12. ASSUME NEW n \in 0 .. CaptureSize, NEW released \in BOOLEAN, Record(n, released) PROVE DoneInv'
  <2>1. /\ state = "RECORDING" /\ ~rb.overflow /\ UNCHANGED <<pc, peer>> /\ captured + n <= MaxRecord
        /\ Drain(Captured(n))
        /\ flags' \in {flags, [flags EXCEPT !.released = TRUE]}
        /\ flags'.released => state' # "RECORDING" \/ flags' = flags
        /\ state' = "RECORDING" => flags' = flags
    BY <1>12 DEF Record, upload
  <2>2. ~flags.released /\ pc # "closing" /\ ~(flags.finished /\ ~flags.failed)
        /\ ~(flags.active /\ pc # "opening" /\ peer.at = "whole")
    BY <1>1, <2>1
  <2>3. /\ flags'.finished = flags.finished /\ flags'.failed = flags.failed
        /\ flags'.active = flags.active
    BY <1>0, <2>1
  <2>4. rb'.overflow => rb'.count > 0
    <3> DEFINE s == [i \in 1 .. n |-> captured + i]
               ring == Push(rb, s)
               room == Least(n, Capacity - rb.count)
    <3>1. WellFormed(rb) /\ captured \in Nat /\ captured + n <= MaxRecord /\ n \in Nat
      BY <2>1, AudioPathAssumption DEF RingInv, RingWellFormed
    <3>2. s \in Seq(Byte) /\ Len(s) = n
      BY <3>1, AudioPathAssumption
    <3>3. /\ WellFormed(ring) /\ ring.count = rb.count + room
          /\ ring.overflow = (rb.overflow \/ room < n)
      <4> HIDE DEF s
      <4> QED
        BY <3>1, <3>2, PushAppends
    <3>4. rb.count \in Nat /\ ring.count \in Nat
      BY <3>1, <3>3, ContentsLength
    <3>5. ring.overflow => ring.count = Capacity
      <4> SUFFICES ASSUME ring.overflow PROVE ring.count = Capacity
        OBVIOUS
      <4>1. room < n
        BY <2>1, <3>3, Zenon
      <4>2. room = Capacity - rb.count
        BY <3>1, <3>4, <4>1, CapacityPositive DEF Least
      <4> HIDE DEF ring, room
      <4> QED
        BY <3>3, <3>4, <4>2, CapacityPositive
    <3>6. Drain(ring)
      BY <2>1 DEF Captured
    <3> HIDE DEF ring
    <3>7. rb'.overflow = ring.overflow /\ (ring.overflow => rb'.count = ring.count)
      BY <3>3, <3>6, DrainCounts DEF RingInv
    <3> QED
      BY <3>5, <3>7, CapacityPositive
  <2> QED
    BY <2>1, <2>2, <2>3, <2>4 DEF DoneInv
<1>13. ASSUME NEW pressed \in BOOLEAN, Process(pressed) PROVE DoneInv'
  <2> DEFINE lost == flags.result = "failed"
             ended == flags.finished \/ (flags.released /\ rb'.count = 0)
             cancelled == flags.cancel \/ pressed \/ (lost /\ flags.active)
  <2>1. /\ flags' = [flags EXCEPT !.finished = ended, !.cancel = cancelled]
        /\ UNCHANGED <<captured, pc, peer>> /\ state = "PROCESSING" /\ state' # "RECORDING"
        /\ IF flags.released /\ ~flags.finished THEN Drain(rb) ELSE UNCHANGED <<rb, outgoing>>
    BY <1>13 DEF Process, upload
  <2>2. /\ flags'.finished = ended /\ flags'.failed = flags.failed
        /\ flags'.released = flags.released /\ flags'.active = flags.active
    <3> HIDE DEF ended, cancelled
    <3> QED
      BY <1>0, <2>1
  <2>3. CASE Drain(rb) /\ flags.released /\ ~flags.finished
    <3>1. rb'.overflow = rb.overflow /\ (rb.overflow => rb'.count = rb.count)
      BY <2>3, DrainCounts DEF RingInv, RingWellFormed
    <3> QED
      BY <1>1, <2>1, <2>2, <2>3, <3>1 DEF DoneInv
  <2>4. CASE UNCHANGED <<rb, outgoing>>
    BY <1>1, <2>1, <2>2, <2>4 DEF DoneInv
  <2> QED
    BY <2>1, <2>3, <2>4
<1>14. CASE PressRefused \/ Acknowledge \/ SleepAborted \/ Elapse
  BY <1>2, <1>14 DEF PressRefused, Acknowledge, SleepAborted, Elapse, recorder, upload
<1>15. CASE Play
  <2>1. /\ UNCHANGED <<rb, captured, outgoing, peer, pc>> /\ state' # "RECORDING"
        /\ flags' \in {flags, [flags EXCEPT !.cancel = TRUE]}
    BY <1>15 DEF Play, recorder, upload
  <2> QED
    BY <1>0, <1>2, <2>1
<1>16. CASE Poll \/ ReadBreaks \/ \E n \in 0 .. ReadSize : ReadReply(n)
  <2>1. /\ pc \in {"waiting", "reading"} /\ UNCHANGED <<state, rb, captured, outgoing, peer>>
        /\ pc' \notin Uploading
        /\ \/ flags' = flags
           \/ \E r : flags' = [flags EXCEPT !.result = r]
    BY <1>16 DEF Poll, ReadBreaks, ReadReply, Retry, Leave, taskFrame, upload, Uploading
  <2>2. /\ flags'.finished = flags.finished /\ flags'.failed = flags.failed
        /\ flags'.released = flags.released /\ flags'.active = flags.active
    BY <1>0, <2>1
  <2> QED
    BY <1>2, <2>1, <2>2 DEF Uploading
<1>17. CASE FeedReply
  <2> DEFINE s == Feed(parser, SubSeq(File, reply.fed + 1, reply.got), RoomFor)
             invalid == s.asked /\ s.p.rate # PlayRate
             handed == flags.started \/ (s.asked /\ ~invalid)
             asked == flags.started \/ s.asked
  <2>1. /\ pc = "feeding" /\ pc' \in {"feeding", "waiting", "leaving", "reading"}
        /\ UNCHANGED <<state, rb, captured, outgoing, peer>>
        /\ \/ flags' = flags
           \/ flags' = [flags EXCEPT !.result = "failed"]
           \/ flags' = [flags EXCEPT !.result = "failed", !.started = handed]
           \/ flags' = [flags EXCEPT !.started = asked]
    BY <1>17 DEF FeedReply, Retry, Leave, recorder, upload
  <2> HIDE DEF handed, asked
  <2>2. /\ flags'.finished = flags.finished /\ flags'.failed = flags.failed
        /\ flags'.released = flags.released /\ flags'.active = flags.active
    BY <1>0, <2>1
  <2> QED
    BY <1>2, <2>1, <2>2
<1>18. CASE Exit
  <2>1. /\ pc = "leaving" /\ pc' = "none" /\ flags' = [flags EXCEPT !.active = FALSE]
        /\ UNCHANGED <<state, rb, captured, outgoing, peer>>
    BY <1>18 DEF Exit, taskFrame, upload
  <2>2. /\ flags'.finished = flags.finished /\ flags'.failed = flags.failed
        /\ flags'.released = flags.released /\ ~flags'.active
    BY <1>0, <2>1
  <2> QED
    BY <1>2, <2>1, <2>2
<1>19. CASE UNCHANGED vars
  BY <1>2, <1>19 DEF vars, recorder, upload
<1> QED
  BY <1>4, <1>5, <1>6, <1>7, <1>8, <1>9, <1>10, <1>11, <1>12, <1>13, <1>14, <1>15, <1>16, <1>17, <1>18, <1>19
     DEF Next, MainLoop, VoiceTurn

LEMMA InitUploadInv == Init => UploadInv
<1> SUFFICES ASSUME Init PROVE UploadInv
  OBVIOUS
<1>1. /\ flags = NoFlags /\ pc = "none" /\ rb = EmptyRing /\ state = "IDLE"
      /\ transport = [begun |-> FALSE, finished |-> FALSE] /\ peer = NoPeer
  BY DEF Init, InitUpload
<1>2. WorkInv
  BY <1>1 DEF WorkInv, NoFlags
<1>3. SessionInv
  BY <1>1 DEF SessionInv, Busy, Sending, Uploading
<1>4. WireInv
  BY <1>1 DEF WireInv, IsPeer, NoPeer, Run
<1>5. StreamInv
  BY <1>1 DEF StreamInv, Uploading
<1>6. DoneInv
  BY <1>1 DEF DoneInv, NoFlags, EmptyRing
<1> QED
  BY <1>2, <1>3, <1>4, <1>5, <1>6 DEF UploadInv

LEMMA NextUploadInv == RingInv /\ UploadInv /\ [Next]_vars => UploadInv'
  BY NextWorkInv, NextSessionInv, NextWireInv, NextStreamInv, NextDoneInv DEF UploadInv

LEMMA AlwaysUploadInv == Spec => []UploadInv
<1>1. RingInv /\ UploadInv /\ [Next]_vars => RingInv' /\ UploadInv'
  BY NextRingInv, NextUploadInv
<1> QED
  BY <1>1, InitRingInv, InitUploadInv, PTL DEF Spec

\* Whichever way an upload ends, complete, given up between two chunks, broken in
\* the middle of one or never opened, voice_transport_begin of the next one is not
\* refused (voice_transport.c:4): nothing is left begun and unfinished.
THEOREM UploadLeavesNoHold == Spec => []NextUploadCanBegin
<1>1. UploadInv => NextUploadCanBegin
  BY DEF UploadInv, SessionInv, Sending, NextUploadCanBegin
<1> QED
  BY <1>1, AlwaysUploadInv, PTL

\* A body that ends with its terminal chunk is the recording, byte for byte: however
\* many bytes a tick captures, wherever app.rb wraps, however recording_drain, the
\* reads of the stream and the partial writes of the socket cut it, and whatever
\* overflow, cancel or failure came in between.
THEOREM BodyIsTheRecording == Spec => []WholeBodyIsRecording
<1>1. RingInv /\ UploadInv => WholeBodyIsRecording
  <2> SUFFICES ASSUME UploadInv, peer.at = "whole", pc # "opening", flags.active
               PROVE  /\ peer.body = [i \in 1 .. captured |-> i]
                      /\ state # "RECORDING" /\ ~rb.overflow
    BY DEF WholeBodyIsRecording
  <2>1. /\ flags.released /\ state # "RECORDING" /\ ~rb.overflow
        /\ Len(peer.body) = captured
    BY DEF UploadInv, DoneInv
  <2>2. peer.body \in Seq(Nat) /\ \A i \in 1 .. Len(peer.body) : peer.body[i] = 0 + i
    BY DEF UploadInv, WireInv, Run
  <2>3. peer.body = [i \in 1 .. captured |-> i]
    BY <2>1, <2>2
  <2> QED
    BY <2>1, <2>3
<1> QED
  BY <1>1, InitRingInv, NextRingInv, AlwaysUploadInv, PTL DEF Spec

-----------------------------------------------------------------------------
(* Induction, for the recursive functions of the parser and of the files.  *)

\* A set of numbers has a least one.
LEMMA LeastOf ==
  ASSUME NEW T \in SUBSET Nat, T # {}
  PROVE  \E n \in T : \A m \in T : n <= m
<1>1. PICK t \in T : TRUE
  OBVIOUS
<1> DEFINE X == 0 .. t
           Below(s) == 0 .. s
           All == {Below(s) : s \in T \cap X}
<1>2. All \subseteq FiniteSubsetsOf(X) /\ All # {}
  <2>1. \A s \in X : Below(s) \in SUBSET X /\ IsFiniteSet(Below(s))
    BY FS_Interval
  <2>2. t \in T \cap X
    BY <1>1
  <2> QED
    BY <2>1, <2>2 DEF FiniteSubsetsOf
<1>3. PICK A \in All : \A B \in All : ~(<<B, A>> \in StrictSubsetOrdering(X))
  <2>1. IsFiniteSet(X)
    BY FS_Interval
  <2>2. IsWellFoundedOn(StrictSubsetOrdering(X), FiniteSubsetsOf(X))
    BY <2>1, FS_StrictSubsetOrderingWellFounded
  <2> HIDE DEF All
  <2> QED
    BY <1>2, <2>2, WFMin
<1>4. PICK s \in T \cap X : A = Below(s)
  OBVIOUS
<1>5. ASSUME NEW m \in T, m < s PROVE FALSE
  <2>1. Below(m) \in All /\ Below(m) \subseteq Below(s) /\ s \in Below(s) /\ s \notin Below(m)
    BY <1>5
  <2>2. <<Below(m), Below(s)>> \in StrictSubsetOrdering(X)
    <3>1. Below(m) \in SUBSET X /\ Below(s) \in SUBSET X
      BY <1>5
    <3> HIDE DEF Below, X
    <3> QED
      BY <2>1, <3>1 DEF StrictSubsetOrdering
  <2> QED
    BY <1>3, <1>4, <2>1, <2>2
<1> QED
  BY <1>5

\* What holds of 0, and of n + 1 when it holds of n, holds up to L.
LEMMA Climb ==
  ASSUME NEW L \in Nat, NEW S, 0 \in S, \A n \in 0 .. L - 1 : n \in S => n + 1 \in S
  PROVE  \A n \in 0 .. L : n \in S
<1> DEFINE T == {n \in 0 .. L : n \notin S}
<1> SUFFICES ASSUME T # {} PROVE FALSE
  OBVIOUS
<1>1. PICK n \in T : \A m \in T : n <= m
  <2>1. T \in SUBSET Nat
    OBVIOUS
  <2> HIDE DEF T
  <2> QED
    BY <2>1, LeastOf
<1>2. n # 0 /\ n - 1 \in 0 .. L - 1 /\ n - 1 \notin T
  BY <1>1
<1> QED
  BY <1>1, <1>2

-----------------------------------------------------------------------------
(* The parts of a flattened sequence, and where they begin.                *)

\* FlattenSeq puts one part after the other.
LEMMA FlattenIs ==
  ASSUME NEW s, Len(s) \in Nat \ {0}
  PROVE  \E f : /\ f = [i \in 1 .. Len(s) |-> IF i = 1 THEN s[i] ELSE f[i - 1] \o s[i]]
                /\ FlattenSeq(s) = f[Len(s)]
<1> DEFINE L == Len(s) - 1
           Both(a, i) == a \o s[i]
           Upto(f, n) == f = [i \in 1 .. n |-> IF i = 1 THEN s[i] ELSE Both(f[i - 1], i)]
           S == {n \in 0 .. L : \E f : Upto(f, n + 1)}
<1>0. L \in Nat /\ L + 1 = Len(s)
  OBVIOUS
<1> HIDE DEF L, Both
<1>1. 0 \in S
  <2> DEFINE f == [i \in 1 .. 1 |-> s[1]]
  <2>1. Upto(f, 0 + 1)
    OBVIOUS
  <2> HIDE DEF Upto, f
  <2> QED
    BY <1>0, <2>1
<1>2. ASSUME NEW n \in 0 .. L - 1, n \in S PROVE n + 1 \in S
  <2>1. PICK f : Upto(f, n + 1)
    <3> HIDE DEF Upto
    <3> QED
      BY <1>2
  <2> DEFINE g == [i \in 1 .. n + 2 |-> IF i <= n + 1 THEN f[i] ELSE Both(f[n + 1], n + 2)]
  <2>2. n \in Nat /\ n + 1 \in 0 .. L
    BY <1>0
  <2>3. \A i \in 1 .. n + 2 : g[i] = IF i = 1 THEN s[i] ELSE Both(g[i - 1], i)
    <3>1. \A i \in 1 .. n + 1 : g[i] = f[i]
      BY <2>2
    <3>2. \A i \in 1 .. n + 1 : f[i] = IF i = 1 THEN s[i] ELSE Both(f[i - 1], i)
      BY <2>1
    <3>3. g[n + 2] = Both(g[n + 1], n + 2)
      BY <2>2
    <3> HIDE DEF g
    <3> QED
      BY <2>2, <3>1, <3>2, <3>3
  <2>4. g = [i \in 1 .. n + 2 |-> g[i]]
    OBVIOUS
  <2> HIDE DEF g
  <2>5. Upto(g, (n + 1) + 1)
    <3>1. (n + 1) + 1 = n + 2
      BY <2>2
    <3> QED
      BY <2>3, <2>4, <3>1
  <2> HIDE DEF Upto
  <2> QED
    BY <2>2, <2>5
<1>3. \E f : Upto(f, Len(s))
  <2> HIDE DEF S
  <2>1. L \in S
    BY <1>0, <1>1, <1>2, Climb
  <2> HIDE DEF Upto
  <2> QED
    BY <1>0, <2>1 DEF S
<1> DEFINE f == CHOOSE f : Upto(f, Len(s))
<1>4. Upto(f, Len(s))
  BY <1>3
<1>5. FlattenSeq(s) = f[Len(s)]
  BY <1>0 DEF FlattenSeq, Both
<1> QED
  BY <1>4, <1>5 DEF Both

\* Part k of s begins behind position off[k] of flat.
Layout(s, off, flat) ==
  /\ off \in [1 .. Len(s) + 1 -> Nat] /\ off[1] = 0
  /\ \A k \in 1 .. Len(s) : off[k + 1] = off[k] + Len(s[k])
  /\ Len(flat) = off[Len(s) + 1]
  /\ \A k \in 1 .. Len(s) : \A i \in 1 .. Len(s[k]) : flat[off[k] + i] = s[k][i]

LEMMA FlattenLayout ==
  ASSUME NEW X, NEW s \in Seq(Seq(X)), s # <<>>
  PROVE  FlattenSeq(s) \in Seq(X) /\ \E off : Layout(s, off, FlattenSeq(s))
<1>0. Len(s) \in Nat \ {0} /\ \A k \in 1 .. Len(s) : s[k] \in Seq(X)
  OBVIOUS
<1>1. PICK f : /\ f = [i \in 1 .. Len(s) |-> IF i = 1 THEN s[i] ELSE f[i - 1] \o s[i]]
               /\ FlattenSeq(s) = f[Len(s)]
  BY <1>0, FlattenIs
<1>2. f[1] = s[1] /\ \A i \in 1 .. Len(s) - 1 : f[i + 1] = f[i] \o s[i + 1]
  <2>1. \A i \in 1 .. Len(s) : f[i] = IF i = 1 THEN s[i] ELSE f[i - 1] \o s[i]
    BY <1>1
  <2>2. 1 \in 1 .. Len(s)
    BY <1>0
  <2> SUFFICES ASSUME NEW i \in 1 .. Len(s) - 1 PROVE f[i + 1] = f[i] \o s[i + 1]
    BY <2>1, <2>2
  <2>3. i + 1 \in 1 .. Len(s) /\ i + 1 # 1 /\ (i + 1) - 1 = i
    BY <1>0
  <2>4. f[i + 1] = f[(i + 1) - 1] \o s[i + 1]
    BY <2>1, <2>3
  <2> QED
    BY <2>3, <2>4
<1> DEFINE off == [k \in 1 .. Len(s) + 1 |-> IF k = 1 THEN 0 ELSE Len(f[k - 1])]
           Good(n) == /\ f[n] \in Seq(X)
                      /\ Len(f[n]) = off[n] + Len(s[n])
                      /\ \A k \in 1 .. n : \A i \in 1 .. Len(s[k]) :
                           off[k] + i \in 1 .. Len(f[n]) /\ f[n][off[k] + i] = s[k][i]
           S == {n \in 0 .. Len(s) - 1 : Good(n + 1)}
<1>3. off[1] = 0 /\ \A k \in 1 .. Len(s) : off[k + 1] = Len(f[k])
  BY <1>0
<1>9. DOMAIN off = 1 .. Len(s) + 1
  OBVIOUS
<1> HIDE DEF off
<1>4. 0 \in S
  <2>1. 0 + 1 = 1 /\ s[1] \in Seq(X) /\ Len(s[1]) \in Nat
    BY <1>0
  <2>2. Good(1)
    BY <1>2, <1>3, <2>1
  <2> HIDE DEF Good
  <2> QED
    BY <1>0, <2>1, <2>2
<1>5. ASSUME NEW n \in 0 .. Len(s) - 1 - 1, n \in S PROVE n + 1 \in S
  <2> DEFINE m == n + 1
  <2>0. m \in 1 .. Len(s) - 1 /\ m + 1 \in 1 .. Len(s) /\ m \in 0 .. Len(s) - 1
    BY <1>0
  <2>1. Good(m)
    BY <1>5
  <2> HIDE DEF m
  <2>2. f[m + 1] = f[m] \o s[m + 1] /\ s[m + 1] \in Seq(X) /\ f[m] \in Seq(X)
    BY <1>0, <1>2, <2>0, <2>1
  <2>3. /\ f[m + 1] \in Seq(X) /\ Len(f[m + 1]) = Len(f[m]) + Len(s[m + 1])
        /\ \A j \in 1 .. Len(f[m]) : f[m + 1][j] = f[m][j]
        /\ \A j \in 1 .. Len(s[m + 1]) : f[m + 1][Len(f[m]) + j] = s[m + 1][j]
        /\ Len(f[m]) \in Nat /\ Len(s[m + 1]) \in Nat
    <3> DEFINE a == f[m]
               b == s[m + 1]
    <3>1. f[m + 1] = a \o b /\ a \in Seq(X) /\ b \in Seq(X)
      BY <2>2
    <3> HIDE DEF a, b
    <3>2. /\ f[m + 1] \in Seq(X) /\ Len(f[m + 1]) = Len(a) + Len(b)
          /\ \A j \in 1 .. Len(a) + Len(b) : f[m + 1][j] = IF j <= Len(a) THEN a[j] ELSE b[j - Len(a)]
          /\ Len(a) \in Nat /\ Len(b) \in Nat
      BY <3>1, ConcatProperties
    <3>3. \A j \in 1 .. Len(b) : Len(a) + j \in 1 .. Len(a) + Len(b) /\ ~(Len(a) + j <= Len(a)) /\ (Len(a) + j) - Len(a) = j
      BY <3>2
    <3>4. \A j \in 1 .. Len(a) : j \in 1 .. Len(a) + Len(b) /\ j <= Len(a)
      BY <3>2
    <3>5. \A j \in 1 .. Len(b) : f[m + 1][Len(a) + j] = b[j]
      BY <3>2, <3>3
    <3>6. \A j \in 1 .. Len(a) : f[m + 1][j] = a[j]
      BY <3>2, <3>4
    <3> QED
      BY <3>2, <3>5, <3>6 DEF a, b
  <2>4. off[m + 1] = Len(f[m])
    BY <1>3, <2>0
  <2>5. Good(m + 1)
    <3> SUFFICES ASSUME NEW k \in 1 .. m + 1, NEW i \in 1 .. Len(s[k])
                 PROVE  off[k] + i \in 1 .. Len(f[m + 1]) /\ f[m + 1][off[k] + i] = s[k][i]
      BY <2>3, <2>4
    <3>1. CASE k \in 1 .. m
      <4>1. off[k] + i \in 1 .. Len(f[m]) /\ f[m][off[k] + i] = s[k][i]
        BY <2>1, <3>1
      <4> DEFINE j == off[k] + i
                 l == Len(f[m + 1])
                 a == Len(f[m])
                 b == Len(s[m + 1])
      <4>2. f[m + 1][j] = f[m][j]
        BY <2>3, <4>1
      <4>3. l = a + b /\ a \in Nat /\ b \in Nat /\ j \in 1 .. a
        BY <2>3, <4>1
      <4>4. j \in 1 .. l
        <5> HIDE DEF j, l, a, b
        <5> QED
          BY <4>3
      <4> QED
        BY <4>1, <4>2, <4>4
    <3>2. CASE k = m + 1
      <4>1. off[k] = Len(f[m]) /\ i \in 1 .. Len(s[m + 1])
        BY <2>4, <3>2
      <4>2. f[m + 1][Len(f[m]) + i] = s[m + 1][i]
        BY <2>3, <4>1
      <4> DEFINE l == Len(f[m + 1])
                 a == Len(f[m])
                 b == Len(s[m + 1])
      <4>3. l = a + b /\ a \in Nat /\ b \in Nat /\ i \in 1 .. b
        BY <2>3, <4>1
      <4>4. a + i \in 1 .. l
        <5> HIDE DEF l, a, b
        <5> QED
          BY <4>3
      <4> QED
        BY <3>2, <4>1, <4>2, <4>4
    <3> QED
      BY <2>0, <3>1, <3>2
  <2> HIDE DEF Good
  <2> QED
    BY <2>0, <2>5 DEF m
<1>6. \A n \in 1 .. Len(s) : Good(n)
  <2> HIDE DEF S
  <2>1. \A n \in 0 .. Len(s) - 1 : n \in S
    <3> DEFINE L == Len(s) - 1
    <3>1. L \in Nat /\ \A n \in 0 .. L - 1 : n \in S => n + 1 \in S
      BY <1>0, <1>5
    <3> HIDE DEF L
    <3>2. \A n \in 0 .. L : n \in S
      BY <1>4, <3>1, Climb
    <3> QED
      BY <3>2 DEF L
  <2>2. \A n \in 0 .. Len(s) - 1 : Good(n + 1)
    BY <2>1 DEF S
  <2> HIDE DEF Good
  <2>3. \A n \in 1 .. Len(s) : n - 1 \in 0 .. Len(s) - 1 /\ (n - 1) + 1 = n
    BY <1>0
  <2> QED
    BY <2>2, <2>3
<1>7. Layout(s, off, FlattenSeq(s))
  <2>1. off \in [1 .. Len(s) + 1 -> Nat]
    <3>1. \A k \in 1 .. Len(s) + 1 : off[k] \in Nat
      <4> SUFFICES ASSUME NEW k \in 1 .. Len(s) + 1, k # 1 PROVE off[k] \in Nat
        BY <1>3
      <4>1. k - 1 \in 1 .. Len(s) /\ (k - 1) + 1 = k
        BY <1>0
      <4>2. off[k] = Len(f[k - 1]) /\ f[k - 1] \in Seq(X)
        BY <1>3, <1>6, <4>1
      <4> QED
        BY <4>2
    <3>2. off = [k \in 1 .. Len(s) + 1 |-> off[k]]
      BY DEF off
    <3> QED
      BY <3>1, <3>2
  <2>2. \A k \in 1 .. Len(s) : off[k + 1] = off[k] + Len(s[k])
    BY <1>3, <1>6
  <2>3. Len(FlattenSeq(s)) = off[Len(s) + 1]
    <3>1. Len(s) \in 1 .. Len(s)
      BY <1>0
    <3> QED
      BY <1>1, <1>3, <3>1
  <2>4. \A k \in 1 .. Len(s) : \A i \in 1 .. Len(s[k]) : FlattenSeq(s)[off[k] + i] = s[k][i]
    <3>1. Len(s) \in 1 .. Len(s) /\ Good(Len(s))
      BY <1>0, <1>6
    <3>2. \A k \in 1 .. Len(s) : \A i \in 1 .. Len(s[k]) : f[Len(s)][off[k] + i] = s[k][i]
      BY <3>1
    <3> QED
      BY <1>1, <3>2
  <2> QED
    BY <1>3, <2>1, <2>2, <2>3, <2>4 DEF Layout
<1>8. FlattenSeq(s) \in Seq(X)
  <2>1. Len(s) \in 1 .. Len(s) /\ Good(Len(s))
    BY <1>0, <1>6
  <2> QED
    BY <1>1, <2>1
<1> QED
  BY <1>7, <1>8

\* The parts follow one another, and every position is in one of them.
LEMMA OffsetsGrow ==
  ASSUME NEW s, NEW off, NEW flat, Layout(s, off, flat), Len(s) \in Nat,
         \A k \in 1 .. Len(s) : Len(s[k]) \in Nat
  PROVE  \A a \in 1 .. Len(s) + 1, b \in 1 .. Len(s) + 1 : a <= b => off[a] <= off[b]
<1> SUFFICES ASSUME NEW a \in 1 .. Len(s) + 1
             PROVE  \A b \in 1 .. Len(s) + 1 : a <= b => off[a] <= off[b]
  OBVIOUS
<1> DEFINE L == Len(s) + 1 - a
           S == {n \in 0 .. L : off[a] <= off[a + n]}
<1>0. /\ \A k \in 1 .. Len(s) + 1 : off[k] \in Nat
      /\ \A k \in 1 .. Len(s) : off[k + 1] = off[k] + Len(s[k])
  BY DEF Layout
<1>1. L \in Nat /\ 0 \in S
  BY <1>0
<1>2. ASSUME NEW n \in 0 .. L - 1, n \in S PROVE n + 1 \in S
  <2>1. a + n \in 1 .. Len(s) /\ a + (n + 1) = (a + n) + 1 /\ n + 1 \in 0 .. L
    OBVIOUS
  <2> QED
    BY SMTT(20), <1>0, <1>2, <2>1
<1>3. \A n \in 0 .. L : n \in S
  <2> HIDE DEF L, S
  <2> QED
    BY <1>1, <1>2, Climb
<1> QED
  <2> TAKE b \in 1 .. Len(s) + 1
  <2> HAVE a <= b
  <2>1. b - a \in 0 .. L /\ a + (b - a) = b
    OBVIOUS
  <2>2. b - a \in S
    BY <1>3, <2>1
  <2> QED
    BY <2>1, <2>2

LEMMA Located ==
  ASSUME NEW s, NEW off, NEW flat, Layout(s, off, flat), Len(s) \in Nat,
         \A k \in 1 .. Len(s) : Len(s[k]) \in Nat, NEW i \in 1 .. Len(flat)
  PROVE  \E k \in 1 .. Len(s) : i - off[k] \in 1 .. Len(s[k])
<1> DEFINE T == {k \in 1 .. Len(s) + 1 : off[k] >= i}
<1>0. /\ \A k \in 1 .. Len(s) + 1 : off[k] \in Nat
      /\ \A k \in 1 .. Len(s) : off[k + 1] = off[k] + Len(s[k])
      /\ off[1] = 0 /\ off[Len(s) + 1] = Len(flat)
  BY DEF Layout
<1>1. T \in SUBSET Nat /\ Len(s) + 1 \in T
  BY <1>0
<1>2. PICK k \in T : \A m \in T : k <= m
  <2> HIDE DEF T
  <2> QED
    BY <1>1, LeastOf
<1>3. k # 1 /\ k - 1 \in 1 .. Len(s) /\ k - 1 \notin T /\ (k - 1) + 1 = k
  BY <1>0, <1>2
<1>4. off[k] = off[k - 1] + Len(s[k - 1]) /\ off[k] >= i /\ off[k - 1] < i
  BY <1>0, <1>2, <1>3
<1>5. off[k - 1] \in Nat /\ Len(s[k - 1]) \in Nat
  BY <1>0, <1>3
<1>6. i - off[k - 1] \in 1 .. Len(s[k - 1])
  BY <1>4, <1>5
<1> QED
  BY <1>3, <1>6

-----------------------------------------------------------------------------
(* A file, position by position.                                           *)

Chunks == [id : STRING, size : Nat, rate : Nat]
Points == Nat \X Nat
Ids == STRING \cup {""}
Tokens == [id : Ids, size : Nat, rate : Nat, value : Points]

\* The bytes of a chunk.
Extent(c) ==
  HeaderSize + (IF c.id = "RIFF" THEN TailSize ELSE c.size + (IF Odd(c.size) THEN 1 ELSE 0))

\* Byte i of chunk k.
Nth(c, k, i) ==
  IF i <= HeaderSize THEN [Token EXCEPT !.id = c.id, !.size = c.size]
  ELSE IF c.id = "RIFF" \/ i > HeaderSize + c.size THEN Token
  ELSE [Token EXCEPT !.rate = c.rate, !.value = IF c.id = "data" THEN <<k, i - HeaderSize>> ELSE @]

LEMMA Sizes ==
  /\ HeaderSize \in Nat /\ HeaderSize > 0 /\ TailSize \in Nat /\ TailSize > 0
  /\ FmtSize \in Nat /\ FmtSize > 0 /\ ~Odd(FmtSize)
  BY WavParserAssumption DEF Odd

LEMMA ChunkIs ==
  ASSUME NEW c \in Chunks, NEW k \in Nat
  PROVE  /\ ChunkBytes(c, k) \in Seq(Tokens) /\ Len(ChunkBytes(c, k)) = Extent(c)
         /\ \A i \in 1 .. Extent(c) : ChunkBytes(c, k)[i] = Nth(c, k, i)
         /\ Extent(c) \in Nat /\ Extent(c) >= HeaderSize
<1> DEFINE n == IF c.id = "RIFF" THEN TailSize ELSE c.size
           head == Repeat(HeaderSize, [Token EXCEPT !.id = c.id, !.size = c.size])
           body == IF c.id = "RIFF" THEN Repeat(TailSize, Token)
                   ELSE [i \in 1 .. c.size |->
                          [Token EXCEPT !.rate = c.rate, !.value = IF c.id = "data" THEN <<k, i>> ELSE @]]
           pad == IF c.id # "RIFF" /\ Odd(c.size) THEN <<Token>> ELSE <<>>
           m == IF c.id # "RIFF" /\ Odd(c.size) THEN 1 ELSE 0
<1>1. Token \in Tokens /\ Token.value = NoSample
  <2>1. NoSample \in Points
    BY DEF NoSample, Points
  <2> QED
    BY <2>1 DEF Token, Tokens, Ids
<1>2. n \in Nat /\ m \in 0 .. 1 /\ HeaderSize \in Nat
  BY Sizes DEF Chunks
<1>3. /\ head \in Seq(Tokens) /\ Len(head) = HeaderSize
      /\ \A i \in 1 .. HeaderSize : head[i] = [Token EXCEPT !.id = c.id, !.size = c.size]
  <2>1. [Token EXCEPT !.id = c.id, !.size = c.size] \in Tokens
    BY <1>1 DEF Tokens, Chunks, Ids
  <2> HIDE DEF Token
  <2> QED
    BY <1>2, <2>1 DEF Repeat
<1>4. /\ body \in Seq(Tokens) /\ Len(body) = n
      /\ \A i \in 1 .. n : body[i] = IF c.id = "RIFF" THEN Token
                                     ELSE [Token EXCEPT !.rate = c.rate, !.value = IF c.id = "data" THEN <<k, i>> ELSE @]
  <2>1. CASE c.id = "RIFF"
    BY <1>1, <1>2, <2>1 DEF Repeat
  <2>2. CASE c.id # "RIFF"
    <3> DEFINE e(i) == [Token EXCEPT !.rate = c.rate, !.value = IF c.id = "data" THEN <<k, i>> ELSE @]
    <3>1. \A i \in 1 .. n : e(i) \in Tokens
      <4> TAKE i \in 1 .. n
      <4>1. <<k, i>> \in Points /\ c.rate \in Nat
        BY <1>2 DEF Points, Chunks
      <4> DEFINE v == IF c.id = "data" THEN <<k, i>> ELSE Token.value
      <4>2. v \in Points
        BY <1>1, <4>1 DEF Tokens
      <4>3. e(i) = [Token EXCEPT !.rate = c.rate, !.value = v]
        OBVIOUS
      <4> HIDE DEF v, e
      <4> QED
        BY <1>1, <4>1, <4>2, <4>3 DEF Tokens
    <3>2. body = [i \in 1 .. n |-> e(i)]
      BY <2>2
    <3> HIDE DEF e, body
    <3>3. body \in Seq(Tokens) /\ Len(body) = n /\ \A i \in 1 .. n : body[i] = e(i)
      BY <1>2, <3>1, <3>2
    <3> QED
      BY <2>2, <3>3 DEF e
  <2> QED
    BY <2>1, <2>2
<1>5. pad \in Seq(Tokens) /\ Len(pad) = m /\ \A i \in 1 .. m : pad[i] = Token
  BY <1>1
<1>6. ChunkBytes(c, k) = (head \o body) \o pad
  BY DEF ChunkBytes
<1>7. Extent(c) = HeaderSize + n + m
  BY Sizes DEF Extent, Chunks
<1> HIDE DEF head, body, pad, n, m
<1>8. /\ head \o body \in Seq(Tokens) /\ Len(head \o body) = HeaderSize + n
      /\ \A i \in 1 .. HeaderSize + n : (head \o body)[i] = IF i <= HeaderSize THEN head[i] ELSE body[i - HeaderSize]
  <2>0. head \in Seq(Tokens) /\ body \in Seq(Tokens)
    BY <1>3, <1>4
  <2>1. /\ head \o body \in Seq(Tokens) /\ Len(head \o body) = Len(head) + Len(body)
        /\ \A i \in 1 .. Len(head) + Len(body) : (head \o body)[i] = IF i <= Len(head) THEN head[i] ELSE body[i - Len(head)]
    BY <2>0, ConcatProperties
  <2>2. Len(head) = HeaderSize /\ Len(body) = n
    BY <1>3, <1>4
  <2> QED
    BY <2>1, <2>2
<1>9. /\ ChunkBytes(c, k) \in Seq(Tokens) /\ Len(ChunkBytes(c, k)) = HeaderSize + n + m
      /\ \A i \in 1 .. HeaderSize + n + m :
           ChunkBytes(c, k)[i] = IF i <= HeaderSize + n THEN (head \o body)[i] ELSE pad[i - (HeaderSize + n)]
  <2> DEFINE q == head \o body
  <2>1. q \in Seq(Tokens) /\ Len(q) = HeaderSize + n
    BY <1>8
  <2> HIDE DEF q
  <2>2. /\ q \o pad \in Seq(Tokens) /\ Len(q \o pad) = Len(q) + Len(pad)
        /\ \A i \in 1 .. Len(q) + Len(pad) : (q \o pad)[i] = IF i <= Len(q) THEN q[i] ELSE pad[i - Len(q)]
    BY <1>5, <2>1, ConcatProperties
  <2>3. ChunkBytes(c, k) = q \o pad
    BY <1>6 DEF q
  <2>4. Len(pad) = m
    BY <1>5
  <2>5. \A i \in 1 .. HeaderSize + n + m : ChunkBytes(c, k)[i] = IF i <= HeaderSize + n THEN q[i] ELSE pad[i - (HeaderSize + n)]
    BY <2>1, <2>2, <2>3, <2>4
  <2> QED
    BY <2>1, <2>2, <2>3, <2>4, <2>5 DEF q
<1>10. ASSUME NEW i \in 1 .. Extent(c) PROVE ChunkBytes(c, k)[i] = Nth(c, k, i)
  <2>0. i \in 1 .. HeaderSize + n + m
    BY <1>7
  <2>1. CASE i <= HeaderSize
    BY <1>2, <1>3, <1>8, <1>9, <2>0, <2>1 DEF Nth
  <2>2. CASE i > HeaderSize /\ i <= HeaderSize + n
    <3>1. i - HeaderSize \in 1 .. n
      BY <1>2, <2>2
    <3>2. ChunkBytes(c, k)[i] = body[i - HeaderSize]
      <4>1. ChunkBytes(c, k)[i] = (head \o body)[i]
        BY <1>9, <2>0, <2>2
      <4>2. i \in 1 .. HeaderSize + n /\ ~(i <= HeaderSize)
        BY <1>2, <2>0, <2>2
      <4> QED
        BY <1>8, <4>1, <4>2
    <3>3. CASE c.id = "RIFF"
      BY <1>2, <1>4, <2>2, <3>1, <3>2, <3>3 DEF Nth
    <3>4. CASE c.id # "RIFF"
      <4>1. ~(i <= HeaderSize) /\ ~(i > HeaderSize + c.size)
        BY <1>2, <2>2, <3>4 DEF n
      <4> QED
        BY <1>4, <3>1, <3>2, <3>4, <4>1 DEF Nth
    <3> QED
      BY <3>3, <3>4
  <2>3. CASE i > HeaderSize + n
    <3>1. m = 1 /\ i - (HeaderSize + n) = 1
      BY <1>2, <2>0, <2>3
    <3>2. c.id # "RIFF" /\ n = c.size
      BY <3>1 DEF m, n
    <3>3. ChunkBytes(c, k)[i] = Token
      BY <1>2, <1>5, <1>9, <2>0, <2>3, <3>1
    <3>4. ~(i <= HeaderSize) /\ i > HeaderSize + c.size
      BY <1>2, <2>3, <3>2
    <3> QED
      BY <3>3, <3>4 DEF Nth
  <2> QED
    BY <1>2, <2>0, <2>1, <2>2, <2>3
<1> QED
  BY <1>2, <1>7, <1>9, <1>10

\* The chunks of a file, its bytes and where each chunk begins.
Parts(c) == [k \in DOMAIN c |-> ChunkBytes(c[k], k)]
Begins(c, off) == Layout(Parts(c), off, WavFile(c))

LEMMA PartsAre ==
  ASSUME NEW c, Wave(c)
  PROVE  /\ Len(c) \in Nat \ {0} /\ DOMAIN c = 1 .. Len(c)
         /\ Len(Parts(c)) = Len(c) /\ Parts(c) # <<>> /\ Parts(c) \in Seq(Seq(Tokens))
         /\ \A k \in 1 .. Len(c) : /\ c[k] \in Chunks
                                   /\ Parts(c)[k] = ChunkBytes(c[k], k)
                                   /\ Len(Parts(c)[k]) = Extent(c[k]) /\ Extent(c[k]) \in Nat
<1>1. c \in Seq(Chunks) /\ c # <<>>
  BY DEF Wave, Chunks
<1>2. Len(c) \in Nat \ {0} /\ DOMAIN c = 1 .. Len(c) /\ \A k \in 1 .. Len(c) : c[k] \in Chunks
  BY <1>1
<1>3. \A k \in 1 .. Len(c) : /\ Parts(c)[k] = ChunkBytes(c[k], k) /\ ChunkBytes(c[k], k) \in Seq(Tokens)
                             /\ Len(ChunkBytes(c[k], k)) = Extent(c[k]) /\ Extent(c[k]) \in Nat
  BY <1>2, ChunkIs DEF Parts
<1>4. Parts(c) = [k \in 1 .. Len(c) |-> Parts(c)[k]]
  BY <1>2 DEF Parts
<1>5. Parts(c) \in Seq(Seq(Tokens)) /\ Len(Parts(c)) = Len(c)
  <2> DEFINE s == Parts(c)
             n == Len(c)
  <2>1. s = [k \in 1 .. n |-> s[k]] /\ n \in Nat /\ \A k \in 1 .. n : s[k] \in Seq(Tokens)
    BY <1>2, <1>3, <1>4
  <2> HIDE DEF s, n
  <2>2. s \in Seq(Seq(Tokens)) /\ Len(s) = n
    BY <2>1
  <2> QED
    BY <2>2 DEF s, n
<1> QED
  BY <1>2, <1>3, <1>5

LEMMA FileIs ==
  ASSUME NEW c, Wave(c)
  PROVE  /\ WavFile(c) \in Seq(Tokens)
         /\ \E off : Begins(c, off)
         /\ \A off : Begins(c, off) =>
              /\ off[1] = 0 /\ Len(WavFile(c)) = off[Len(c) + 1]
              /\ \A k \in 1 .. Len(c) + 1 : off[k] \in Nat
              /\ \A k \in 1 .. Len(c) : off[k + 1] = off[k] + Extent(c[k])
              /\ \A k \in 1 .. Len(c) : \A i \in 1 .. Extent(c[k]) :
                   WavFile(c)[off[k] + i] = Nth(c[k], k, i)
<1>1. WavFile(c) = FlattenSeq(Parts(c))
  BY DEF WavFile, Parts
<1>2. WavFile(c) \in Seq(Tokens) /\ \E off : Begins(c, off)
  BY <1>1, PartsAre, FlattenLayout DEF Begins
<1>3. ASSUME NEW off, Begins(c, off)
      PROVE  /\ off[1] = 0 /\ Len(WavFile(c)) = off[Len(c) + 1]
             /\ \A k \in 1 .. Len(c) + 1 : off[k] \in Nat
             /\ \A k \in 1 .. Len(c) : off[k + 1] = off[k] + Extent(c[k])
             /\ \A k \in 1 .. Len(c) : \A i \in 1 .. Extent(c[k]) :
                  WavFile(c)[off[k] + i] = Nth(c[k], k, i)
  <2>1. /\ off \in [1 .. Len(c) + 1 -> Nat] /\ off[1] = 0 /\ Len(WavFile(c)) = off[Len(c) + 1]
        /\ \A k \in 1 .. Len(c) : off[k + 1] = off[k] + Extent(c[k])
    BY <1>3, PartsAre DEF Begins, Layout
  <2>2. ASSUME NEW k \in 1 .. Len(c), NEW i \in 1 .. Extent(c[k])
        PROVE  WavFile(c)[off[k] + i] = Nth(c[k], k, i)
    <3>1. WavFile(c)[off[k] + i] = Parts(c)[k][i]
      BY <1>3, PartsAre DEF Begins, Layout
    <3>2. c[k] \in Chunks /\ k \in Nat /\ Parts(c)[k] = ChunkBytes(c[k], k)
      BY PartsAre
    <3> QED
      BY <3>1, <3>2, ChunkIs
  <2> QED
    BY <2>1, <2>2
<1> QED
  BY <1>2, <1>3

\* The samples of a file are those of its chunks, one behind the other.
SamplesIn(c) ==
  [k \in DOMAIN c |-> IF c[k].id = "data" THEN [i \in 1 .. c[k].size |-> <<k, i>>] ELSE <<>>]

LEMMA SamplesWell ==
  ASSUME NEW c, Wave(c)
  PROVE  /\ Len(c) \in Nat \ {0} /\ DOMAIN c = 1 .. Len(c)
         /\ SamplesIn(c) \in Seq(Seq(Points)) /\ Len(SamplesIn(c)) = Len(c)
         /\ Samples(c) = FlattenSeq(SamplesIn(c)) /\ Samples(c) \in Seq(Points)
<1> DEFINE s == SamplesIn(c)
           Part(k) == IF c[k].id = "data" THEN [i \in 1 .. c[k].size |-> <<k, i>>] ELSE <<>>
<1>1. Len(c) \in Nat \ {0} /\ DOMAIN c = 1 .. Len(c) /\ \A k \in 1 .. Len(c) : c[k] \in Chunks
  BY PartsAre
<1>2. \A k \in 1 .. Len(c) : Part(k) \in Seq(Points)
  <2> TAKE k \in 1 .. Len(c)
  <2>1. c[k].size \in Nat /\ k \in Nat
    BY <1>1 DEF Chunks
  <2>2. [i \in 1 .. c[k].size |-> <<k, i>>] \in Seq(Points)
    <3> DEFINE e(i) == <<k, i>>
               n == c[k].size
    <3>1. n \in Nat /\ \A i \in 1 .. n : e(i) \in Points
      BY <2>1 DEF Points
    <3> HIDE DEF e, n
    <3>2. [i \in 1 .. n |-> e(i)] \in Seq(Points)
      BY <3>1
    <3> QED
      BY <3>2 DEF e, n
  <2> QED
    BY <2>2
<1>3. \A k \in 1 .. Len(c) : s[k] = Part(k)
  BY <1>1 DEF SamplesIn
<1>4. s \in Seq(Seq(Points)) /\ Len(s) = Len(c)
  <2> HIDE DEF Part
  <2> DEFINE n == Len(c)
  <2>1. s = [k \in 1 .. n |-> s[k]] /\ n \in Nat /\ \A k \in 1 .. n : s[k] \in Seq(Points)
    BY <1>1, <1>2, <1>3 DEF SamplesIn
  <2> HIDE DEF s, n
  <2>2. s \in Seq(Seq(Points)) /\ Len(s) = n
    BY <2>1
  <2> QED
    BY <2>2 DEF n
<1>5. Samples(c) = FlattenSeq(s)
  BY DEF Samples, SamplesIn
<1> HIDE DEF s, Part
<1>6. FlattenSeq(s) \in Seq(Points)
  BY <1>1, <1>4, FlattenLayout
<1> QED
  BY <1>1, <1>4, <1>5, <1>6 DEF s

\* The samples of a file with a data chunk are those of that chunk.
LEMMA SamplesAre ==
  ASSUME NEW c, Wave(c), NEW d \in DOMAIN c, c[d].id = "data"
  PROVE  Samples(c) = [i \in 1 .. c[d].size |-> <<d, i>>]
<1> DEFINE s == SamplesIn(c)
           size == c[d].size
<1>1. Len(c) \in Nat \ {0} /\ DOMAIN c = 1 .. Len(c) /\ \A k \in 1 .. Len(c) : c[k] \in Chunks
  BY PartsAre
<1>2. size \in Nat /\ d \in 1 .. Len(c)
  BY <1>1 DEF Chunks
<1>3. \A k \in 1 .. Len(c) : k # d => c[k].id # "data"
  BY <1>1 DEF Wave
<1>4. \A k \in 1 .. Len(c) :
        s[k] = IF c[k].id = "data" THEN [i \in 1 .. c[k].size |-> <<k, i>>] ELSE <<>>
  BY <1>1 DEF SamplesIn
<1>5. s \in Seq(Seq(Points)) /\ Len(s) = Len(c)
  BY SamplesWell
<1>6. s[d] = [i \in 1 .. size |-> <<d, i>>] /\ Len(s[d]) = size
  BY <1>2, <1>4
<1>7. \A k \in 1 .. Len(c) : k # d => Len(s[k]) = 0
  BY <1>1, <1>3 DEF SamplesIn
<1>8. Samples(c) = FlattenSeq(s)
  BY SamplesWell
<1> HIDE DEF s, size
<1>9. PICK off : Layout(s, off, FlattenSeq(s))
  BY <1>1, <1>5, FlattenLayout
<1>10. FlattenSeq(s) \in Seq(Points)
  BY <1>8, SamplesWell
<1> DEFINE Past(n) == off[n + 1] = IF n + 1 <= d THEN 0 ELSE size
           S == {n \in 0 .. Len(c) : Past(n)}
<1>11. /\ off[1] = 0 /\ \A k \in 1 .. Len(c) : off[k + 1] = off[k] + Len(s[k])
       /\ Len(FlattenSeq(s)) = off[Len(c) + 1]
       /\ \A i \in 1 .. Len(s[d]) : FlattenSeq(s)[off[d] + i] = s[d][i]
  BY <1>2, <1>5, <1>9 DEF Layout
<1>12. 0 \in S
  BY <1>1, <1>2, <1>11
<1>13. ASSUME NEW n \in 0 .. Len(c) - 1, n \in S PROVE n + 1 \in S
  <2>1. n + 1 \in 1 .. Len(c) /\ n + 1 \in 0 .. Len(c) /\ n \in Nat
    BY <1>1
  <2>2. off[(n + 1) + 1] = off[n + 1] + Len(s[n + 1])
    BY <1>11, <2>1
  <2>3. CASE n + 1 < d
    BY <1>2, <1>7, <1>13, <2>1, <2>2, <2>3
  <2>4. CASE n + 1 = d
    BY <1>2, <1>6, <1>13, <2>1, <2>2, <2>4
  <2>5. CASE n + 1 > d
    BY <1>2, <1>7, <1>13, <2>1, <2>2, <2>5
  <2> QED
    BY <1>2, <2>1, <2>3, <2>4, <2>5
<1>14. \A n \in 0 .. Len(c) : Past(n)
  <2> HIDE DEF S, Past
  <2>1. \A n \in 0 .. Len(c) : n \in S
    BY <1>1, <1>12, <1>13, Climb
  <2> QED
    BY <2>1 DEF S
<1>15. off[d] = 0 /\ off[Len(c) + 1] = size
  <2>1. d - 1 \in 0 .. Len(c) /\ (d - 1) + 1 = d /\ Len(c) \in 0 .. Len(c) /\ ~(Len(c) + 1 <= d)
    BY <1>1, <1>2
  <2>2. Past(d - 1) /\ Past(Len(c))
    BY <1>14, <2>1
  <2> QED
    BY <1>2, <2>1, <2>2
<1> DEFINE f == FlattenSeq(s)
<1>16. f \in Seq(Points) /\ Len(f) = size /\ \A i \in 1 .. size : f[i] = <<d, i>>
  <2>1. \A i \in 1 .. size : f[0 + i] = s[d][i] /\ 0 + i = i
    BY <1>2, <1>6, <1>11, <1>15
  <2>2. \A i \in 1 .. size : s[d][i] = <<d, i>>
    BY <1>6
  <2> QED
    BY <1>10, <1>11, <1>15, <2>1, <2>2
<1> HIDE DEF f
<1>17. f = [i \in 1 .. size |-> <<d, i>>]
  <2>1. f = [i \in 1 .. Len(f) |-> f[i]]
    BY <1>16
  <2> QED
    BY <1>16, <2>1
<1> QED
  BY <1>8, <1>17 DEF f, size

-----------------------------------------------------------------------------
(* wav_parser.c: what the parser knows at a position of the file.          *)

Parsers ==
  [header : Nat, id : Ids, fmtUsed : Nat, remaining : Int, pad : BOOLEAN, padAfter : BOOLEAN,
   riff : BOOLEAN, tail : Nat, fmt : BOOLEAN, rate : Nat, data : BOOLEAN, inData : BOOLEAN]

HasFmt(c, n) == \E j \in 1 .. n : c[j].id = "fmt"
HasData(c, n) == \E j \in 1 .. n : c[j].id = "data"



\* What the headers of the first n chunks have said, and passed.
Seen(p, c, n) ==
  /\ p.riff <=> n > 0
  /\ p.data <=> HasData(c, n)
  /\ n > 0 => c[1].id = "RIFF" /\ c[1].size >= TailSize
  /\ \A j \in 1 .. n :
       /\ c[j].id = "data" => c[j].size > 0 /\ ~Odd(c[j].size) /\ HasFmt(c, j)
       /\ c[j].id = "fmt" => c[j].size = FmtSize

\* What the fmt payload among the first n chunks has said.
Known(p, c, n) ==
  /\ p.fmt <=> HasFmt(c, n)
  /\ \A j \in 1 .. n : c[j].id = "fmt" => p.rate = c[j].rate /\ p.rate \in KnownRates

\* o bytes into the header of chunk k.
AtHeader(p, c, k, o) ==
  /\ p \in Parsers /\ Seen(p, c, k - 1) /\ Known(p, c, k - 1)
  /\ p.header = o /\ p.tail = 0 /\ p.remaining = 0
  /\ ~p.inData /\ ~p.pad /\ ~p.padAfter
  /\ ~p.fmt => p.fmtUsed = 0

\* i bytes behind the header of chunk k, and not at its end.
AtPayload(p, c, k, i) ==
  /\ p \in Parsers /\ Seen(p, c, k) /\ Known(p, c, k - 1)
  /\ p.header = 0 /\ p.id = c[k].id
  /\ \/ /\ c[k].id = "RIFF" /\ p.tail = TailSize - i /\ p.remaining = 0
        /\ ~p.inData /\ ~p.pad /\ ~p.padAfter
        /\ ~p.fmt => p.fmtUsed = 0
     \/ /\ c[k].id # "RIFF" /\ i < c[k].size
        /\ p.tail = 0 /\ p.remaining = c[k].size - i /\ ~p.pad
        /\ p.inData <=> c[k].id = "data"
        /\ p.padAfter <=> c[k].id \notin {"data", "fmt"} /\ Odd(c[k].size)
        /\ ~p.fmt => p.fmtUsed = IF c[k].id = "fmt" THEN i ELSE 0
     \/ /\ c[k].id # "RIFF" /\ i = c[k].size /\ Odd(c[k].size) /\ c[k].id \notin {"data", "fmt"}
        /\ p.tail = 0 /\ p.remaining = 0 /\ p.pad
        /\ ~p.inData /\ ~p.padAfter
        /\ ~p.fmt => p.fmtUsed = 0

\* Behind byte i of the payload: inside of it, or at the next header.
Behind(p, c, k, i) ==
  IF HeaderSize + i < Extent(c[k]) THEN AtPayload(p, c, k, i) ELSE AtHeader(p, c, k + 1, 0)

\* The samples it has handed on.
DataOf(c) == CHOOSE d \in DOMAIN c : c[d].id = "data"
Count(p, c) ==
  IF ~p.data THEN 0 ELSE c[DataOf(c)].size - (IF p.inData THEN p.remaining ELSE 0)

\* What it has learnt stays.
Learns(p, q) == (p.data => q.data) /\ (p.fmt => q.fmt /\ q.rate = p.rate)

LEMMA DataIs ==
  ASSUME NEW c, Wave(c), NEW d \in DOMAIN c, c[d].id = "data"
  PROVE  DataOf(c) = d
<1>1. DataOf(c) \in DOMAIN c /\ c[DataOf(c)].id = "data"
  BY DEF DataOf
<1> QED
  BY <1>1 DEF Wave

\* What a parser has seen and knows is in four of its fields.
LEMMA SeenSame ==
  ASSUME NEW p, NEW q, NEW c, NEW n, Seen(p, c, n), q.riff = p.riff, q.data = p.data
  PROVE  Seen(q, c, n)
  BY Zenon DEF Seen

LEMMA KnownSame ==
  ASSUME NEW p, NEW q, NEW c, NEW n, Known(p, c, n), q.fmt = p.fmt, q.rate = p.rate
  PROVE  Known(q, c, n)
  BY Zenon DEF Known

\* The next chunk may be the fmt or the data chunk.
LEMMA HasNext ==
  ASSUME NEW c, NEW k \in Nat \ {0}
  PROVE  /\ 1 .. k = (1 .. k - 1) \cup {k}
         /\ HasFmt(c, k) <=> HasFmt(c, k - 1) \/ c[k].id = "fmt"
         /\ HasData(c, k) <=> HasData(c, k - 1) \/ c[k].id = "data"
         /\ ~HasFmt(c, 0) /\ ~HasData(c, 0)
<1>1. 1 .. k = (1 .. k - 1) \cup {k} /\ 1 .. 0 = {}
  OBVIOUS
<1> DEFINE A == 1 .. k - 1
           B == 1 .. k
           Z == 1 .. 0
<1>2. B = A \cup {k} /\ Z = {}
  BY <1>1
<1>3. /\ HasFmt(c, k) <=> \E j \in B : c[j].id = "fmt"
      /\ HasFmt(c, k - 1) <=> \E j \in A : c[j].id = "fmt"
      /\ HasData(c, k) <=> \E j \in B : c[j].id = "data"
      /\ HasData(c, k - 1) <=> \E j \in A : c[j].id = "data"
      /\ HasFmt(c, 0) <=> \E j \in Z : c[j].id = "fmt"
      /\ HasData(c, 0) <=> \E j \in Z : c[j].id = "data"
  BY Zenon DEF HasFmt, HasData
<1> HIDE DEF A, B, Z
<1> QED
  BY <1>1, <1>2, <1>3, Zenon

\* A sound file, said of its chunks.
LEMMA SoundSays ==
  ASSUME NEW c, Sound(c)
  PROVE  /\ c[1].id = "RIFF" /\ c[1].size >= TailSize
         /\ \E k \in DOMAIN c : c[k].id = "data"
         /\ \A k \in DOMAIN c :
              /\ c[k].id = "data" => c[k].size > 0 /\ ~Odd(c[k].size) /\ HasFmt(c, k)
              /\ c[k].id = "fmt" => c[k].size = FmtSize /\ c[k].rate = PlayRate
<1>1. \A k \in DOMAIN c : c[k].id = "data" => \E j \in 1 .. k : c[j].id = "fmt"
  BY DEF Sound
<1>2. \A k \in DOMAIN c : c[k].id = "data" => HasFmt(c, k)
  BY <1>1, Zenon DEF HasFmt
<1>3. \A k \in DOMAIN c : /\ c[k].id = "data" => c[k].size > 0 /\ ~Odd(c[k].size)
                          /\ c[k].id = "fmt" => c[k].size = FmtSize /\ c[k].rate = PlayRate
  BY DEF Sound
<1>4. /\ c[1].id = "RIFF" /\ c[1].size >= TailSize
      /\ \E k \in DOMAIN c : c[k].id = "data"
  BY DEF Sound
<1> QED
  BY <1>2, <1>3, <1>4, Zenon

\* Behind a chunk.
LEMMA AtHeaderIs ==
  ASSUME NEW p \in Parsers, NEW c, NEW k \in Nat, NEW o,
         Seen(p, c, k), Known(p, c, k), p.header = o, p.tail = 0, p.remaining = 0,
         ~p.inData, ~p.pad, ~p.padAfter, ~p.fmt => p.fmtUsed = 0
  PROVE AtHeader(p, c, k + 1, o)
<1>1. k + 1 - 1 = k
  OBVIOUS
<1>2. Seen(p, c, k + 1 - 1) /\ Known(p, c, k + 1 - 1)
  BY <1>1
<1> QED
  BY <1>2 DEF AtHeader

\* A header byte that is not the last.
LEMMA HeaderByte ==
  ASSUME NEW c, NEW k \in Nat \ {0}, NEW o \in Nat, NEW p, NEW t, AtHeader(p, c, k, o), o + 1 < HeaderSize
  PROVE  \E q : /\ Consumed(p, t) = <<q, "ok">> /\ AtHeader(q, c, k, o + 1)
                /\ Learns(p, q) /\ q.data = p.data /\ q.inData = p.inData
<1> DEFINE q == [p EXCEPT !.header = @ + 1]
<1>1. /\ p \in Parsers /\ p.header = o /\ p.tail = 0 /\ ~p.pad /\ p.remaining = 0
  BY DEF AtHeader
<1>2. Consumed(p, t) = <<q, "ok">>
  BY <1>1 DEF Consumed, Parsers
<1>3. /\ q \in Parsers /\ q.header = o + 1
      /\ q.riff = p.riff /\ q.data = p.data /\ q.fmt = p.fmt /\ q.rate = p.rate /\ q.tail = p.tail
      /\ q.remaining = p.remaining /\ q.inData = p.inData /\ q.pad = p.pad
      /\ q.padAfter = p.padAfter /\ q.fmtUsed = p.fmtUsed
  BY <1>1 DEF Parsers
<1> HIDE DEF q
<1>4. Seen(q, c, k - 1) /\ Known(q, c, k - 1)
  BY <1>3, SeenSame, KnownSame DEF AtHeader
<1>5. AtHeader(q, c, k, o + 1)
  BY <1>3, <1>4 DEF AtHeader
<1> QED
  BY <1>2, <1>3, <1>5 DEF Learns

\* The last one: an error leaves the parser as it was, and the file is unsound.
LEMMA HeaderEnd ==
  ASSUME NEW c, Wave(c), NEW k \in DOMAIN c, NEW p, NEW t,
         AtHeader(p, c, k, HeaderSize - 1), t.id = c[k].id, t.size = c[k].size
  PROVE  \/ Consumed(p, t) = <<p, "error">> /\ ~Sound(c)
         \/ \E q : /\ Consumed(p, t) = <<q, "ok">> /\ Behind(q, c, k, 0) /\ Learns(p, q)
                   /\ Count(q, c) = Count(p, c)
<1>0. /\ Len(c) \in Nat /\ DOMAIN c = 1 .. Len(c) /\ c[k] \in Chunks /\ c[k].size \in Nat /\ c[k].id \in STRING
  BY PartsAre DEF Chunks
<1>1. /\ p \in Parsers /\ p.header = HeaderSize - 1 /\ p.tail = 0 /\ ~p.pad /\ p.remaining = 0
      /\ Seen(p, c, k - 1) /\ Known(p, c, k - 1) /\ ~p.inData /\ ~p.padAfter /\ (~p.fmt => p.fmtUsed = 0)
  BY DEF AtHeader
<1>2. Consumed(p, t) = Header(p, t)
  BY <1>1, Sizes DEF Consumed
<1>3. k \in Nat \ {0} /\ k - 1 \in Nat /\ (k - 1 > 0 <=> k > 1) /\ (k - 1 = 0 <=> k = 1)
  BY <1>0
<1>4. \A j \in 1 .. k - 1 : j \in DOMAIN c /\ j # k
  BY <1>0, <1>3
<1>14. \A j \in 1 .. k - 1 : c[k].id \in {"RIFF", "fmt", "data"} => c[j].id # c[k].id
  BY <1>4 DEF Wave
<1> DEFINE q == [p EXCEPT !.header = 0, !.id = t.id]
<1>5. CASE ~p.riff
  <2>1. k = 1
    <3>1. ~(k - 1 > 0)
      BY <1>1, <1>5 DEF Seen
    <3> QED
      BY <1>3, <3>1
  <2>2. CASE t.id # "RIFF" \/ ~(t.size >= TailSize)
    <3>1. ~(c[1].size >= TailSize) \/ c[1].id # "RIFF"
      BY <2>1, <2>2
    <3>2. ~Sound(c)
      BY <3>1, SoundSays
    <3>3. t.id # "RIFF" \/ t.size < TailSize
      BY <1>0, <2>2, Sizes
    <3>4. Header(p, t) = <<p, "error">>
      BY <1>5, <3>3 DEF Header
    <3> QED
      BY <1>2, <3>2, <3>4
  <2>3. CASE ~(t.id # "RIFF" \/ ~(t.size >= TailSize))
    <3> DEFINE r == [q EXCEPT !.riff = TRUE, !.tail = TailSize]
    <3>0. ~(t.id # "RIFF" \/ t.size < TailSize)
      BY <1>0, <2>3, Sizes
    <3>1. Consumed(p, t) = <<r, "ok">>
      BY <1>2, <1>5, <3>0 DEF Header
    <3>2. /\ r \in Parsers /\ r.header = 0 /\ r.id = c[k].id /\ r.riff = TRUE /\ r.tail = TailSize
          /\ r.data = p.data /\ r.fmt = p.fmt /\ r.rate = p.rate
          /\ r.remaining = p.remaining /\ r.inData = p.inData /\ r.pad = p.pad
          /\ r.padAfter = p.padAfter /\ r.fmtUsed = p.fmtUsed
      BY <1>0, <1>1, Sizes DEF Parsers, Ids
    <3> HIDE DEF r, q
    <3>3. c[1].id = "RIFF" /\ c[1].size >= TailSize
      BY <2>1, <2>3
    <3>4. Seen(r, c, 1)
      <4>1. r.data <=> HasData(c, 1)
        <5>1. k - 1 = 0 /\ 1 \in Nat \ {0} /\ 1 - 1 = 0
          BY <2>1
        <5>2. p.data <=> HasData(c, 0)
          BY <1>1, <5>1 DEF Seen
        <5>5. ~HasData(c, 0) /\ (HasData(c, 1) <=> HasData(c, 1 - 1) \/ c[1].id = "data")
          BY <5>1, HasNext
        <5>3. ~HasData(c, 0) /\ (HasData(c, 1) <=> HasData(c, 0) \/ c[1].id = "data")
          BY <5>1, <5>5
        <5>4. c[1].id # "data"
          BY <3>3
        <5> QED
          BY <3>2, <5>2, <5>3, <5>4
      <4>2. \A j \in 1 .. 1 : c[j].id # "data" /\ c[j].id # "fmt"
        <5>1. \A j \in 1 .. 1 : j = 1
          OBVIOUS
        <5>2. c[1].id # "data" /\ c[1].id # "fmt"
          BY <3>3
        <5> QED
          BY <5>1, <5>2, Zenon
      <4>3. r.riff <=> 1 > 0
        BY <3>2
      <4> QED
        BY <3>3, <4>1, <4>2, <4>3 DEF Seen
    <3>5. AtPayload(r, c, 1, 0)
      <4>1. 1 - 1 = k - 1 /\ TailSize = TailSize - 0
        BY <2>1, Sizes
      <4>2. Known(r, c, 1 - 1)
        BY <1>1, <3>2, <4>1, KnownSame
      <4> QED
        BY <1>1, <2>1, <3>2, <3>3, <3>4, <4>1, <4>2 DEF AtPayload
    <3>6. Behind(r, c, k, 0)
      BY <2>1, <3>3, <3>5, Sizes DEF Behind, Extent
    <3>7. Learns(p, r) /\ Count(r, c) = Count(p, c)
      BY <3>2 DEF Learns, Count
    <3> QED
      BY <3>1, <3>6, <3>7
  <2> QED
    BY <2>2, <2>3
<1>6. CASE p.riff
  <2>0. k > 1 /\ c[1].id = "RIFF" /\ c[1].size >= TailSize /\ c[k].id # "RIFF"
    <3>1. k - 1 > 0
      BY <1>1, <1>6 DEF Seen
    <3>2. c[1].id = "RIFF" /\ c[1].size >= TailSize
      BY <1>1, <3>1 DEF Seen
    <3>3. k > 1 /\ 1 \in 1 .. k - 1
      BY <1>3, <3>1
    <3>4. c[k].id = "RIFF" => c[1].id # c[k].id
      BY <1>14, <3>3
    <3> QED
      BY <3>2, <3>3, <3>4
  <2>9. /\ HasFmt(c, k) <=> HasFmt(c, k - 1) \/ c[k].id = "fmt"
        /\ HasData(c, k) <=> HasData(c, k - 1) \/ c[k].id = "data"
        /\ 1 .. k = (1 .. k - 1) \cup {k}
    BY <1>3, HasNext
  <2>8. (p.fmt <=> HasFmt(c, k - 1)) /\ (p.data <=> HasData(c, k - 1))
    BY <1>1 DEF Known, Seen
  <2>1. CASE t.id = "data" /\ (~p.fmt \/ t.size = 0 \/ Odd(t.size))
    <3>1. Consumed(p, t) = <<p, "error">>
      BY <1>2, <1>6, <2>1 DEF Header
    <3>2. ~p.fmt => ~HasFmt(c, k)
      BY <2>1, <2>8, <2>9
    <3>3. ~Sound(c)
      <4>1. ASSUME Sound(c) PROVE c[k].size > 0 /\ ~Odd(c[k].size) /\ HasFmt(c, k)
        BY <2>1, <4>1, SoundSays
      <4> QED
        BY <1>0, <2>1, <3>2, <4>1
    <3> QED
      BY <3>1, <3>3
  <2>2. CASE t.id = "fmt" /\ t.size # FmtSize
    <3>1. t.id # "data"
      BY <2>2
    <3>2. Consumed(p, t) = <<p, "error">>
      BY <1>2, <1>6, <2>2, <3>1 DEF Header
    <3>3. ~Sound(c)
      <4>1. ASSUME Sound(c) PROVE c[k].size = FmtSize
        BY <2>2, <4>1, SoundSays
      <4> QED
        BY <2>2, <4>1
    <3> QED
      BY <3>2, <3>3
  <2>3. CASE /\ ~(t.id = "data" /\ (~p.fmt \/ t.size = 0 \/ Odd(t.size)))
             /\ ~(t.id = "fmt" /\ t.size # FmtSize)
    <3> DEFINE known == t.id \in {"data", "fmt"}
               later == IF known THEN p.padAfter ELSE Padded(t)
               now == (t.id = "data")
               had == (p.data \/ t.id = "data")
               r == [q EXCEPT !.remaining = t.size, !.data = had, !.inData = now, !.padAfter = later]
    <3>1. Consumed(p, t) = <<r, "ok">>
      BY <1>2, <1>6, <2>3 DEF Header
    <3>10. now \in BOOLEAN /\ had \in BOOLEAN /\ later \in BOOLEAN /\ t.size \in Int /\ t.id \in Ids
      <4>1. now \in BOOLEAN /\ had \in BOOLEAN
        OBVIOUS
      <4>2. later \in BOOLEAN
        <5>1. p.padAfter \in BOOLEAN /\ Padded(t) \in BOOLEAN
          BY <1>1 DEF Parsers, Padded, Odd
        <5> QED
          BY <5>1
      <4>3. t.size \in Int /\ t.id \in Ids
        <5>1. t.size \in Nat /\ t.id \in STRING
          BY <1>0, Zenon
        <5>2. t.size \in Int
          BY <5>1
        <5> QED
          BY <5>1, <5>2, Zenon DEF Ids
      <4> QED
        BY <4>1, <4>2, <4>3
    <3>11. later <=> c[k].id \notin {"data", "fmt"} /\ Odd(c[k].size)
      BY <1>1 DEF Padded
    <3> HIDE DEF known, later, now, had
    <3>2. /\ r \in Parsers /\ r.header = 0 /\ r.id = c[k].id /\ r.riff = p.riff /\ r.tail = p.tail
          /\ r.data = had /\ r.fmt = p.fmt /\ r.rate = p.rate
          /\ r.remaining = c[k].size /\ r.inData = now /\ r.pad = p.pad
          /\ r.padAfter = later /\ r.fmtUsed = p.fmtUsed
      BY ZenonT(40), <1>0, <1>1, <3>10 DEF Parsers
    <3>12. (r.inData <=> c[k].id = "data") /\ (r.data <=> p.data \/ c[k].id = "data")
      BY <3>2 DEF now, had
    <3> HIDE DEF r, q
    <3>3. /\ c[k].id = "data" => c[k].size > 0 /\ ~Odd(c[k].size) /\ HasFmt(c, k)
          /\ c[k].id = "fmt" => c[k].size = FmtSize
      <4>1. p.fmt => HasFmt(c, k)
        BY <2>8, <2>9
      <4>2. c[k].size # 0 => c[k].size > 0
        BY <1>0
      <4> QED
        BY <2>3, <4>1, <4>2
    <3>4. Seen(r, c, k)
      <4>1. r.data <=> HasData(c, k)
        BY <2>8, <2>9, <3>12
      <4>2. \A j \in 1 .. k : /\ c[j].id = "data" => c[j].size > 0 /\ ~Odd(c[j].size) /\ HasFmt(c, j)
                              /\ c[j].id = "fmt" => c[j].size = FmtSize
        <5>1. \A j \in 1 .. k - 1 : /\ c[j].id = "data" => c[j].size > 0 /\ ~Odd(c[j].size) /\ HasFmt(c, j)
                                    /\ c[j].id = "fmt" => c[j].size = FmtSize
          BY <1>1, Zenon DEF Seen
        <5> QED
          BY <2>9, <3>3, <5>1, Zenon
      <4>3. r.riff <=> k > 0
        BY <1>3, <1>6, <3>2
      <4> QED
        BY <2>0, <4>1, <4>2, <4>3, Zenon DEF Seen
    <3>5. Known(r, c, k - 1)
      BY <1>1, <3>2, KnownSame
    <3>6. Behind(r, c, k, 0)
      <4>1. CASE c[k].size > 0
        <5>0. c[k].size = c[k].size - 0 /\ 0 < c[k].size
          BY <1>0, <4>1
        <5>1. /\ c[k].id # "RIFF" /\ 0 < c[k].size
              /\ r.tail = 0 /\ r.remaining = c[k].size - 0 /\ ~r.pad
              /\ r.inData <=> c[k].id = "data"
              /\ r.padAfter <=> c[k].id \notin {"data", "fmt"} /\ Odd(c[k].size)
              /\ ~r.fmt => r.fmtUsed = IF c[k].id = "fmt" THEN 0 ELSE 0
          BY <1>1, <2>0, <3>2, <3>11, <3>12, <5>0
        <5>2. AtPayload(r, c, k, 0)
          BY <3>2, <3>4, <3>5, <5>1, Zenon DEF AtPayload
        <5>3. HeaderSize + 0 < Extent(c[k])
          BY <1>0, <2>0, <4>1, Sizes DEF Extent
        <5> QED
          BY <5>2, <5>3 DEF Behind
      <4>2. CASE c[k].size = 0
        <5>1. c[k].id # "data" /\ c[k].id # "fmt"
          <6>1. ~(c[k].size > 0) /\ c[k].size # FmtSize
            BY <4>2, Sizes
          <6> QED
            BY <3>3, <6>1, Zenon
        <5>2. ~Odd(c[k].size) /\ Extent(c[k]) = HeaderSize
          BY <2>0, <4>2, Sizes DEF Extent, Odd
        <5>3. Known(r, c, k)
          <6>1. r.fmt <=> HasFmt(c, k)
            BY <2>8, <2>9, <3>2, <5>1
          <6>2. \A j \in 1 .. k - 1 : c[j].id = "fmt" => r.rate = c[j].rate /\ r.rate \in KnownRates
            BY <3>5, Zenon DEF Known
          <6>3. \A j \in 1 .. k : c[j].id = "fmt" => r.rate = c[j].rate /\ r.rate \in KnownRates
            BY <2>9, <5>1, <6>2, Zenon
          <6> QED
            BY <6>1, <6>3, Zenon DEF Known
        <5>4. AtHeader(r, c, k + 1, 0)
          <6>1. ~r.padAfter /\ ~r.inData
            BY <3>2, <3>11, <3>12, <5>1, <5>2
          <6>2. r.tail = 0 /\ r.remaining = 0 /\ ~r.pad /\ (~r.fmt => r.fmtUsed = 0)
            BY <1>1, <3>2, <4>2
          <6> QED
            BY <1>3, <3>2, <3>4, <5>3, <6>1, <6>2, AtHeaderIs
        <5>5. ~(HeaderSize + 0 < Extent(c[k]))
          BY <5>2, Sizes
        <5> QED
          BY <5>4, <5>5 DEF Behind
      <4> QED
        BY <1>0, <4>1, <4>2
    <3>7. Count(r, c) = Count(p, c)
      <4>1. CASE c[k].id = "data"
        <5>1. ~p.data
          <6>1. ~HasData(c, k - 1)
            BY <1>14, <4>1 DEF HasData
          <6> QED
            BY <2>8, <6>1
        <5>2. DataOf(c) = k
          BY <4>1, DataIs
        <5> QED
          BY <1>0, <3>2, <3>12, <4>1, <5>1, <5>2 DEF Count
      <4>2. CASE c[k].id # "data"
        BY <1>1, <3>12, <4>2 DEF Count
      <4> QED
        BY <4>1, <4>2
    <3>8. Learns(p, r)
      BY <3>2, <3>12 DEF Learns
    <3> QED
      BY <3>1, <3>6, <3>7, <3>8
  <2> QED
    BY <2>1, <2>2, <2>3
<1> QED
  BY <1>5, <1>6

\* The chunk behind has brought no fmt payload.
LEMMA KnownNext ==
  ASSUME NEW p, NEW c, NEW k \in Nat \ {0}, Known(p, c, k - 1), c[k].id # "fmt"
  PROVE  Known(p, c, k)
<1>1. /\ HasFmt(c, k) <=> HasFmt(c, k - 1)
      /\ 1 .. k = (1 .. k - 1) \cup {k}
  BY HasNext
<1>2. /\ p.fmt <=> HasFmt(c, k - 1)
      /\ \A j \in 1 .. k - 1 : c[j].id = "fmt" => p.rate = c[j].rate /\ p.rate \in KnownRates
  BY Zenon DEF Known
<1>3. \A j \in 1 .. k : c[j].id = "fmt" => p.rate = c[j].rate /\ p.rate \in KnownRates
  BY <1>1, <1>2, Zenon
<1> QED
  BY <1>1, <1>2, <1>3, Zenon DEF Known

\* Only one chunk is the fmt chunk, and only one the data chunk.
LEMMA NotBefore ==
  ASSUME NEW c, Wave(c), NEW k \in DOMAIN c
  PROVE  /\ k \in Nat \ {0} /\ c[k] \in Chunks /\ c[k].size \in Nat
         /\ c[k].id = "fmt" => ~HasFmt(c, k - 1)
         /\ c[k].id = "data" => ~HasData(c, k - 1)
<1>1. /\ Len(c) \in Nat /\ DOMAIN c = 1 .. Len(c) /\ c[k] \in Chunks /\ c[k].size \in Nat
  BY PartsAre DEF Chunks
<1>2. k \in Nat \ {0} /\ \A j \in 1 .. k - 1 : j \in DOMAIN c /\ j # k
  BY <1>1
<1>3. \A j \in 1 .. k - 1 : c[k].id \in {"RIFF", "fmt", "data"} => c[j].id # c[k].id
  BY <1>2 DEF Wave
<1> QED
  BY <1>1, <1>2, <1>3 DEF HasFmt, HasData

\* A byte of RIFF's form type.
LEMMA TailByte ==
  ASSUME NEW c, Wave(c), NEW k \in DOMAIN c, NEW i \in Nat, HeaderSize + i < Extent(c[k]),
         NEW p, NEW t, AtPayload(p, c, k, i), c[k].id = "RIFF"
  PROVE  \E q : /\ Consumed(p, t) = <<q, "ok">> /\ Behind(q, c, k, i + 1)
                /\ Learns(p, q) /\ Count(q, c) = Count(p, c)
<1>1. /\ p \in Parsers /\ Seen(p, c, k) /\ Known(p, c, k - 1) /\ p.header = 0 /\ p.id = c[k].id
      /\ p.tail = TailSize - i /\ p.remaining = 0 /\ ~p.inData /\ ~p.pad /\ ~p.padAfter
      /\ (~p.fmt => p.fmtUsed = 0)
  BY DEF AtPayload
<1>2. Extent(c[k]) = HeaderSize + TailSize /\ i < TailSize /\ i + 1 \in Nat /\ (i + 1 < TailSize \/ i + 1 = TailSize)
  <2>1. Extent(c[k]) = HeaderSize + TailSize
    BY DEF Extent
  <2> QED
    BY <2>1, Sizes
<1>3. p.tail \in Nat /\ p.tail > 0 /\ p.tail - 1 = TailSize - (i + 1) /\ p.tail - 1 \in Nat
  BY <1>1, <1>2, Sizes
<1> DEFINE q == [p EXCEPT !.tail = @ - 1]
<1>4. Consumed(p, t) = <<q, "ok">>
  BY <1>3 DEF Consumed
<1>5. /\ q \in Parsers /\ q.tail = TailSize - (i + 1) /\ q.header = p.header /\ q.id = p.id
      /\ q.riff = p.riff /\ q.data = p.data /\ q.fmt = p.fmt /\ q.rate = p.rate
      /\ q.remaining = p.remaining /\ q.inData = p.inData /\ q.pad = p.pad
      /\ q.padAfter = p.padAfter /\ q.fmtUsed = p.fmtUsed
  BY <1>1, <1>3 DEF Parsers
<1> HIDE DEF q
<1>6. Seen(q, c, k) /\ Known(q, c, k - 1)
  BY <1>1, <1>5, SeenSame, KnownSame
<1>7. k \in Nat \ {0}
  BY NotBefore
<1>8. Behind(q, c, k, i + 1)
  <2>1. CASE i + 1 < TailSize
    <3>1. HeaderSize + (i + 1) < Extent(c[k])
      BY <1>2, <2>1, Sizes
    <3>2. /\ q.tail = TailSize - (i + 1) /\ q.remaining = 0 /\ ~q.inData /\ ~q.pad /\ ~q.padAfter
          /\ (~q.fmt => q.fmtUsed = 0) /\ q.header = 0 /\ q.id = c[k].id
      BY <1>1, <1>5
    <3>3. AtPayload(q, c, k, i + 1)
      BY <1>5, <1>6, <3>2, Zenon DEF AtPayload
    <3> QED
      BY <3>1, <3>3 DEF Behind
  <2>2. CASE i + 1 = TailSize
    <3>1. ~(HeaderSize + (i + 1) < Extent(c[k])) /\ TailSize - (i + 1) = 0
      BY <1>2, <2>2, Sizes
    <3>2. Known(q, c, k)
      BY <1>6, <1>7, KnownNext
    <3>3. /\ q.tail = 0 /\ q.remaining = 0 /\ ~q.inData /\ ~q.pad /\ ~q.padAfter
          /\ (~q.fmt => q.fmtUsed = 0) /\ q.header = 0
      BY <1>1, <1>5, <3>1
    <3>4. AtHeader(q, c, k + 1, 0)
      BY <1>5, <1>6, <1>7, <3>2, <3>3, AtHeaderIs
    <3> QED
      BY <3>1, <3>4 DEF Behind
  <2> QED
    BY <1>2, <2>1, <2>2
<1>9. Learns(p, q) /\ Count(q, c) = Count(p, c)
  BY <1>5 DEF Learns, Count
<1> QED
  BY <1>4, <1>8, <1>9

\* The pad byte.
LEMMA PadByte ==
  ASSUME NEW c, Wave(c), NEW k \in DOMAIN c, NEW i \in Nat, HeaderSize + i < Extent(c[k]),
         NEW p, NEW t, AtPayload(p, c, k, i), c[k].id # "RIFF", i = c[k].size
  PROVE  \E q : /\ Consumed(p, t) = <<q, "ok">> /\ Behind(q, c, k, i + 1)
                /\ Learns(p, q) /\ Count(q, c) = Count(p, c)
<1>0. k \in Nat \ {0} /\ c[k].size \in Nat /\ ~(i < c[k].size)
  BY NotBefore
<1>1. /\ p \in Parsers /\ Seen(p, c, k) /\ Known(p, c, k - 1) /\ p.header = 0 /\ p.id = c[k].id
      /\ p.tail = 0 /\ p.remaining = 0 /\ ~p.inData /\ p.pad /\ ~p.padAfter
      /\ (~p.fmt => p.fmtUsed = 0) /\ c[k].id # "fmt"
  BY <1>0 DEF AtPayload
<1> DEFINE q == [p EXCEPT !.pad = FALSE]
<1>2. Consumed(p, t) = <<q, "ok">>
  <2>1. p.tail = 0 /\ ~(p.tail > 0) /\ p.pad
    BY <1>1
  <2> QED
    BY <2>1, Zenon DEF Consumed
<1>3. /\ q \in Parsers /\ q.tail = p.tail /\ q.header = p.header
      /\ q.riff = p.riff /\ q.data = p.data /\ q.fmt = p.fmt /\ q.rate = p.rate
      /\ q.remaining = p.remaining /\ q.inData = p.inData /\ q.pad = FALSE
      /\ q.padAfter = p.padAfter /\ q.fmtUsed = p.fmtUsed
  BY <1>1 DEF Parsers
<1> HIDE DEF q
<1>4. Seen(q, c, k) /\ Known(q, c, k - 1)
  BY <1>1, <1>3, SeenSame, KnownSame
<1>5. Known(q, c, k)
  BY <1>0, <1>1, <1>4, KnownNext
<1>6. AtHeader(q, c, k + 1, 0)
  <2>1. /\ q.tail = 0 /\ q.remaining = 0 /\ ~q.inData /\ ~q.pad /\ ~q.padAfter
        /\ (~q.fmt => q.fmtUsed = 0) /\ q.header = 0
    BY <1>1, <1>3
  <2> QED
    BY <1>0, <1>3, <1>4, <1>5, <2>1, AtHeaderIs
<1>7. ~(HeaderSize + (i + 1) < Extent(c[k]))
  BY <1>0, Sizes DEF Extent
<1>8. Behind(q, c, k, i + 1)
  BY <1>6, <1>7 DEF Behind
<1>9. Learns(p, q) /\ Count(q, c) = Count(p, c)
  BY <1>3 DEF Learns, Count
<1> QED
  BY <1>2, <1>8, <1>9

\* A byte of the fmt payload; the last one may be refused.
LEMMA FmtByte ==
  ASSUME NEW c, Wave(c), NEW k \in DOMAIN c, NEW i \in Nat, HeaderSize + i < Extent(c[k]),
         NEW p, NEW t, AtPayload(p, c, k, i), c[k].id = "fmt", t.rate = c[k].rate
  PROVE  \E q : /\ q \in Parsers
                /\ \/ Consumed(p, t) = <<q, "error">> /\ ~Sound(c)
                   \/ Consumed(p, t) = <<q, "ok">> /\ Behind(q, c, k, i + 1)
                /\ Learns(p, q) /\ Count(q, c) = Count(p, c)
<1>0. k \in Nat \ {0} /\ c[k].size \in Nat /\ ~HasFmt(c, k - 1) /\ c[k].rate \in Nat
  BY NotBefore DEF Chunks
<1>1. /\ p \in Parsers /\ Seen(p, c, k) /\ Known(p, c, k - 1) /\ p.header = 0 /\ p.id = c[k].id
      /\ p.tail = 0 /\ p.remaining = c[k].size - i /\ i < c[k].size /\ ~p.inData /\ ~p.pad /\ ~p.padAfter
      /\ (~p.fmt => p.fmtUsed = i)
  BY DEF AtPayload
<1>2. ~p.fmt
  BY <1>0, <1>1 DEF Known
<1>3. c[k].size = FmtSize
  <2>1. k \in 1 .. k
    BY <1>0
  <2> QED
    BY <1>1, <2>1 DEF Seen
<1>4. /\ Extent(c[k]) = HeaderSize + FmtSize /\ i + 1 \in Nat /\ (i + 1 < FmtSize \/ i + 1 = FmtSize)
      /\ p.remaining = FmtSize - i /\ p.remaining - 1 = FmtSize - (i + 1) /\ p.remaining > 0
  <2>1. Extent(c[k]) = HeaderSize + FmtSize
    BY <1>0, <1>3, Sizes DEF Extent
  <2> QED
    BY <1>1, <1>3, <2>1, Sizes
<1>5. Consumed(p, t) = Payload(p, t)
  BY <1>1, <1>4 DEF Consumed
<1> DEFINE r == [p EXCEPT !.remaining = @ - 1]
           q == [r EXCEPT !.fmtUsed = @ + 1]
<1>6. /\ q \in Parsers /\ q.tail = p.tail /\ q.header = p.header /\ q.id = p.id
      /\ q.riff = p.riff /\ q.data = p.data /\ q.fmt = p.fmt /\ q.rate = p.rate
      /\ q.remaining = FmtSize - (i + 1) /\ q.inData = p.inData /\ q.pad = p.pad
      /\ q.padAfter = p.padAfter /\ q.fmtUsed = i + 1
  <2> DEFINE m == p.remaining - 1
             u == p.fmtUsed + 1
  <2>1. m \in Int /\ u \in Nat /\ m = FmtSize - (i + 1) /\ u = i + 1
    BY <1>1, <1>2, <1>4 DEF Parsers
  <2>2. q = [p EXCEPT !.remaining = m, !.fmtUsed = u]
    BY <1>1 DEF Parsers
  <2> HIDE DEF q, m, u
  <2> QED
    BY <1>1, <2>1, <2>2 DEF Parsers
<1>7. Learns(p, q) /\ Count(q, c) = Count(p, c)
  <2> HIDE DEF q
  <2> QED
    BY <1>1, <1>6 DEF Learns, Count
<1>8. CASE i + 1 < FmtSize
  <2>1. Payload(p, t) = <<q, "ok">>
    BY <1>1, <1>2, <1>8 DEF Payload
  <2> HIDE DEF q
  <2>2. Seen(q, c, k) /\ Known(q, c, k - 1)
    BY <1>1, <1>6, SeenSame, KnownSame
  <2>3. /\ c[k].id # "RIFF" /\ i + 1 < c[k].size
        /\ q.tail = 0 /\ q.remaining = c[k].size - (i + 1) /\ ~q.pad
        /\ (q.inData <=> c[k].id = "data")
        /\ (q.padAfter <=> c[k].id \notin {"data", "fmt"} /\ Odd(c[k].size))
        /\ (~q.fmt => q.fmtUsed = IF c[k].id = "fmt" THEN i + 1 ELSE 0)
    BY <1>1, <1>3, <1>6, <1>8
  <2>4. AtPayload(q, c, k, i + 1)
    <3>1. q.header = 0 /\ q.id = c[k].id
      BY <1>1, <1>6
    <3> QED
      BY <1>6, <2>2, <2>3, <3>1, Zenon DEF AtPayload
  <2>5. HeaderSize + (i + 1) < Extent(c[k])
    BY <1>4, <1>8, Sizes
  <2>6. Behind(q, c, k, i + 1)
    BY <2>4, <2>5 DEF Behind
  <2> QED
    BY <1>5, <1>6, <1>7, <2>1, <2>6
<1>9. CASE i + 1 = FmtSize
  <2>0. ~(i + 1 < FmtSize)
    BY <1>9, Sizes
  <2>1. CASE t.rate \notin KnownRates
    <3>1. Payload(p, t) = <<q, "error">>
      BY <1>1, <1>2, <2>0, <2>1 DEF Payload
    <3>2. ~Sound(c)
      <4>1. PlayRate \in KnownRates
        BY DEF PlayRate, KnownRates
      <4>2. ASSUME Sound(c) PROVE c[k].rate = PlayRate
        BY <4>2, SoundSays
      <4> QED
        BY <2>1, <4>1, <4>2
    <3> QED
      BY <1>5, <1>6, <1>7, <3>1, <3>2
  <2>2. CASE t.rate \in KnownRates
    <3> DEFINE f == [q EXCEPT !.fmt = TRUE, !.rate = t.rate]
    <3>1. Payload(p, t) = <<f, "ok">>
      BY <1>1, <1>2, <2>0, <2>2 DEF Payload
    <3> HIDE DEF q
    <3>2. /\ f \in Parsers /\ f.tail = q.tail /\ f.header = q.header /\ f.id = q.id
          /\ f.riff = q.riff /\ f.data = q.data /\ f.fmt = TRUE /\ f.rate = c[k].rate
          /\ f.remaining = q.remaining /\ f.inData = q.inData /\ f.pad = q.pad
          /\ f.padAfter = q.padAfter
      BY <1>0, <1>6 DEF Parsers
    <3> HIDE DEF f
    <3>3. Seen(f, c, k)
      BY <1>1, <1>6, <3>2, SeenSame
    <3>4. Known(f, c, k)
      <4>1. HasFmt(c, k) /\ 1 .. k = (1 .. k - 1) \cup {k}
        BY <1>0, HasNext
      <4>2. \A j \in 1 .. k - 1 : c[j].id # "fmt"
        BY <1>0 DEF HasFmt
      <4>3. f.rate = c[k].rate /\ f.rate \in KnownRates
        BY <2>2, <3>2
      <4>4. \A j \in 1 .. k : c[j].id = "fmt" => f.rate = c[j].rate /\ f.rate \in KnownRates
        BY <4>1, <4>2, <4>3, Zenon
      <4> QED
        BY <3>2, <4>1, <4>4, Zenon DEF Known
    <3>5. AtHeader(f, c, k + 1, 0)
      <4>1. FmtSize - (i + 1) = 0
        BY <1>9, Sizes
      <4>2. /\ f.tail = 0 /\ f.remaining = 0 /\ ~f.inData /\ ~f.pad /\ ~f.padAfter /\ f.header = 0
        BY <1>1, <1>6, <3>2, <4>1
      <4> QED
        BY <1>0, <3>2, <3>3, <3>4, <4>2, AtHeaderIs
    <3>6. ~(HeaderSize + (i + 1) < Extent(c[k]))
      BY <1>4, <1>9, Sizes
    <3>7. Behind(f, c, k, i + 1)
      BY <3>5, <3>6 DEF Behind
    <3>8. Learns(p, f) /\ Count(f, c) = Count(p, c)
      BY <1>1, <1>2, <1>6, <3>2 DEF Learns, Count
    <3> QED
      BY <1>5, <3>1, <3>2, <3>7, <3>8
  <2> QED
    BY <2>1, <2>2
<1> QED
  BY <1>4, <1>8, <1>9

\* A byte of a chunk that is skipped.
LEMMA SkippedByte ==
  ASSUME NEW c, Wave(c), NEW k \in DOMAIN c, NEW i \in Nat, HeaderSize + i < Extent(c[k]),
         NEW p, NEW t, AtPayload(p, c, k, i), c[k].id \notin {"RIFF", "fmt", "data"}, i < c[k].size
  PROVE  \E q : /\ Consumed(p, t) = <<q, "ok">> /\ Behind(q, c, k, i + 1)
                /\ Learns(p, q) /\ Count(q, c) = Count(p, c)
<1>0. k \in Nat \ {0} /\ c[k].size \in Nat
  BY NotBefore
<1>1. /\ p \in Parsers /\ Seen(p, c, k) /\ Known(p, c, k - 1) /\ p.header = 0 /\ p.id = c[k].id
      /\ p.tail = 0 /\ p.remaining = c[k].size - i /\ ~p.inData /\ ~p.pad
      /\ (p.padAfter <=> Odd(c[k].size)) /\ (~p.fmt => p.fmtUsed = 0)
  <2>1. i # c[k].size
    BY <1>0
  <2> QED
    BY <2>1 DEF AtPayload
<1>2. /\ i + 1 \in Nat /\ (i + 1 < c[k].size \/ i + 1 = c[k].size)
      /\ p.remaining - 1 = c[k].size - (i + 1) /\ p.remaining > 0
      /\ (p.remaining - 1 = 0 <=> i + 1 = c[k].size)
  BY <1>0, <1>1
<1> DEFINE r == [p EXCEPT !.remaining = @ - 1]
           padded == i + 1 = c[k].size /\ Odd(c[k].size)
           q == IF padded THEN [r EXCEPT !.pad = TRUE, !.padAfter = FALSE] ELSE r
<1>3. Consumed(p, t) = Payload(p, t)
  BY <1>1, <1>2 DEF Consumed
<1>4. Payload(p, t) = <<q, "ok">>
  <2>1. p.id # "fmt" /\ r.remaining = p.remaining - 1
    BY <1>1 DEF Parsers
  <2>2. (r.remaining = 0 /\ p.padAfter) <=> padded
    BY <1>1, <1>2, <2>1
  <2> HIDE DEF padded
  <2> QED
    BY <2>1, <2>2 DEF Payload
<1>5. /\ q \in Parsers /\ q.tail = p.tail /\ q.header = p.header /\ q.id = p.id
      /\ q.riff = p.riff /\ q.data = p.data /\ q.fmt = p.fmt /\ q.rate = p.rate
      /\ q.remaining = c[k].size - (i + 1) /\ q.inData = p.inData /\ q.fmtUsed = p.fmtUsed
      /\ (q.pad <=> padded) /\ (q.padAfter <=> Odd(c[k].size) /\ ~padded)
  <2>1. CASE padded
    <3>1. q = [r EXCEPT !.pad = TRUE, !.padAfter = FALSE]
      BY <2>1
    <3> DEFINE m == p.remaining - 1
    <3>2. m \in Int /\ m = c[k].size - (i + 1) /\ Odd(c[k].size)
      BY <1>0, <1>1, <1>2, <2>1 DEF Parsers
    <3>3. q = [p EXCEPT !.remaining = m, !.pad = TRUE, !.padAfter = FALSE]
      BY <1>1, <3>1 DEF Parsers
    <3> HIDE DEF padded, q, m
    <3> QED
      BY <1>1, <2>1, <3>2, <3>3 DEF Parsers
  <2>2. CASE ~padded
    <3>1. q = r
      BY <2>2
    <3> HIDE DEF padded
    <3> QED
      BY <1>0, <1>1, <1>2, <2>2, <3>1 DEF Parsers
  <2> QED
    BY <2>1, <2>2
<1> HIDE DEF q
<1>6. Seen(q, c, k) /\ Known(q, c, k - 1)
  BY <1>1, <1>5, SeenSame, KnownSame
<1>7. q.header = 0 /\ q.id = c[k].id /\ q.tail = 0 /\ ~q.inData /\ (~q.fmt => q.fmtUsed = 0)
  BY <1>1, <1>5
<1>8. Behind(q, c, k, i + 1)
  <2>1. CASE i + 1 < c[k].size
    <3>1. ~padded
      BY <1>0, <2>1
    <3>2. HeaderSize + (i + 1) < Extent(c[k])
      BY <1>0, <2>1, Sizes DEF Extent
    <3>3. /\ c[k].id # "RIFF" /\ q.tail = 0 /\ q.remaining = c[k].size - (i + 1) /\ ~q.pad
          /\ (q.inData <=> c[k].id = "data")
          /\ (q.padAfter <=> c[k].id \notin {"data", "fmt"} /\ Odd(c[k].size))
          /\ (~q.fmt => q.fmtUsed = IF c[k].id = "fmt" THEN i + 1 ELSE 0)
      BY <1>5, <1>7, <3>1
    <3>4. AtPayload(q, c, k, i + 1)
      BY <1>5, <1>6, <1>7, <2>1, <3>3, Zenon DEF AtPayload
    <3> QED
      BY <3>2, <3>4 DEF Behind
  <2>2. CASE i + 1 = c[k].size /\ Odd(c[k].size)
    <3>1. padded /\ c[k].size - (i + 1) = 0
      BY <1>0, <2>2
    <3>2. HeaderSize + (i + 1) < Extent(c[k])
      BY <1>0, <2>2, Sizes DEF Extent
    <3>3. /\ c[k].id # "RIFF" /\ c[k].id \notin {"data", "fmt"} /\ q.tail = 0 /\ q.remaining = 0 /\ q.pad
          /\ ~q.inData /\ ~q.padAfter /\ (~q.fmt => q.fmtUsed = 0)
      BY <1>5, <1>7, <3>1
    <3>4. AtPayload(q, c, k, i + 1)
      BY <1>5, <1>6, <1>7, <2>2, <3>3, Zenon DEF AtPayload
    <3> QED
      BY <3>2, <3>4 DEF Behind
  <2>3. CASE i + 1 = c[k].size /\ ~Odd(c[k].size)
    <3>1. ~padded /\ c[k].size - (i + 1) = 0
      BY <1>0, <2>3
    <3>2. ~(HeaderSize + (i + 1) < Extent(c[k]))
      BY <1>0, <2>3, Sizes DEF Extent
    <3>3. Known(q, c, k)
      BY <1>0, <1>6, KnownNext
    <3>4. AtHeader(q, c, k + 1, 0)
      <4>1. q.remaining = 0 /\ ~q.pad /\ ~q.padAfter
        BY <1>5, <2>3, <3>1
      <4> QED
        BY <1>0, <1>5, <1>6, <1>7, <3>3, <4>1, AtHeaderIs
    <3> QED
      BY <3>2, <3>4 DEF Behind
  <2> QED
    BY <1>2, <2>1, <2>2, <2>3
<1>9. Learns(p, q) /\ Count(q, c) = Count(p, c)
  BY <1>1, <1>5 DEF Learns, Count
<1> QED
  BY <1>3, <1>4, <1>8, <1>9

\* n bytes into chunk k, or at the header that follows it.
At(p, c, k, n) ==
  IF n < HeaderSize THEN AtHeader(p, c, k, n) ELSE AtPayload(p, c, k, n - HeaderSize)
After(p, c, k, n) == IF n < Extent(c[k]) THEN At(p, c, k, n) ELSE AtHeader(p, c, k + 1, 0)

LEMMA AfterIsParser ==
  ASSUME NEW p, NEW c, NEW k, NEW n, After(p, c, k, n)
  PROVE  p \in Parsers
  BY Zenon DEF After, At, AtHeader, AtPayload

\* wav_parser_feed takes a byte that is not PCM.
LEMMA ByteStep ==
  ASSUME NEW c, Wave(c), NEW k \in DOMAIN c, NEW n \in Nat, n < Extent(c[k]),
         NEW p, At(p, c, k, n), ~p.inData, NEW t, t = Nth(c[k], k, n + 1)
  PROVE  \E q : /\ q \in Parsers
                /\ \/ Consumed(p, t) = <<q, "error">> /\ ~Sound(c)
                   \/ Consumed(p, t) = <<q, "ok">> /\ After(q, c, k, n + 1)
                /\ Learns(p, q) /\ Count(q, c) = Count(p, c)
<1>0. /\ k \in Nat \ {0} /\ c[k] \in Chunks /\ c[k].size \in Nat
      /\ HeaderSize \in Nat \ {0} /\ Extent(c[k]) \in Nat /\ Extent(c[k]) >= HeaderSize
  BY NotBefore, ChunkIs, Sizes
<1>1. CASE n + 1 < HeaderSize
  <2>1. AtHeader(p, c, k, n)
    BY <1>0, <1>1 DEF At
  <2>2. PICK q : /\ Consumed(p, t) = <<q, "ok">> /\ AtHeader(q, c, k, n + 1)
                 /\ Learns(p, q) /\ q.data = p.data /\ q.inData = p.inData
    BY <1>0, <1>1, <2>1, HeaderByte
  <2>3. q \in Parsers /\ ~q.inData
    BY <2>2 DEF AtHeader
  <2>4. After(q, c, k, n + 1)
    BY <1>0, <1>1, <2>2 DEF After, At
  <2>5. Count(q, c) = Count(p, c)
    BY <2>2, <2>3 DEF Count
  <2> QED
    BY <2>2, <2>3, <2>4, <2>5
<1>2. CASE n + 1 = HeaderSize
  <2>1. AtHeader(p, c, k, HeaderSize - 1)
    <3>1. n < HeaderSize /\ n = HeaderSize - 1
      BY <1>0, <1>2
    <3> QED
      BY <3>1 DEF At
  <2>2. t.id = c[k].id /\ t.size = c[k].size
    <3>1. t = [Token EXCEPT !.id = c[k].id, !.size = c[k].size]
      BY <1>0, <1>2 DEF Nth
    <3> QED
      BY <3>1 DEF Token
  <2>3. p \in Parsers /\ Learns(p, p)
    BY <2>1 DEF AtHeader, Learns
  <2>4. ASSUME NEW q, Behind(q, c, k, 0) PROVE q \in Parsers /\ After(q, c, k, n + 1)
    <3>1. HeaderSize + 0 = n + 1 /\ ~(n + 1 < HeaderSize) /\ (n + 1) - HeaderSize = 0
      BY <1>0, <1>2
    <3>2. After(q, c, k, n + 1)
      BY <2>4, <3>1 DEF Behind, After, At
    <3> QED
      BY <3>2, AfterIsParser
  <2>5. CASE Consumed(p, t) = <<p, "error">> /\ ~Sound(c)
    BY <2>3, <2>5
  <2>6. CASE \E q : /\ Consumed(p, t) = <<q, "ok">> /\ Behind(q, c, k, 0) /\ Learns(p, q)
                    /\ Count(q, c) = Count(p, c)
    BY <2>4, <2>6
  <2> QED
    BY <2>1, <2>2, <2>5, <2>6, HeaderEnd
<1>3. CASE n + 1 > HeaderSize
  <2> DEFINE i == n - HeaderSize
  <2>0. i \in Nat /\ HeaderSize + i = n /\ HeaderSize + (i + 1) = n + 1 /\ ~(n < HeaderSize)
        /\ ~(n + 1 < HeaderSize) /\ (n + 1) - HeaderSize = i + 1
    BY <1>0, <1>3
  <2>1. AtPayload(p, c, k, i) /\ HeaderSize + i < Extent(c[k])
    BY <2>0 DEF At
  <2>2. ASSUME NEW q, Behind(q, c, k, i + 1) PROVE q \in Parsers /\ After(q, c, k, n + 1)
    <3>1. After(q, c, k, n + 1)
      BY <2>0, <2>2 DEF Behind, After, At
    <3> QED
      BY <3>1, AfterIsParser
  <2> HIDE DEF i
  <2>3. CASE c[k].id = "RIFF"
    BY <2>0, <2>1, <2>2, <2>3, TailByte
  <2>4. CASE c[k].id # "RIFF" /\ i = c[k].size
    BY <2>0, <2>1, <2>2, <2>4, PadByte
  <2>5. CASE c[k].id # "RIFF" /\ i # c[k].size
    <3>1. c[k].id # "data" /\ i < c[k].size
      <4>1. p.inData <=> c[k].id = "data"
        BY <2>1, <2>5 DEF AtPayload
      <4>2. i < c[k].size
        BY <2>1, <2>5 DEF AtPayload
      <4> QED
        BY <4>1, <4>2
    <3>2. CASE c[k].id = "fmt"
      <4>1. ~(n + 1 <= HeaderSize) /\ ~(n + 1 > HeaderSize + c[k].size)
        BY <1>0, <2>0, <3>1
      <4>2. t.rate = c[k].rate
        <5>1. Nth(c[k], k, n + 1) = [Token EXCEPT !.rate = c[k].rate, !.value = Token.value]
          BY <2>5, <3>2, <4>1 DEF Nth
        <5> QED
          BY <5>1 DEF Token
      <4>3. \E q : /\ q \in Parsers
                   /\ \/ Consumed(p, t) = <<q, "error">> /\ ~Sound(c)
                      \/ Consumed(p, t) = <<q, "ok">> /\ Behind(q, c, k, i + 1)
                   /\ Learns(p, q) /\ Count(q, c) = Count(p, c)
        <5>1. i \in Nat
          BY <2>0
        <5> QED
          BY <2>1, <3>2, <4>2, <5>1, FmtByte
      <4> QED
        BY <2>2, <4>3
    <3>3. CASE c[k].id # "fmt"
      BY <2>0, <2>1, <2>2, <2>5, <3>1, <3>3, SkippedByte
    <3> QED
      BY <3>2, <3>3
  <2> QED
    BY <2>3, <2>4, <2>5
<1> QED
  BY <1>0, <1>1, <1>2, <1>3

\* The rate is that of the fmt chunk.
Heard(p, c) == p.fmt /\ \E j \in DOMAIN c : c[j].id = "fmt" /\ p.rate = c[j].rate

\* The samples there are.
Total(c) == IF HasData(c, Len(c)) THEN c[DataOf(c)].size ELSE 0

\* A byte of PCM.
Handed(p) == [p EXCEPT !.remaining = @ - 1, !.inData = p.remaining > 1]

LEMMA DataByte ==
  ASSUME NEW c, Wave(c), NEW k \in DOMAIN c, NEW n \in Nat, n < Extent(c[k]),
         NEW p, At(p, c, k, n), p.inData, NEW t, t = Nth(c[k], k, n + 1)
  PROVE  /\ Heard(p, c) /\ t.value = <<DataOf(c), Count(p, c) + 1>>
         /\ After(Handed(p), c, k, n + 1) /\ Learns(p, Handed(p))
         /\ Count(p, c) \in Nat /\ Count(Handed(p), c) = Count(p, c) + 1 /\ Count(Handed(p), c) <= Total(c)
<1> DEFINE q == Handed(p)
<1> DEFINE i == n - HeaderSize
           size == c[k].size
<1>0. /\ k \in Nat \ {0} /\ c[k] \in Chunks /\ size \in Nat /\ k \in 1 .. Len(c)
      /\ Len(c) \in Nat /\ DOMAIN c = 1 .. Len(c) /\ HeaderSize \in Nat \ {0}
  BY NotBefore, PartsAre, Sizes
<1>1. ~(n < HeaderSize)
  BY DEF At, AtHeader
<1>2. AtPayload(p, c, k, i) /\ i \in Nat /\ (n + 1) - HeaderSize = i + 1 /\ ~(n + 1 < HeaderSize) /\ ~(n + 1 <= HeaderSize)
  BY <1>0, <1>1 DEF At
<1> HIDE DEF i
<1>3. /\ p \in Parsers /\ Seen(p, c, k) /\ Known(p, c, k - 1) /\ p.header = 0 /\ p.id = c[k].id
      /\ c[k].id = "data" /\ i < size /\ p.tail = 0 /\ p.remaining = size - i /\ ~p.pad /\ ~p.padAfter
      /\ (~p.fmt => p.fmtUsed = 0)
  BY <1>2 DEF AtPayload
<1>4. k \in 1 .. k /\ 1 .. k = (1 .. k - 1) \cup {k}
  BY <1>0
<1>5. size > 0 /\ ~Odd(size) /\ HasFmt(c, k)
  BY <1>3, <1>4 DEF Seen
<1>6. p.fmt /\ p.data
  <2>1. HasFmt(c, k - 1)
    BY <1>0, <1>3, <1>5, HasNext
  <2>2. HasData(c, k)
    BY <1>0, <1>3, HasNext
  <2>3. (p.fmt <=> HasFmt(c, k - 1)) /\ (p.data <=> HasData(c, k))
    BY <1>3, Zenon DEF Known, Seen
  <2> QED
    BY <2>1, <2>2, <2>3
<1>7. Heard(p, c)
  <2>1. PICK j \in 1 .. k - 1 : c[j].id = "fmt"
    BY <1>3, <1>6, Zenon DEF Known, HasFmt
  <2>2. p.rate = c[j].rate
    BY <1>3, <2>1, Zenon DEF Known
  <2>3. j \in DOMAIN c
    BY <1>0
  <2> QED
    BY <1>6, <2>1, <2>2, <2>3 DEF Heard
<1>8. DataOf(c) = k
  BY <1>3, DataIs
<1>9. Total(c) = size
  <2>1. HasData(c, Len(c))
    BY <1>0, <1>3 DEF HasData
  <2> QED
    BY <1>8, <2>1 DEF Total
<1>10. Count(p, c) = i
  <2>1. Count(p, c) = size - p.remaining
    BY <1>6, <1>8 DEF Count
  <2> QED
    BY <1>0, <1>2, <1>3, <2>1
<1>11. t.value = <<k, i + 1>>
  <2>1. ~(n + 1 > HeaderSize + size)
    BY <1>0, <1>2, <1>3
  <2> DEFINE v == <<k, i + 1>>
  <2>2. t = [Token EXCEPT !.rate = c[k].rate, !.value = v]
    BY <1>2, <1>3, <2>1 DEF Nth
  <2> HIDE DEF v
  <2>3. t.value = v
    BY <2>2 DEF Token
  <2> QED
    BY <2>3 DEF v
<1> DEFINE m == p.remaining - 1
           more == p.remaining > 1
<1>12. m \in Int /\ m = size - (i + 1) /\ more \in BOOLEAN /\ (more <=> i + 1 < size) /\ (i + 1 < size \/ i + 1 = size)
  <2> DEFINE e == p.remaining
  <2>1. e = size - i /\ size \in Nat /\ i \in Nat /\ i < size
    BY <1>0, <1>2, <1>3
  <2> HIDE DEF e, size
  <2>2. e - 1 \in Int /\ e - 1 = size - (i + 1) /\ (e > 1 <=> i + 1 < size) /\ (i + 1 < size \/ i + 1 = size)
    BY <2>1
  <2> QED
    BY <2>2 DEF e
<1>13. q = [p EXCEPT !.remaining = m, !.inData = more]
  BY <1>3 DEF Parsers, Handed
<1> HIDE DEF m, more, q
<1>14. /\ q \in Parsers /\ q.tail = p.tail /\ q.header = p.header /\ q.id = p.id
       /\ q.riff = p.riff /\ q.data = p.data /\ q.fmt = p.fmt /\ q.rate = p.rate
       /\ q.remaining = m /\ q.inData = more /\ q.pad = p.pad
       /\ q.padAfter = p.padAfter /\ q.fmtUsed = p.fmtUsed
  BY <1>3, <1>12, <1>13 DEF Parsers
<1>15. Seen(q, c, k) /\ Known(q, c, k - 1) /\ Learns(p, q)
  BY <1>3, <1>14, SeenSame, KnownSame DEF Learns
<1>16. Extent(c[k]) = HeaderSize + size
  BY <1>0, <1>3, <1>5 DEF Extent
<1>17. CASE i + 1 < size
  <2>1. n + 1 < Extent(c[k])
    BY <1>0, <1>2, <1>16, <1>17
  <2>2. /\ c[k].id # "RIFF" /\ q.tail = 0 /\ q.remaining = c[k].size - (i + 1) /\ ~q.pad
        /\ (q.inData <=> c[k].id = "data")
        /\ (q.padAfter <=> c[k].id \notin {"data", "fmt"} /\ Odd(c[k].size))
        /\ (~q.fmt => q.fmtUsed = IF c[k].id = "fmt" THEN i + 1 ELSE 0)
    BY <1>3, <1>12, <1>14, <1>17
  <2>3. q.header = 0 /\ q.id = c[k].id /\ i + 1 < c[k].size
    BY <1>3, <1>14, <1>17
  <2>4. AtPayload(q, c, k, i + 1)
    BY <1>14, <1>15, <2>2, <2>3, Zenon DEF AtPayload
  <2>5. After(q, c, k, n + 1)
    BY <1>2, <2>1, <2>4 DEF After, At
  <2>6. Count(q, c) = i + 1
    <3>1. Count(q, c) = size - m
      BY <1>6, <1>8, <1>12, <1>14, <1>17 DEF Count
    <3> QED
      BY <1>0, <1>2, <1>12, <3>1
  <2>7. i \in Nat /\ i + 1 <= size
    BY <1>2, <1>0, <1>17
  <2> QED
    BY <1>7, <1>8, <1>9, <1>10, <1>11, <1>15, <2>5, <2>6, <2>7 DEF q
<1>18. CASE i + 1 = size
  <2>1. ~(n + 1 < Extent(c[k]))
    BY <1>0, <1>2, <1>16, <1>18
  <2>2. Known(q, c, k)
    BY <1>0, <1>3, <1>15, KnownNext
  <2>3. q.tail = 0 /\ q.remaining = 0 /\ ~q.inData /\ ~q.pad /\ ~q.padAfter /\ q.header = 0 /\ (~q.fmt => q.fmtUsed = 0)
    <3>1. m = 0 /\ ~more
      <4> HIDE DEF size
      <4> QED
        BY <1>0, <1>2, <1>12, <1>18
    <3>2. q.remaining = 0 /\ ~q.inData
      BY <1>14, <3>1
    <3> QED
      BY <1>3, <1>6, <1>14, <3>2
  <2>4. AtHeader(q, c, k + 1, 0)
    BY <1>0, <1>14, <1>15, <2>2, <2>3, AtHeaderIs
  <2>5. After(q, c, k, n + 1)
    BY <2>1, <2>4 DEF After
  <2>6. Count(q, c) = size
    <3>1. Count(q, c) = size - 0
      BY <1>6, <1>8, <1>14, <2>3 DEF Count
    <3> QED
      BY <1>0, <3>1
  <2>7. i \in Nat /\ size <= size /\ size = i + 1
    BY <1>0, <1>2, <1>18
  <2> QED
    BY <1>7, <1>8, <1>9, <1>10, <1>11, <1>15, <2>5, <2>6, <2>7 DEF q
<1> QED
  BY <1>12, <1>17, <1>18

\* The parser stands n bytes into the file.
Pos(p, c, off, n) ==
  \/ \E k \in DOMAIN c : n - off[k] \in 0 .. Extent(c[k]) - 1 /\ At(p, c, k, n - off[k])
  \/ n = off[Len(c) + 1] /\ AtHeader(p, c, Len(c) + 1, 0)

LEMMA Offsets ==
  ASSUME NEW c, Wave(c), NEW off, Begins(c, off)
  PROVE  /\ off[1] = 0 /\ Len(WavFile(c)) = off[Len(c) + 1] /\ Len(c) \in Nat \ {0} /\ DOMAIN c = 1 .. Len(c)
         /\ WavFile(c) \in Seq(Tokens)
         /\ \A k \in DOMAIN c :
              /\ k \in Nat \ {0} /\ k <= Len(c) /\ off[k] \in Nat /\ off[k + 1] \in Nat
              /\ Extent(c[k]) \in Nat \ {0} /\ Extent(c[k]) >= HeaderSize
              /\ off[k + 1] = off[k] + Extent(c[k]) /\ off[k + 1] <= Len(WavFile(c))
              /\ \A i \in 1 .. Extent(c[k]) : WavFile(c)[off[k] + i] = Nth(c[k], k, i)
<1>1. Len(c) \in Nat \ {0} /\ DOMAIN c = 1 .. Len(c) /\ HeaderSize \in Nat \ {0}
  BY PartsAre, Sizes
<1>2. /\ WavFile(c) \in Seq(Tokens) /\ off[1] = 0 /\ Len(WavFile(c)) = off[Len(c) + 1]
      /\ \A k \in 1 .. Len(c) + 1 : off[k] \in Nat
      /\ \A k \in 1 .. Len(c) : off[k + 1] = off[k] + Extent(c[k])
      /\ \A k \in 1 .. Len(c) : \A i \in 1 .. Extent(c[k]) :
           WavFile(c)[off[k] + i] = Nth(c[k], k, i)
  BY FileIs
<1>3. ASSUME NEW k \in DOMAIN c
      PROVE  /\ k \in Nat \ {0} /\ k <= Len(c) /\ k \in 1 .. Len(c) /\ k + 1 \in 1 .. Len(c) + 1 /\ k \in 1 .. Len(c) + 1
             /\ Extent(c[k]) \in Nat \ {0} /\ Extent(c[k]) >= HeaderSize
  <2>1. k \in Nat \ {0} /\ k <= Len(c) /\ k \in 1 .. Len(c) /\ k + 1 \in 1 .. Len(c) + 1 /\ k \in 1 .. Len(c) + 1
    BY <1>1
  <2>2. Extent(c[k]) \in Nat /\ Extent(c[k]) >= HeaderSize
    BY <2>1, NotBefore, ChunkIs
  <2> QED
    BY <1>1, <2>1, <2>2
<1>4. ASSUME NEW k \in DOMAIN c PROVE off[k + 1] <= Len(WavFile(c))
  <2>1. Len(Parts(c)) = Len(c) /\ \A j \in 1 .. Len(c) : Len(Parts(c)[j]) \in Nat
    BY PartsAre
  <2>2. \A a \in 1 .. Len(c) + 1, b \in 1 .. Len(c) + 1 : a <= b => off[a] <= off[b]
    BY <1>1, <2>1, OffsetsGrow DEF Begins
  <2>3. k + 1 \in 1 .. Len(c) + 1 /\ Len(c) + 1 \in 1 .. Len(c) + 1 /\ k + 1 <= Len(c) + 1
    BY <1>1, <1>3
  <2> QED
    BY <1>2, <2>2, <2>3
<1> QED
  BY <1>1, <1>2, <1>3, <1>4

\* The byte that comes next belongs to a chunk.
LEMMA PosNext ==
  ASSUME NEW c, Wave(c), NEW off, Begins(c, off), NEW p, NEW n \in Nat, n < Len(WavFile(c)), Pos(p, c, off, n)
  PROVE  \E k \in DOMAIN c : \E m \in Nat :
           /\ m < Extent(c[k]) /\ n = off[k] + m /\ At(p, c, k, m)
           /\ WavFile(c)[n + 1] = Nth(c[k], k, m + 1)
<1>1. PICK k \in DOMAIN c : n - off[k] \in 0 .. Extent(c[k]) - 1 /\ At(p, c, k, n - off[k])
  <2>1. n # off[Len(c) + 1]
    BY Offsets
  <2> QED
    BY <2>1 DEF Pos
<1>2. off[k] \in Nat /\ Extent(c[k]) \in Nat
  BY Offsets
<1> DEFINE m == n - off[k]
<1>3. m \in Nat /\ m < Extent(c[k]) /\ n = off[k] + m /\ m + 1 \in 1 .. Extent(c[k]) /\ n + 1 = off[k] + (m + 1)
  BY <1>1, <1>2
<1>4. At(p, c, k, m)
  BY <1>1
<1> HIDE DEF m
<1>5. WavFile(c)[n + 1] = Nth(c[k], k, m + 1)
  BY SMTT(20), <1>3, Offsets
<1> QED
  BY <1>3, <1>4, <1>5

LEMMA PosAfter ==
  ASSUME NEW c, Wave(c), NEW off, Begins(c, off), NEW p, NEW k \in DOMAIN c, NEW m \in Nat,
         m < Extent(c[k]), NEW n \in Nat, n = off[k] + m, After(p, c, k, m + 1)
  PROVE  Pos(p, c, off, n + 1)
<1>0. /\ k \in Nat \ {0} /\ k <= Len(c) /\ off[k] \in Nat /\ Extent(c[k]) \in Nat
      /\ off[k + 1] = off[k] + Extent(c[k]) /\ Len(c) \in Nat /\ DOMAIN c = 1 .. Len(c)
  BY Offsets
<1>1. CASE m + 1 < Extent(c[k])
  <2>1. (n + 1) - off[k] = m + 1 /\ m + 1 \in 0 .. Extent(c[k]) - 1
    BY SMTT(20), <1>0, <1>1
  <2>2. At(p, c, k, m + 1)
    BY <1>1 DEF After
  <2> QED
    BY <2>1, <2>2 DEF Pos
<1>2. CASE ~(m + 1 < Extent(c[k]))
  <2>1. AtHeader(p, c, k + 1, 0)
    BY <1>2 DEF After
  <2>2. off[k + 1] = n + 1
    BY SMTT(20), <1>0, <1>2
  <2>3. CASE k = Len(c)
    BY <2>1, <2>2, <2>3 DEF Pos
  <2>4. CASE k # Len(c)
    <3>1. k + 1 \in DOMAIN c
      BY <1>0, <2>4
    <3>2. Extent(c[k + 1]) \in Nat \ {0} /\ off[k + 1] \in Nat
      BY <3>1, Offsets
    <3>3. (n + 1) - off[k + 1] = 0 /\ 0 \in 0 .. Extent(c[k + 1]) - 1
      BY <2>2, <3>2
    <3>4. At(p, c, k + 1, 0)
      BY <2>1, Sizes DEF At
    <3> QED
      BY <3>1, <3>3, <3>4 DEF Pos
  <2> QED
    BY <2>3, <2>4
<1> QED
  BY <1>1, <1>2

LEMMA PosStart ==
  ASSUME NEW c, Wave(c), NEW off, Begins(c, off)
  PROVE  Pos(NewParser, c, off, 0) /\ Count(NewParser, c) = 0
<1>1. 1 \in DOMAIN c /\ off[1] = 0 /\ Extent(c[1]) \in Nat \ {0}
  <2>1. 1 \in DOMAIN c
    BY Offsets
  <2> QED
    BY <2>1, Offsets
<1>2. NewParser \in Parsers
  BY DEF NewParser, Parsers, Ids
<1>3. Seen(NewParser, c, 1 - 1) /\ Known(NewParser, c, 1 - 1)
  <2>1. 1 - 1 = 0 /\ ~HasFmt(c, 0) /\ ~HasData(c, 0)
    <3>1. 1 \in Nat \ {0} /\ 1 - 1 = 0
      OBVIOUS
    <3>2. ~HasFmt(c, 0) /\ ~HasData(c, 0)
      BY <3>1, HasNext, Zenon
    <3> QED
      BY <3>1, <3>2
  <2>2. \A j \in 1 .. 0 : FALSE
    OBVIOUS
  <2>3. ~NewParser.riff /\ ~NewParser.data /\ ~NewParser.fmt /\ ~(0 > 0)
    BY DEF NewParser
  <2>4. Seen(NewParser, c, 0)
    BY <2>1, <2>2, <2>3, Zenon DEF Seen
  <2>5. Known(NewParser, c, 0)
    BY <2>1, <2>2, <2>3, Zenon DEF Known
  <2> QED
    BY <2>1, <2>4, <2>5
<1>4. AtHeader(NewParser, c, 1, 0)
  <2>1. /\ NewParser.header = 0 /\ NewParser.tail = 0 /\ NewParser.remaining = 0
        /\ ~NewParser.inData /\ ~NewParser.pad /\ ~NewParser.padAfter
        /\ (~NewParser.fmt => NewParser.fmtUsed = 0)
    BY DEF NewParser
  <2> QED
    BY <1>2, <1>3, <2>1, Zenon DEF AtHeader
<1>5. At(NewParser, c, 1, 0)
  BY <1>4, Sizes DEF At
<1>6. 0 - off[1] = 0 /\ 0 \in 0 .. Extent(c[1]) - 1
  BY <1>1
<1> QED
  BY <1>1, <1>5, <1>6 DEF Pos, Count, NewParser

\* What the parser has handed on there is to hand on.
LEMMA CountFits ==
  ASSUME NEW c, Wave(c), NEW off, Begins(c, off), NEW p, NEW n, Pos(p, c, off, n)
  PROVE  p \in Parsers /\ Count(p, c) \in 0 .. Total(c) /\ Total(c) \in Nat
<1>0. Len(c) \in Nat \ {0} /\ DOMAIN c = 1 .. Len(c)
  BY Offsets
<1>1. HasData(c, Len(c)) => DataOf(c) \in DOMAIN c /\ c[DataOf(c)].id = "data" /\ c[DataOf(c)].size \in Nat /\ Total(c) = c[DataOf(c)].size
  <2> SUFFICES ASSUME HasData(c, Len(c))
               PROVE  DataOf(c) \in DOMAIN c /\ c[DataOf(c)].id = "data" /\ c[DataOf(c)].size \in Nat /\ Total(c) = c[DataOf(c)].size
    OBVIOUS
  <2>1. PICK j \in 1 .. Len(c) : c[j].id = "data"
    BY DEF HasData
  <2>2. DataOf(c) = j
    BY <1>0, <2>1, DataIs
  <2> QED
    BY <1>0, <2>1, <2>2, NotBefore DEF Total
<1>2. Total(c) \in Nat
  BY <1>1 DEF Total
<1>3. ASSUME NEW m \in Nat, m <= Len(c), Seen(p, c, m) PROVE p.data => HasData(c, Len(c))
  <2>1. 1 .. m \subseteq 1 .. Len(c)
    BY <1>0, <1>3
  <2> QED
    BY <1>3, <2>1 DEF Seen, HasData
<1>4. ASSUME NEW m \in Nat, m <= Len(c), Seen(p, c, m), ~p.inData PROVE Count(p, c) \in 0 .. Total(c)
  <2>1. CASE ~p.data
    BY <1>2, <2>1 DEF Count
  <2>2. CASE p.data
    <3>1. HasData(c, Len(c))
      BY <1>3, <1>4, <2>2
    <3> QED
      BY <1>1, <1>4, <2>2, <3>1 DEF Count
  <2> QED
    BY <2>1, <2>2
<1>5. ASSUME NEW k, k \in Nat \ {0}, k <= Len(c) + 1, NEW o, AtHeader(p, c, k, o)
      PROVE  p \in Parsers /\ Count(p, c) \in 0 .. Total(c)
  <2>1. k - 1 \in Nat /\ k - 1 <= Len(c)
    BY <1>0, <1>5
  <2>2. p \in Parsers /\ Seen(p, c, k - 1) /\ ~p.inData
    BY <1>5, Zenon DEF AtHeader
  <2> QED
    BY <1>4, <2>1, <2>2
<1>6. ASSUME NEW k \in DOMAIN c, NEW i \in Nat, AtPayload(p, c, k, i)
      PROVE  p \in Parsers /\ Count(p, c) \in 0 .. Total(c)
  <2>1. k \in Nat /\ k <= Len(c) /\ k \in 1 .. Len(c)
    BY <1>0
  <2>2. p \in Parsers /\ Seen(p, c, k)
    BY <1>6, Zenon DEF AtPayload
  <2>3. CASE ~p.inData
    BY <1>4, <2>1, <2>2, <2>3
  <2>4. CASE p.inData
    <3>1. c[k].id = "data" /\ i < c[k].size /\ p.remaining = c[k].size - i
      BY <1>6, <2>4 DEF AtPayload
    <3>2. DataOf(c) = k /\ HasData(c, Len(c)) /\ HasData(c, k)
      <4>1. DataOf(c) = k
        BY <3>1, DataIs
      <4>2. HasData(c, Len(c))
        BY <2>1, <3>1, Zenon DEF HasData
      <4>3. k \in 1 .. k
        BY <1>0
      <4> QED
        BY <3>1, <4>1, <4>2, <4>3, Zenon DEF HasData
    <3>3. p.data
      BY <2>2, <3>2, Zenon DEF Seen
    <3>4. Count(p, c) = c[k].size - p.remaining /\ c[k].size \in Nat /\ Total(c) = c[k].size
      BY <1>1, <2>4, <3>2, <3>3 DEF Count
    <3>5. Count(p, c) = i
      BY <3>1, <3>4
    <3> QED
      BY <2>2, <3>1, <3>4, <3>5
  <2> QED
    BY <2>3, <2>4
<1>7. CASE \E k \in DOMAIN c : n - off[k] \in 0 .. Extent(c[k]) - 1 /\ At(p, c, k, n - off[k])
  <2>1. PICK k \in DOMAIN c : n - off[k] \in 0 .. Extent(c[k]) - 1 /\ At(p, c, k, n - off[k])
    BY <1>7
  <2> DEFINE m == n - off[k]
  <2>2. m \in Nat /\ k \in Nat \ {0} /\ k <= Len(c) + 1 /\ HeaderSize \in Nat
    BY <1>0, <2>1, Offsets, Sizes
  <2>3. At(p, c, k, m)
    BY <2>1
  <2> HIDE DEF m
  <2>4. CASE m < HeaderSize
    BY <1>2, <1>5, <2>2, <2>3, <2>4 DEF At
  <2>5. CASE ~(m < HeaderSize)
    <3>1. m - HeaderSize \in Nat
      BY <2>2, <2>5
    <3> QED
      BY <1>2, <1>6, <2>3, <2>5, <3>1 DEF At
  <2> QED
    BY <2>4, <2>5
<1>8. CASE n = off[Len(c) + 1] /\ AtHeader(p, c, Len(c) + 1, 0)
  <2>1. Len(c) + 1 \in Nat \ {0} /\ Len(c) + 1 <= Len(c) + 1
    BY <1>0
  <2> QED
    BY <1>2, <1>5, <1>8, <2>1
<1> QED
  BY <1>2, <1>7, <1>8 DEF Pos

-----------------------------------------------------------------------------
(* wav_parser_feed, over a block.                                          *)

Feeding ==
  [p : Parsers, used : Nat, pcm : Seq(Points), asked : BOOLEAN, result : {"ok", "error", "would_block"}]

\* s is what a feed begun by p0 behind n0 bytes of the file has come to with n tokens.
FedWell(s, p0, c, off, n0, n, space) ==
  /\ s \in Feeding
  /\ s.used \in 0 .. n /\ (s.result = "ok" => s.used = n)
  /\ s.result # "error" => Pos(s.p, c, off, n0 + s.used)
  /\ s.result = "error" => ~Sound(c)
  /\ Len(s.pcm) <= space
  /\ Count(s.p, c) = Count(p0, c) + Len(s.pcm) /\ Count(s.p, c) \in 0 .. Total(c)
  /\ \A i \in 1 .. Len(s.pcm) : s.pcm[i] = <<DataOf(c), Count(p0, c) + i>>
  /\ s.pcm # <<>> => s.asked /\ s.p.rate = PlayRate
  /\ s.asked => Heard(s.p, c)
  /\ Learns(p0, s.p)

LEMMA HeardStays ==
  ASSUME NEW p, NEW q, NEW c, Heard(p, c), Learns(p, q)
  PROVE  Heard(q, c) /\ q.rate = p.rate
  BY Zenon DEF Heard, Learns

LEMMA LearnsOn ==
  ASSUME NEW p, NEW q, NEW r, Learns(p, q), Learns(q, r)
  PROVE  Learns(p, r)
  BY Zenon DEF Learns

LEMMA AppendIs ==
  ASSUME NEW X, NEW s \in Seq(X), NEW x \in X
  PROVE  /\ Append(s, x) \in Seq(X) /\ Len(Append(s, x)) = Len(s) + 1 /\ Len(s) \in Nat
         /\ \A i \in 1 .. Len(s) + 1 : Append(s, x)[i] = IF i <= Len(s) THEN s[i] ELSE x
         /\ Append(s, x) # <<>>
  OBVIOUS

\* One byte more.
LEMMA FedStep ==
  ASSUME NEW c, Wave(c), NEW off, Begins(c, off), NEW p0, NEW n0 \in Nat, NEW n \in Nat, NEW space \in Nat,
         n0 + n < Len(WavFile(c)), Count(p0, c) \in Nat,
         NEW s, FedWell(s, p0, c, off, n0, n, space),
         NEW t, t = WavFile(c)[n0 + n + 1],
         NEW room, room = IF s.p.rate = PlayRate THEN space ELSE 0
  PROVE  FedWell(Fed(s, t, room), p0, c, off, n0, n + 1, space)
<1>0. /\ s \in Feeding /\ s.p \in Parsers /\ s.used \in Nat /\ s.pcm \in Seq(Points) /\ Len(s.pcm) \in Nat
      /\ s.asked \in BOOLEAN /\ s.result \in {"ok", "error", "would_block"}
  BY DEF FedWell, Feeding
<1>1. CASE s.result # "ok"
  <2>1. Fed(s, t, room) = s
    BY <1>1 DEF Fed
  <2>2. s.used \in 0 .. n + 1
    BY DEF FedWell
  <2> QED
    BY SMTT(20), <1>1, <2>1, <2>2 DEF FedWell
<1>2. CASE s.result = "ok"
  <2>1. s.used = n /\ Pos(s.p, c, off, n0 + n) /\ n0 + n \in Nat
    BY <1>2 DEF FedWell
  <2>2. PICK k \in DOMAIN c : \E m \in Nat :
          /\ m < Extent(c[k]) /\ n0 + n = off[k] + m /\ At(s.p, c, k, m)
          /\ WavFile(c)[n0 + n + 1] = Nth(c[k], k, m + 1)
    BY <2>1, PosNext
  <2>3. PICK m \in Nat : /\ m < Extent(c[k]) /\ n0 + n = off[k] + m /\ At(s.p, c, k, m)
                         /\ t = Nth(c[k], k, m + 1)
    BY <2>2
  <2>4. CASE ~s.p.inData
    <3>1. PICK q : /\ q \in Parsers
                   /\ \/ Consumed(s.p, t) = <<q, "error">> /\ ~Sound(c)
                      \/ Consumed(s.p, t) = <<q, "ok">> /\ After(q, c, k, m + 1)
                   /\ Learns(s.p, q) /\ Count(q, c) = Count(s.p, c)
      BY <2>3, <2>4, ByteStep
    <3> DEFINE res == Consumed(s.p, t)[2]
               z == [s EXCEPT !.p = q, !.result = res, !.used = @ + 1]
    <3>2. /\ Consumed(s.p, t)[1] = q /\ res \in {"ok", "error"}
          /\ (res = "error" => ~Sound(c)) /\ (res = "ok" => After(q, c, k, m + 1))
      BY <3>1
    <3>3. Fed(s, t, room) = z
      BY <1>2, <2>4, <3>2 DEF Fed
    <3> HIDE DEF res
    <3>4. /\ z \in Feeding /\ z.p = q /\ z.result = res /\ z.used = n + 1 /\ z.pcm = s.pcm /\ z.asked = s.asked
      <4> DEFINE u == s.used + 1
      <4>1. u \in Nat /\ u = n + 1
        BY <1>0, <2>1
      <4>2. z = [s EXCEPT !.p = q, !.result = res, !.used = u]
        BY <1>0 DEF Feeding
      <4> HIDE DEF z, u
      <4> QED
        BY <1>0, <3>1, <3>2, <4>1, <4>2 DEF Feeding
    <3> HIDE DEF z
    <3>5. res = "ok" => Pos(q, c, off, n0 + (n + 1))
      <4> SUFFICES ASSUME res = "ok" PROVE Pos(q, c, off, n0 + (n + 1))
        OBVIOUS
      <4>1. Pos(q, c, off, (n0 + n) + 1)
        BY <2>1, <2>3, <3>2, PosAfter
      <4>2. (n0 + n) + 1 = n0 + (n + 1)
        OBVIOUS
      <4> QED
        BY <4>1, <4>2
    <3>6. z.asked => Heard(z.p, c)
      BY <3>1, <3>4, HeardStays DEF FedWell
    <3>7. z.pcm # <<>> => z.asked /\ z.p.rate = PlayRate
      <4> SUFFICES ASSUME z.pcm # <<>> PROVE z.asked /\ z.p.rate = PlayRate
        OBVIOUS
      <4>1. s.asked /\ s.p.rate = PlayRate
        BY <3>4 DEF FedWell
      <4>2. Heard(s.p, c)
        BY <4>1 DEF FedWell
      <4> QED
        BY <3>1, <3>4, <4>1, <4>2, HeardStays
    <3>8. Learns(p0, z.p)
      BY <3>1, <3>4, LearnsOn DEF FedWell
    <3>9. z.used \in 0 .. n + 1
      BY <3>4
    <3>10. /\ Len(z.pcm) <= space
           /\ Count(z.p, c) = Count(p0, c) + Len(z.pcm) /\ Count(z.p, c) \in 0 .. Total(c)
           /\ \A i \in 1 .. Len(z.pcm) : z.pcm[i] = <<DataOf(c), Count(p0, c) + i>>
      BY <3>1, <3>4 DEF FedWell
    <3>11. z.result # "error" => Pos(z.p, c, off, n0 + z.used)
      BY <3>2, <3>4, <3>5
    <3>12. z.result = "error" => ~Sound(c)
      BY <3>2, <3>4
    <3>13. FedWell(z, p0, c, off, n0, n + 1, space)
      BY <3>4, <3>6, <3>7, <3>8, <3>9, <3>10, <3>11, <3>12, Zenon DEF FedWell
    <3> QED
      BY <3>3, <3>13
  <2>5. CASE s.p.inData /\ Len(s.pcm) = room
    <3> DEFINE z == [s EXCEPT !.asked = TRUE, !.result = "would_block"]
    <3>1. Fed(s, t, room) = z
      BY <1>2, <2>5 DEF Fed
    <3>2. /\ z \in Feeding /\ z.p = s.p /\ z.result = "would_block" /\ z.used = s.used /\ z.pcm = s.pcm /\ z.asked = TRUE
      BY <1>0 DEF Feeding
    <3> HIDE DEF z
    <3>3. Heard(s.p, c)
      BY <2>3, <2>5, DataByte
    <3>4. z.used \in 0 .. n + 1 /\ z.used = n
      BY <2>1, <3>2
    <3>5. /\ z.result # "ok" /\ z.result # "error" /\ z.asked
          /\ Pos(z.p, c, off, n0 + z.used)
      BY <2>1, <3>2
    <3>6. /\ Len(z.pcm) <= space
          /\ Count(z.p, c) = Count(p0, c) + Len(z.pcm) /\ Count(z.p, c) \in 0 .. Total(c)
          /\ \A i \in 1 .. Len(z.pcm) : z.pcm[i] = <<DataOf(c), Count(p0, c) + i>>
          /\ (z.pcm # <<>> => z.p.rate = PlayRate)
          /\ Learns(p0, z.p)
      BY <3>2 DEF FedWell
    <3>7. Heard(z.p, c)
      BY <3>2, <3>3
    <3>8. FedWell(z, p0, c, off, n0, n + 1, space)
      BY <3>2, <3>4, <3>5, <3>6, <3>7, Zenon DEF FedWell
    <3> QED
      BY <3>1, <3>8
  <2>6. CASE s.p.inData /\ Len(s.pcm) # room
    <3> DEFINE q == Handed(s.p)
               pcm == Append(s.pcm, t.value)
               z == [s EXCEPT !.asked = TRUE, !.used = @ + 1, !.pcm = pcm, !.p = q]
    <3>1. /\ Heard(s.p, c) /\ t.value = <<DataOf(c), Count(s.p, c) + 1>>
          /\ After(q, c, k, m + 1) /\ Learns(s.p, q)
          /\ Count(s.p, c) \in Nat /\ Count(q, c) = Count(s.p, c) + 1 /\ Count(q, c) <= Total(c)
      <4>1. m < Extent(c[k]) /\ At(s.p, c, k, m) /\ s.p.inData /\ t = Nth(c[k], k, m + 1)
        BY <2>3, <2>6
      <4>2. Heard(s.p, c) /\ t.value = <<DataOf(c), Count(s.p, c) + 1>>
        BY <4>1, DataByte
      <4>3. After(Handed(s.p), c, k, m + 1) /\ Learns(s.p, Handed(s.p))
        BY <4>1, DataByte
      <4>4. Count(s.p, c) \in Nat /\ Count(Handed(s.p), c) = Count(s.p, c) + 1 /\ Count(Handed(s.p), c) <= Total(c)
        BY <4>1, DataByte
      <4> QED
        BY <4>2, <4>3, <4>4
    <3>2. Fed(s, t, room) = z
      <4>1. Fed(s, t, room) = [s EXCEPT !.asked = TRUE, !.used = @ + 1, !.pcm = Append(@, t.value),
                                        !.p.remaining = @ - 1, !.p.inData = s.p.remaining > 1]
        BY <1>2, <2>6 DEF Fed
      <4> QED
        BY <1>0, <4>1 DEF Feeding, Parsers, Handed
    <3>3. q \in Parsers
      BY <3>1, AfterIsParser
    <3>4. t.value \in Points /\ DataOf(c) \in Nat
      <4>1. k \in Nat /\ Count(s.p, c) + 1 \in Nat
        BY <3>1, NotBefore
      <4>2. c[k].id = "data"
        <5>1. AtPayload(s.p, c, k, m - HeaderSize)
          BY <2>3, <2>6 DEF At, AtHeader
        <5> QED
          BY <2>6, <5>1 DEF AtPayload
      <4>3. DataOf(c) = k
        BY <4>2, DataIs
      <4> QED
        BY <3>1, <4>1, <4>3 DEF Points
    <3> HIDE DEF q
    <3>5. /\ pcm \in Seq(Points) /\ Len(pcm) = Len(s.pcm) + 1 /\ pcm # <<>>
          /\ \A i \in 1 .. Len(s.pcm) + 1 : pcm[i] = IF i <= Len(s.pcm) THEN s.pcm[i] ELSE t.value
      BY SMTT(20), <1>0, <3>4, AppendIs
    <3> HIDE DEF pcm
    <3>6. /\ z \in Feeding /\ z.p = q /\ z.result = "ok" /\ z.used = n + 1 /\ z.pcm = pcm /\ z.asked = TRUE
      <4> DEFINE u == s.used + 1
      <4>1. u \in Nat /\ u = n + 1
        BY <1>0, <2>1
      <4>2. z = [s EXCEPT !.asked = TRUE, !.used = u, !.pcm = pcm, !.p = q]
        BY <1>0 DEF Feeding
      <4> HIDE DEF z, u
      <4> QED
        BY <1>0, <1>2, <3>3, <3>5, <4>1, <4>2 DEF Feeding
    <3> HIDE DEF z
    <3>7. s.p.rate = PlayRate /\ Len(s.pcm) < space
      <4>1. Len(s.pcm) <= space /\ (s.pcm # <<>> => s.p.rate = PlayRate)
        BY DEF FedWell
      <4>2. CASE s.p.rate = PlayRate
        BY <1>0, <2>6, <4>1, <4>2
      <4>3. CASE s.p.rate # PlayRate
        <5>1. s.pcm = <<>> /\ room = 0
          BY <4>1, <4>3
        <5> QED
          BY <2>6, <5>1
      <4> QED
        BY <4>2, <4>3
    <3>8. Heard(z.p, c) /\ z.p.rate = PlayRate
      BY <3>1, <3>6, <3>7, HeardStays
    <3>9. Learns(p0, z.p)
      BY <3>1, <3>6, LearnsOn DEF FedWell
    <3>10. Pos(z.p, c, off, n0 + z.used)
      <4>1. Pos(q, c, off, (n0 + n) + 1)
        BY <2>1, <2>3, <3>1, PosAfter
      <4>2. (n0 + n) + 1 = n0 + z.used
        BY <3>6
      <4> QED
        BY <3>6, <4>1, <4>2
    <3>11. Count(z.p, c) = Count(p0, c) + Len(z.pcm) /\ Count(z.p, c) \in 0 .. Total(c) /\ Len(z.pcm) <= space
      <4>1. Count(s.p, c) = Count(p0, c) + Len(s.pcm) /\ Count(s.p, c) \in 0 .. Total(c)
        BY DEF FedWell
      <4>2. Count(z.p, c) = Count(s.p, c) + 1 /\ Len(z.pcm) = Len(s.pcm) + 1 /\ Count(z.p, c) <= Total(c)
        BY <3>1, <3>5, <3>6
      <4> DEFINE a == Count(z.p, c)
                 b == Count(s.p, c)
                 d == Count(p0, c)
                 e == Len(z.pcm)
                 f == Len(s.pcm)
                 g == Total(c)
      <4>3. a = b + 1 /\ e = f + 1 /\ a <= g /\ b = d + f /\ b \in 0 .. g /\ d \in Nat /\ f \in Nat /\ f < space
        BY <1>0, <3>7, <4>1, <4>2
      <4> HIDE DEF a, b, d, e, f, g
      <4>4. g \in Nat
        BY <2>1, CountFits DEF g
      <4>5. a = d + e /\ a \in 0 .. g /\ e <= space
        BY <4>3, <4>4
      <4> QED
        BY <4>5 DEF a, d, e, g
    <3>12. \A i \in 1 .. Len(z.pcm) : z.pcm[i] = <<DataOf(c), Count(p0, c) + i>>
      <4> SUFFICES ASSUME NEW i \in 1 .. Len(s.pcm) + 1 PROVE pcm[i] = <<DataOf(c), Count(p0, c) + i>>
        BY <3>5, <3>6
      <4>1. CASE i <= Len(s.pcm)
        <5>1. i \in 1 .. Len(s.pcm)
          BY <1>0, <4>1
        <5>2. s.pcm[i] = <<DataOf(c), Count(p0, c) + i>>
          BY <5>1 DEF FedWell
        <5> QED
          BY <3>5, <4>1, <5>2
      <4>2. CASE ~(i <= Len(s.pcm))
        <5>1. i = Len(s.pcm) + 1
          BY SMTT(20), <1>0, <4>2
        <5>2. Count(s.p, c) + 1 = Count(p0, c) + i
          <6>1. Count(s.p, c) = Count(p0, c) + Len(s.pcm)
            BY DEF FedWell
          <6> QED
            BY <1>0, <5>1, <6>1
        <5> QED
          BY <3>1, <3>5, <4>2, <5>2
      <4> QED
        BY <4>1, <4>2
    <3>13. z.used \in 0 .. n + 1 /\ z.result # "error"
      BY <3>6
    <3>14. FedWell(z, p0, c, off, n0, n + 1, space)
      BY <3>6, <3>8, <3>9, <3>10, <3>11, <3>12, <3>13, Zenon DEF FedWell
    <3> QED
      BY <3>2, <3>14
  <2> QED
    BY <2>4, <2>5, <2>6
<1> QED
  BY <1>1, <1>2

\* The recursion of wav_parser_feed goes through states that follow one another.
LEMMA FeedIs ==
  ASSUME NEW p, NEW X, NEW tokens \in Seq(X)
  PROVE  \E after :
           /\ after[0] = [p |-> p, used |-> 0, pcm |-> <<>>, asked |-> FALSE, result |-> "ok"]
           /\ \A n \in 1 .. Len(tokens) : after[n] = Fed(after[n - 1], tokens[n], RoomFor(after[n - 1].p.rate))
           /\ Feed(p, tokens, RoomFor) = after[Len(tokens)]
<1> DEFINE L == Len(tokens)
           First == [p |-> p, used |-> 0, pcm |-> <<>>, asked |-> FALSE, result |-> "ok"]
           Then(s, n) == Fed(s, tokens[n], RoomFor(s.p.rate))
           Chain(g, k) == g = [n \in 0 .. k |-> IF n = 0 THEN First ELSE Then(g[n - 1], n)]
           S == {k \in 0 .. L : \E g : Chain(g, k)}
<1>0. L \in Nat
  OBVIOUS
<1>1. 0 \in S
  <2> DEFINE g == [n \in 0 .. 0 |-> First]
  <2>1. Chain(g, 0)
    <3> HIDE DEF First, Then
    <3> QED
      OBVIOUS
  <2> HIDE DEF Chain, g
  <2> QED
    BY <1>0, <2>1
<1>2. ASSUME NEW k \in 0 .. L - 1, k \in S PROVE k + 1 \in S
  <2>1. PICK g : Chain(g, k)
    <3> HIDE DEF Chain
    <3> QED
      BY <1>2
  <2> DEFINE h == [n \in 0 .. k + 1 |-> IF n = 0 THEN First ELSE IF n <= k THEN g[n] ELSE Then(g[k], k + 1)]
  <2>2. Chain(h, k + 1)
    <3> HIDE DEF First, Then, L
    <3>1. \A n \in 0 .. k : h[n] = g[n]
      BY <1>0, <2>1
    <3>2. \A n \in 0 .. k + 1 : h[n] = IF n = 0 THEN First ELSE Then(h[n - 1], n)
      BY <1>0, <2>1, <3>1
    <3>3. h = [n \in 0 .. k + 1 |-> h[n]]
      OBVIOUS
    <3> HIDE DEF h
    <3> QED
      BY <3>2, <3>3
  <2>3. k + 1 \in 0 .. L
    BY <1>0
  <2> HIDE DEF Chain, h
  <2> QED
    BY <2>2, <2>3
<1>3. \E g : Chain(g, L)
  <2> HIDE DEF S
  <2> HIDE DEF L, First, Then, Chain
  <2>1. \A n \in 0 .. L - 1 : n \in S => n + 1 \in S
    BY <1>2
  <2>2. \A n \in 0 .. L : n \in S
    BY <1>0, <1>1, <2>1, Climb
  <2>3. L \in S
    BY <1>0, <2>2
  <2> HIDE DEF Chain
  <2> QED
    BY <2>3 DEF S
<1> DEFINE after == CHOOSE g : Chain(g, L)
<1>4. Chain(after, L)
  BY <1>3
<1>5. Feed(p, tokens, RoomFor) = after[L]
  BY DEF Feed
<1> HIDE DEF after
<1>6. after[0] = First /\ \A n \in 1 .. L : after[n] = Then(after[n - 1], n)
  <2> HIDE DEF First, Then, L
  <2> QED
    BY <1>0, <1>4
<1> QED
  BY <1>5, <1>6

\* A block: those tokens of the file.
LEMMA FeedWell ==
  ASSUME NEW c, Wave(c), NEW off, Begins(c, off), NEW p0, NEW n0 \in Nat, NEW g \in Nat,
         n0 <= g, g <= Len(WavFile(c)), Pos(p0, c, off, n0), StreamSize - Len(incoming) \in Nat
  PROVE  FedWell(Feed(p0, SubSeq(WavFile(c), n0 + 1, g), RoomFor), p0, c, off, n0, g - n0, StreamSize - Len(incoming))
<1> DEFINE tokens == SubSeq(WavFile(c), n0 + 1, g)
           L == g - n0
           space == StreamSize - Len(incoming)
<1>1. /\ tokens \in Seq(Tokens) /\ Len(tokens) = L /\ L \in Nat
      /\ \A n \in 1 .. L : tokens[n] = WavFile(c)[n0 + n]
  <2> DEFINE f == WavFile(c)
  <2>1. f \in Seq(Tokens) /\ g <= Len(f)
    BY Offsets
  <2> HIDE DEF f
  <2> QED
    BY <2>1 DEF f
<1>2. Count(p0, c) \in 0 .. Total(c) /\ p0 \in Parsers
  BY CountFits
<1> HIDE DEF tokens
<1>3. PICK after :
        /\ after[0] = [p |-> p0, used |-> 0, pcm |-> <<>>, asked |-> FALSE, result |-> "ok"]
        /\ \A n \in 1 .. Len(tokens) : after[n] = Fed(after[n - 1], tokens[n], RoomFor(after[n - 1].p.rate))
        /\ Feed(p0, tokens, RoomFor) = after[Len(tokens)]
  BY <1>1, FeedIs
<1> DEFINE Well(n) == FedWell(after[n], p0, c, off, n0, n, space)
           S == {n \in 0 .. L : Well(n)}
<1>4. Well(0)
  <2> DEFINE z == [p |-> p0, used |-> 0, pcm |-> <<>>, asked |-> FALSE, result |-> "ok"]
  <2>1. /\ z \in Feeding /\ z.p = p0 /\ z.used = 0 /\ z.pcm = <<>> /\ ~z.asked /\ z.result = "ok" /\ Len(z.pcm) = 0
    BY <1>2 DEF Feeding
  <2>2. after[0] = z
    BY <1>3
  <2> HIDE DEF z
  <2>3. /\ z.used \in 0 .. 0 /\ z.result # "error" /\ n0 + z.used = n0 /\ 0 <= space
        /\ Count(p0, c) = Count(p0, c) + 0 /\ 1 .. 0 = {}
    BY <1>2, <2>1
  <2>4. Learns(p0, p0)
    BY DEF Learns
  <2>5. FedWell(z, p0, c, off, n0, 0, space)
    <3>1. /\ Pos(z.p, c, off, n0 + z.used) /\ Len(z.pcm) <= space
          /\ Count(z.p, c) = Count(p0, c) + Len(z.pcm) /\ Count(z.p, c) \in 0 .. Total(c)
      BY <1>2, <2>1, <2>3
    <3>2. \A i \in 1 .. Len(z.pcm) : z.pcm[i] = <<DataOf(c), Count(p0, c) + i>>
      BY <2>1, <2>3
    <3> QED
      BY <2>1, <2>3, <2>4, <3>1, <3>2, Zenon DEF FedWell
  <2> QED
    BY <2>2, <2>5
<1> HIDE DEF space, L
<1>5. ASSUME NEW n \in 0 .. L - 1, n \in S PROVE n + 1 \in S
  <2>1. /\ n \in Nat /\ n + 1 \in 1 .. L /\ n + 1 \in 0 .. L /\ (n + 1) - 1 = n /\ n0 + n < Len(WavFile(c))
        /\ n0 + (n + 1) = n0 + n + 1
    BY <1>1 DEF L
  <2>2. Well(n)
    BY <1>5
  <2>3. after[n + 1] = Fed(after[n], WavFile(c)[n0 + n + 1], RoomFor(after[n].p.rate))
    BY <1>1, <1>3, <2>1
  <2>4. RoomFor(after[n].p.rate) = IF after[n].p.rate = PlayRate THEN space ELSE 0
    BY DEF RoomFor, space
  <2>5. Count(p0, c) \in Nat /\ space \in Nat
    BY <1>2 DEF space
  <2>6. Well(n + 1)
    BY <2>1, <2>2, <2>3, <2>4, <2>5, FedStep
  <2> HIDE DEF Well
  <2> QED
    BY <2>1, <2>6
<1>6. Well(L)
  <2> HIDE DEF S
  <2>1. L \in S
    <3>1. 0 \in S
      BY <1>1, <1>4 DEF S
    <3> QED
      BY <1>1, <1>5, <3>1, Climb
  <2> HIDE DEF Well
  <2> QED
    BY <2>1 DEF S
<1> QED
  BY <1>1, <1>3, <1>6 DEF tokens, L, space

\* The rate a sound file has said is the one the speaker is run at.
LEMMA HeardSound ==
  ASSUME NEW p, NEW c, Sound(c), Heard(p, c)
  PROVE  p.rate = PlayRate
<1>1. PICK j \in DOMAIN c : c[j].id = "fmt" /\ p.rate = c[j].rate
  BY DEF Heard
<1> QED
  BY <1>1, SoundSays

\* At the end of a sound file the parser has finished.
LEMMA EndFinishes ==
  ASSUME NEW c, Wave(c), NEW off, Begins(c, off), NEW p, Pos(p, c, off, Len(WavFile(c))), Sound(c)
  PROVE  Finished(p)
<1>1. /\ Len(c) \in Nat \ {0} /\ DOMAIN c = 1 .. Len(c) /\ Len(c) + 1 - 1 = Len(c)
      /\ Len(WavFile(c)) = off[Len(c) + 1]
  BY Offsets
<1>2. AtHeader(p, c, Len(c) + 1, 0)
  <2> SUFFICES ASSUME NEW k \in DOMAIN c, Len(WavFile(c)) - off[k] \in 0 .. Extent(c[k]) - 1
               PROVE  FALSE
    BY DEF Pos
  <2>1. /\ off[k] \in Nat /\ Extent(c[k]) \in Nat /\ off[k] + Extent(c[k]) <= Len(WavFile(c))
    BY Offsets
  <2>2. Len(WavFile(c)) \in Nat
    BY Offsets
  <2> QED
    BY <2>1, <2>2
<1>3. /\ p \in Parsers /\ Seen(p, c, Len(c)) /\ Known(p, c, Len(c))
      /\ p.header = 0 /\ p.remaining = 0 /\ ~p.inData
  <2> DEFINE e == Len(c) + 1
  <2>1. ASSUME NEW k, NEW o, AtHeader(p, c, k, o)
        PROVE  /\ p \in Parsers /\ Seen(p, c, k - 1) /\ Known(p, c, k - 1)
               /\ p.header = o /\ p.remaining = 0 /\ ~p.inData
    BY <2>1, Zenon DEF AtHeader
  <2>2. e - 1 = Len(c) /\ AtHeader(p, c, e, 0)
    BY <1>1, <1>2
  <2> HIDE DEF e
  <2>3. /\ p \in Parsers /\ Seen(p, c, e - 1) /\ Known(p, c, e - 1)
        /\ p.header = 0 /\ p.remaining = 0 /\ ~p.inData
    BY <2>1, <2>2
  <2> QED
    BY <2>2, <2>3
<1>4. PICK k \in DOMAIN c : c[k].id = "data"
  BY SoundSays
<1>5. HasFmt(c, k)
  BY <1>4, SoundSays
<1>6. HasData(c, Len(c)) /\ HasFmt(c, Len(c))
  <2>1. k \in 1 .. Len(c) /\ 1 .. k \subseteq 1 .. Len(c)
    BY <1>1
  <2> QED
    BY <1>4, <1>5, <2>1 DEF HasData, HasFmt
<1>7. p.riff /\ p.data /\ p.fmt
  <2>1. Len(c) > 0
    BY <1>1
  <2> QED
    BY <1>3, <1>6, <2>1, Zenon DEF Seen, Known
<1> QED
  BY <1>3, <1>7 DEF Finished

\* A parser that has finished has passed the fmt and the data chunk.
LEMMA FinishedHas ==
  ASSUME NEW c, Wave(c), NEW off, Begins(c, off), NEW p, NEW n \in Nat, Pos(p, c, off, n), Finished(p)
  PROVE  \E k \in 1 .. Len(c) + 1 : \E m \in 0 .. Len(c) :
           /\ Seen(p, c, m) /\ Known(p, c, m) /\ off[k] <= n
           /\ \A d \in DOMAIN c : c[d].id = "data" /\ d <= m => d < k
<1>0. /\ Len(c) \in Nat \ {0} /\ DOMAIN c = 1 .. Len(c) /\ HeaderSize \in Nat \ {0}
      /\ p.riff /\ p.fmt /\ p.data /\ ~p.inData /\ p.remaining = 0 /\ p.header = 0
  BY Offsets, Sizes DEF Finished
<1>1. ASSUME NEW k \in 1 .. Len(c) + 1, NEW o, AtHeader(p, c, k, o), off[k] <= n
      PROVE  \E m \in 0 .. Len(c) :
               /\ Seen(p, c, m) /\ Known(p, c, m) /\ off[k] <= n
               /\ \A d \in DOMAIN c : c[d].id = "data" /\ d <= m => d < k
  <2>1. Seen(p, c, k - 1) /\ Known(p, c, k - 1)
    BY <1>1, Zenon DEF AtHeader
  <2>2. k - 1 \in 0 .. Len(c) /\ \A d \in DOMAIN c : d <= k - 1 => d < k
    BY <1>0
  <2> QED
    BY <1>1, <2>1, <2>2
<1>2. ASSUME NEW k \in DOMAIN c, NEW i \in Nat, AtPayload(p, c, k, i), off[k] <= n
      PROVE  \E m \in 0 .. Len(c) :
               /\ Seen(p, c, m) /\ Known(p, c, m) /\ off[k] <= n
               /\ \A d \in DOMAIN c : c[d].id = "data" /\ d <= m => d < k
  <2>1. Seen(p, c, k) /\ Known(p, c, k - 1)
    BY <1>2, Zenon DEF AtPayload
  <2>2. k \in Nat \ {0} /\ k \in 0 .. Len(c) /\ c[k].size \in Nat /\ k > 0 /\ 1 \in DOMAIN c
    BY <1>0, NotBefore
  <2>3. c[k].id # "RIFF"
    <3> SUFFICES ASSUME c[k].id = "RIFF" PROVE FALSE
      OBVIOUS
    <3>1. c[1].id = "RIFF"
      BY <2>1, <2>2, Zenon DEF Seen
    <3>2. k = 1
      BY <2>2, <3>1 DEF Wave
    <3>3. HasData(c, 1)
      BY <1>0, <2>1, <3>2, Zenon DEF Seen
    <3>4. \E j \in 1 .. 1 : c[j].id = "data"
      BY <3>3, Zenon DEF HasData
    <3> QED
      BY <3>1, <3>4
  <2>4. c[k].id \notin {"data", "fmt"}
    <3>1. ~(i < c[k].size /\ p.remaining = c[k].size - i)
      BY <1>0, <2>2
    <3> QED
      BY <1>2, <2>3, <3>1 DEF AtPayload
  <2>5. Known(p, c, k)
    BY <2>1, <2>2, <2>4, KnownNext
  <2>6. \A d \in DOMAIN c : c[d].id = "data" /\ d <= k => d < k
    <3> TAKE d \in DOMAIN c
    <3> HAVE c[d].id = "data" /\ d <= k
    <3>1. d # k
      BY <2>4
    <3> QED
      BY <1>0, <3>1
  <2> QED
    BY <1>2, <2>1, <2>2, <2>5, <2>6
<1>3. CASE \E k \in DOMAIN c : n - off[k] \in 0 .. Extent(c[k]) - 1 /\ At(p, c, k, n - off[k])
  <2>1. PICK k \in DOMAIN c : n - off[k] \in 0 .. Extent(c[k]) - 1 /\ At(p, c, k, n - off[k])
    BY <1>3
  <2> DEFINE m == n - off[k]
  <2>2. m \in Nat /\ off[k] <= n /\ k \in 1 .. Len(c) + 1
    BY <1>0, <2>1, Offsets
  <2>3. At(p, c, k, m)
    BY <2>1
  <2> HIDE DEF m
  <2>4. CASE m < HeaderSize
    <3>1. AtHeader(p, c, k, m)
      BY <2>3, <2>4 DEF At
    <3> QED
      BY <1>1, <2>2, <3>1
  <2>5. CASE ~(m < HeaderSize)
    <3>1. m - HeaderSize \in Nat /\ AtPayload(p, c, k, m - HeaderSize)
      BY <1>0, <2>2, <2>3, <2>5 DEF At
    <3> QED
      BY <1>2, <2>2, <3>1
  <2> QED
    BY <2>4, <2>5
<1>4. CASE n = off[Len(c) + 1] /\ AtHeader(p, c, Len(c) + 1, 0)
  <2>1. Len(c) + 1 \in 1 .. Len(c) + 1 /\ off[Len(c) + 1] <= n
    BY <1>0, <1>4
  <2> QED
    BY <1>1, <1>4, <2>1
<1> QED
  BY <1>3, <1>4 DEF Pos

\* When the parser has finished the file is sound, and what is left has no sample.
LEMMA FinishedIsSound ==
  ASSUME NEW c, Wave(c), NEW off, Begins(c, off), NEW p, NEW n \in Nat, Pos(p, c, off, n), Finished(p),
         Count(p, c) > 0 => p.rate = PlayRate
  PROVE  /\ Sound(c) /\ HasData(c, Len(c)) /\ Count(p, c) = Total(c)
         /\ \A i \in n + 1 .. Len(WavFile(c)) : WavFile(c)[i].value = NoSample
<1>0. /\ Len(c) \in Nat \ {0} /\ DOMAIN c = 1 .. Len(c)
      /\ p.riff /\ p.fmt /\ p.data /\ ~p.inData /\ p.remaining = 0 /\ p.header = 0
  BY Offsets DEF Finished
<1>1. PICK k \in 1 .. Len(c) + 1, m \in 0 .. Len(c) :
           /\ Seen(p, c, m) /\ Known(p, c, m) /\ off[k] <= n
           /\ \A d \in DOMAIN c : c[d].id = "data" /\ d <= m => d < k
  BY FinishedHas
<1>2. /\ m > 0 /\ HasData(c, m) /\ HasFmt(c, m)
      /\ c[1].id = "RIFF" /\ c[1].size >= TailSize
      /\ \A j \in 1 .. m :
           /\ c[j].id = "data" => c[j].size > 0 /\ ~Odd(c[j].size) /\ HasFmt(c, j)
           /\ c[j].id = "fmt" => c[j].size = FmtSize /\ p.rate = c[j].rate
  BY <1>0, <1>1, Zenon DEF Seen, Known
<1>3. 1 .. m \subseteq DOMAIN c /\ \A j \in 1 .. m : j <= m
  BY <1>0
<1>4. PICK d \in 1 .. m : c[d].id = "data"
  BY <1>2, Zenon DEF HasData
<1>5. PICK f \in 1 .. m : c[f].id = "fmt"
  BY <1>2, Zenon DEF HasFmt
<1>6. d \in DOMAIN c /\ f \in DOMAIN c /\ d < k /\ d \in 1 .. Len(c)
  BY <1>0, <1>1, <1>3, <1>4
<1>7. /\ \A j \in DOMAIN c : c[j].id = "data" => j = d
      /\ \A j \in DOMAIN c : c[j].id = "fmt" => j = f
  BY <1>4, <1>5, <1>6 DEF Wave
<1>8. HasData(c, Len(c))
  BY <1>4, <1>6, Zenon DEF HasData
<1>9. DataOf(c) = d /\ Total(c) = c[d].size /\ Count(p, c) = c[d].size /\ c[d].size \in Nat
  <2>1. DataOf(c) = d
    BY <1>4, <1>6, DataIs
  <2>2. c[d].size \in Nat
    BY <1>6, NotBefore
  <2> QED
    BY <1>0, <1>8, <2>1, <2>2 DEF Total, Count
<1>10. c[f].rate = PlayRate
  <2>1. c[d].size > 0
    BY <1>2, <1>4
  <2> QED
    BY <1>2, <1>5, <1>9, <2>1
<1>11. Sound(c)
  <2>1. \A j \in DOMAIN c : c[j].id = "data" => /\ c[j].size > 0 /\ ~Odd(c[j].size)
                                                /\ \E l \in 1 .. j : c[l].id = "fmt"
    BY <1>2, <1>4, <1>7, Zenon DEF HasFmt
  <2>2. \A j \in DOMAIN c : c[j].id = "fmt" => c[j].size = FmtSize /\ c[j].rate = PlayRate
    BY <1>2, <1>5, <1>7, <1>10, Zenon
  <2>3. \E j \in DOMAIN c : c[j].id = "data"
    BY <1>4, <1>6
  <2> QED
    BY <1>2, <2>1, <2>2, <2>3, Zenon DEF Sound
<1>12. ASSUME NEW i \in n + 1 .. Len(WavFile(c)) PROVE WavFile(c)[i].value = NoSample
  <2>1. /\ Len(Parts(c)) = Len(c) /\ WavFile(c) \in Seq(Tokens)
        /\ \A j \in 1 .. Len(c) : Len(Parts(c)[j]) = Extent(c[j]) /\ Len(Parts(c)[j]) \in Nat
    BY PartsAre, FileIs
  <2>2. i \in 1 .. Len(WavFile(c))
    BY <2>1
  <2>3. PICK j \in 1 .. Len(c) : i - off[j] \in 1 .. Extent(c[j])
    <3>1. \E j \in 1 .. Len(Parts(c)) : i - off[j] \in 1 .. Len(Parts(c)[j])
      BY <2>1, <2>2, Located DEF Begins
    <3> QED
      BY <2>1, <3>1
  <2>4. /\ j \in DOMAIN c /\ j \in Nat \ {0} /\ off[j] \in Nat /\ off[j + 1] = off[j] + Extent(c[j])
        /\ Extent(c[j]) \in Nat
    BY SMTT(20), <1>0, <2>3, Offsets
  <2>5. WavFile(c)[i] = Nth(c[j], j, i - off[j])
    <3> DEFINE b == i - off[j]
    <3>1. b \in 1 .. Extent(c[j]) /\ off[j] + b = i
      BY <2>2, <2>3, <2>4
    <3> HIDE DEF b
    <3>2. WavFile(c)[off[j] + b] = Nth(c[j], j, b)
      BY SMTT(20), <2>4, <3>1, Offsets
    <3> QED
      BY <3>1, <3>2 DEF b
  <2>6. j # d
    <3> SUFFICES ASSUME j = d PROVE FALSE
      OBVIOUS
    <3>1. \A a \in 1 .. Len(c) + 1, b \in 1 .. Len(c) + 1 : a <= b => off[a] <= off[b]
      BY <1>0, <2>1, OffsetsGrow DEF Begins
    <3>2. d + 1 \in 1 .. Len(c) + 1 /\ d + 1 <= k /\ d + 1 \in Nat
      BY <1>0, <1>1, <1>6
    <3>3. off[d + 1] <= off[k] /\ off[k] <= n
      BY <1>1, <3>1, <3>2
    <3>4. off[k] \in Nat
      BY FileIs
    <3>5. off[j] + Extent(c[j]) <= n
      BY <2>4, <3>3, <3>4
    <3> QED
      BY SMTT(20), <2>2, <2>3, <2>4, <3>5
  <2>7. c[j].id # "data"
    BY <1>7, <2>4, <2>6
  <2>8. Token.value = NoSample
    BY DEF Token
  <2>9. ASSUME NEW a PROVE Nth(c[j], j, a).value = NoSample
    <3>1. CASE a <= HeaderSize
      BY <2>8, <3>1 DEF Nth, Token
    <3>2. CASE ~(a <= HeaderSize) /\ (c[j].id = "RIFF" \/ a > HeaderSize + c[j].size)
      BY <2>8, <3>2 DEF Nth
    <3>3. CASE ~(a <= HeaderSize) /\ ~(c[j].id = "RIFF" \/ a > HeaderSize + c[j].size)
      <4>1. Nth(c[j], j, a) = [Token EXCEPT !.rate = c[j].rate, !.value = Token.value]
        BY <2>7, <3>3 DEF Nth
      <4> QED
        BY <2>8, <4>1 DEF Token
    <3> QED
      BY <3>1, <3>2, <3>3
  <2> QED
    BY <2>5, <2>9
<1> QED
  BY <1>8, <1>9, <1>11, <1>12

\* The samples of a file, and those of one without a data chunk.
SamplesOf(d, n) == [i \in 1 .. n |-> <<d, i>>]

LEMMA AllSamples ==
  ASSUME NEW c, Wave(c), HasData(c, Len(c))
  PROVE  Samples(c) = SamplesOf(DataOf(c), Total(c)) /\ Total(c) \in Nat /\ DataOf(c) \in Nat
<1>1. PICK d \in 1 .. Len(c) : c[d].id = "data"
  BY DEF HasData
<1>2. d \in DOMAIN c
  BY <1>1, PartsAre
<1>3. DataOf(c) = d
  BY <1>1, <1>2, DataIs
<1>4. Total(c) = c[d].size
  BY <1>3 DEF Total
<1> QED
  BY <1>1, <1>2, <1>3, <1>4, SamplesAre, NotBefore DEF SamplesOf

-----------------------------------------------------------------------------
(* The download.                                                           *)

\* Of reply r, r.fed bytes have gone through parser p, which has handed on nothing
\* but PCM of the speaker's rate.
Downloading(p, r) ==
  /\ r.chunks \in Files /\ r.fed \in Nat /\ r.got \in Nat
  /\ r.fed <= r.got /\ r.got <= Len(WavFile(r.chunks))
  /\ \E off : Begins(r.chunks, off) /\ Pos(p, r.chunks, off, r.fed)
  /\ Count(p, r.chunks) > 0 => p.rate = PlayRate /\ Heard(p, r.chunks)

\* A reply that is ready was sound, and nothing of it is missing.
Complete(r) ==
  /\ r.chunks \in Files /\ Sound(r.chunks) /\ HasData(r.chunks, Len(r.chunks))
  /\ \A i \in r.fed + 1 .. Len(WavFile(r.chunks)) : WavFile(r.chunks)[i].value = NoSample

DownloadInv ==
  /\ reply = [chunks |-> reply.chunks, got |-> reply.got, fed |-> reply.fed]
  /\ reply.chunks \in Files \cup {<<>>}
  /\ pc \in {"reading", "feeding"} => Downloading(parser, reply)
  /\ pc = "reading" => reply.fed = reply.got
  /\ flags.result = "ready" => pc \in {"leaving", "none"} /\ Complete(reply)

\* What the speaker was given takes as long as it has yet to play.
Levels(c) ==
  /\ c.dma \in Seq(Points) /\ c.due \in Int
  /\ c.playback => Len(c.dma) = 2 * FromNow(c.due)

SpeakerInv ==
  /\ incoming \in Seq(Points) /\ Len(incoming) <= StreamSize
  /\ pending \in Seq(Points) /\ Len(pending) <= 1
  /\ heard \in Seq(Points) /\ Levels(codec)

\* A step that leaves the download alone.
LEMMA DownloadSame ==
  ASSUME DownloadInv, reply' = reply, parser' = parser,
         pc' \in {"reading", "feeding"} => pc' = pc,
         flags'.result = "ready" => flags.result = "ready" /\ pc' \in {"leaving", "none"}
  PROVE  DownloadInv'
  BY DEF DownloadInv

\* A step that goes on with it.
LEMMA DownloadNext ==
  ASSUME reply' = [chunks |-> reply'.chunks, got |-> reply'.got, fed |-> reply'.fed],
         pc' \in {"reading", "feeding"}, Downloading(parser', reply'),
         pc' = "reading" => reply'.fed = reply'.got, flags'.result # "ready"
  PROVE  DownloadInv'
  BY DEF DownloadInv, Downloading

\* FeedReply: either a cancel is seen, or the parser is fed with what was read, and
\* the stream gets the samples that come next.
LEMMA FeedReplySteps ==
  ASSUME SpeakerInv, DownloadInv, WorkInv, FeedReply
  PROVE  /\ pc = "feeding" /\ flags'.cancel = flags.cancel
         /\ \/ flags.cancel /\ pc' = "waiting" /\ UNCHANGED <<incoming, reply, parser, flags>>
            \/ \E pcm \in Seq(Points) :
                 /\ incoming' = incoming \o pcm /\ Len(pcm) <= StreamSize - Len(incoming)
                 /\ Count(parser, reply.chunks) \in Nat
                 /\ Count(parser', reply.chunks) = Count(parser, reply.chunks) + Len(pcm)
                 /\ Count(parser', reply.chunks) \in 0 .. Total(reply.chunks)
                 /\ \A i \in 1 .. Len(pcm) : pcm[i] = <<DataOf(reply.chunks), Count(parser, reply.chunks) + i>>
                 /\ pcm # <<>> \/ flags.started => flags'.started
                 /\ reply' = [chunks |-> reply.chunks, got |-> reply.got, fed |-> reply'.fed]
                 /\ \/ pc' = "leaving" /\ flags'.result = "failed" /\ ~Sound(reply.chunks)
                    \/ /\ pc' \in {"reading", "feeding"} /\ flags'.result = flags.result
                       /\ pc' = "reading" => reply'.fed = reply'.got
                       /\ Downloading(parser', reply')
<1> DEFINE c == reply.chunks
           s == Feed(parser, SubSeq(WavFile(c), reply.fed + 1, reply.got), RoomFor)
           space == StreamSize - Len(incoming)
           invalid == s.asked /\ s.p.rate # PlayRate
<1>1. pc = "feeding" /\ Downloading(parser, reply) /\ flags.result # "ready"
  BY DEF FeedReply, DownloadInv
<1>2. CASE flags.cancel
  <2>1. pc' = "waiting" /\ UNCHANGED <<incoming, download, flags>>
    BY <1>2 DEF FeedReply, Retry
  <2> QED
    BY <1>1, <1>2, <2>1 DEF download
<1>3. CASE ~flags.cancel
  <2>1. /\ incoming' = incoming \o s.pcm /\ parser' = s.p /\ reply' = [reply EXCEPT !.fed = @ + s.used]
        /\ \/ /\ s.result = "error" \/ invalid
              /\ pc' = "leaving"
              /\ flags' = [flags EXCEPT !.result = "failed", !.started = @ \/ (s.asked /\ ~invalid)]
           \/ /\ s.result # "error" /\ ~invalid
              /\ pc' = IF reply'.fed = reply.got THEN "reading" ELSE pc
              /\ flags' = [flags EXCEPT !.started = @ \/ s.asked]
    BY <1>3 DEF FeedReply, File
  <2>2. PICK off : Begins(c, off) /\ Pos(parser, c, off, reply.fed)
    BY <1>1 DEF Downloading
  <2>3. /\ Wave(c) /\ reply.fed \in Nat /\ reply.got \in Nat
        /\ reply.fed <= reply.got /\ reply.got <= Len(WavFile(c)) /\ space \in Nat
    BY <1>1, AudioPathAssumption DEF Downloading, SpeakerInv
  <2>4. FedWell(s, parser, c, off, reply.fed, reply.got - reply.fed, space)
    BY <2>2, <2>3, FeedWell
  <2>5. Count(parser, c) \in Nat /\ Count(parser, c) \in 0 .. Total(c) /\ Total(c) \in Nat
    BY <2>2, <2>3, CountFits
  <2> HIDE DEF s
  <2>6. /\ s \in Feeding /\ s.used \in 0 .. reply.got - reply.fed
        /\ s.result # "error" => Pos(s.p, c, off, reply.fed + s.used)
        /\ s.result = "error" => ~Sound(c)
        /\ Len(s.pcm) <= space
        /\ Count(s.p, c) = Count(parser, c) + Len(s.pcm) /\ Count(s.p, c) \in 0 .. Total(c)
        /\ \A i \in 1 .. Len(s.pcm) : s.pcm[i] = <<DataOf(c), Count(parser, c) + i>>
        /\ s.pcm # <<>> => s.asked /\ s.p.rate = PlayRate
        /\ s.asked => Heard(s.p, c)
        /\ Learns(parser, s.p)
    BY <2>4 DEF FedWell
  <2>7. s.pcm \in Seq(Points) /\ s.used \in Nat /\ s.asked \in BOOLEAN /\ Len(s.pcm) \in Nat
    BY <2>3, <2>6 DEF Feeding
  <2>8. invalid => ~Sound(c)
    BY <2>3, <2>6, HeardSound
  <2>9. /\ flags'.cancel = flags.cancel /\ (s.pcm # <<>> \/ flags.started => flags'.started)
        /\ \/ /\ s.result = "error" \/ invalid
              /\ pc' = "leaving" /\ flags'.result = "failed"
           \/ /\ s.result # "error" /\ ~invalid /\ flags'.result = flags.result
              /\ pc' = IF reply'.fed = reply.got THEN "reading" ELSE pc
    <3>1. ASSUME NEW x, NEW y
          PROVE  LET f == [flags EXCEPT !.result = x, !.started = y]
                     g == [flags EXCEPT !.started = y]
                 IN  /\ f.cancel = flags.cancel /\ f.result = x /\ f.started = y
                     /\ g.cancel = flags.cancel /\ g.result = flags.result /\ g.started = y
      BY DEF WorkInv, NoFlags
    <3>2. s.pcm # <<>> => s.asked /\ ~invalid
      BY <2>6
    <3> DEFINE handed == flags.started \/ (s.asked /\ ~invalid)
               asked == flags.started \/ s.asked
    <3>3. (s.pcm # <<>> \/ flags.started => handed) /\ (s.pcm # <<>> \/ flags.started => asked)
      BY <3>2
    <3>4. CASE /\ s.result = "error" \/ invalid
               /\ pc' = "leaving" /\ flags' = [flags EXCEPT !.result = "failed", !.started = handed]
      <4> HIDE DEF invalid, handed
      <4>1. flags'.cancel = flags.cancel /\ flags'.result = "failed" /\ flags'.started = handed
        BY <3>1, <3>4
      <4> QED
        BY <3>3, <3>4, <4>1
    <3>5. CASE /\ s.result # "error" /\ ~invalid
               /\ pc' = IF reply'.fed = reply.got THEN "reading" ELSE pc
               /\ flags' = [flags EXCEPT !.started = asked]
      <4> HIDE DEF invalid, asked
      <4>1. flags'.cancel = flags.cancel /\ flags'.result = flags.result /\ flags'.started = asked
        BY <3>1, <3>5
      <4> QED
        BY <3>3, <3>5, <4>1
    <3> QED
      BY <2>1, <3>4, <3>5
  <2>10. /\ reply' = [chunks |-> c, got |-> reply.got, fed |-> reply'.fed]
         /\ reply'.chunks = c /\ reply'.got = reply.got /\ reply'.fed = reply.fed + s.used
    BY <2>1 DEF DownloadInv
  <2>11. ASSUME s.result # "error", ~invalid PROVE Downloading(parser', reply')
    <3>1. /\ c \in Files /\ reply'.fed \in Nat /\ reply'.fed <= reply.got
      BY <1>1, <2>3, <2>6, <2>7, <2>10 DEF Downloading
    <3>2. Pos(parser', c, off, reply'.fed)
      BY <2>1, <2>6, <2>10, <2>11
    <3>3. ASSUME Count(parser', c) > 0 PROVE parser'.rate = PlayRate /\ Heard(parser', c)
      <4>1. CASE s.pcm # <<>>
        BY <2>1, <2>6, <4>1
      <4>2. CASE s.pcm = <<>>
        <5>1. Count(parser, c) > 0
          BY <2>1, <2>5, <2>6, <3>3, <4>2
        <5>2. parser.rate = PlayRate /\ Heard(parser, c)
          BY <1>1, <5>1 DEF Downloading
        <5> QED
          BY <2>1, <2>6, <5>2, HeardStays
      <4> QED
        BY <4>1, <4>2
    <3> QED
      BY <2>2, <2>3, <2>10, <3>1, <3>2, <3>3 DEF Downloading
  <2>12. \/ pc' = "leaving" /\ flags'.result = "failed" /\ ~Sound(c)
         \/ /\ pc' \in {"reading", "feeding"} /\ flags'.result = flags.result
            /\ pc' = "reading" => reply'.fed = reply'.got
            /\ Downloading(parser', reply')
    <3> HIDE DEF invalid
    <3> QED
      BY <1>1, <2>6, <2>8, <2>9, <2>10, <2>11
  <2>13. /\ incoming' = incoming \o s.pcm /\ Len(s.pcm) <= space
         /\ Count(parser, c) \in Nat
         /\ Count(parser', c) = Count(parser, c) + Len(s.pcm) /\ Count(parser', c) \in 0 .. Total(c)
    BY <2>1, <2>5, <2>6
  <2> HIDE DEF c, invalid
  <2> SUFFICES \E pcm \in Seq(Points) :
                 /\ incoming' = incoming \o pcm /\ Len(pcm) <= StreamSize - Len(incoming)
                 /\ Count(parser, c) \in Nat
                 /\ Count(parser', c) = Count(parser, c) + Len(pcm)
                 /\ Count(parser', c) \in 0 .. Total(c)
                 /\ \A i \in 1 .. Len(pcm) : pcm[i] = <<DataOf(c), Count(parser, c) + i>>
                 /\ pcm # <<>> \/ flags.started => flags'.started
                 /\ reply' = [chunks |-> c, got |-> reply.got, fed |-> reply'.fed]
                 /\ \/ pc' = "leaving" /\ flags'.result = "failed" /\ ~Sound(c)
                    \/ /\ pc' \in {"reading", "feeding"} /\ flags'.result = flags.result
                       /\ pc' = "reading" => reply'.fed = reply'.got
                       /\ Downloading(parser', reply')
    BY <1>1, <2>9 DEF c
  <2> QED
    BY <2>6, <2>7, <2>9, <2>10, <2>12, <2>13
<1> QED
  BY <1>2, <1>3

\* ReadReply: a cancel is seen, a block is read, or the file is taken to be over.
LEMMA ReadReplySteps ==
  ASSUME DownloadInv, WorkInv, NEW n \in 0 .. ReadSize, ReadReply(n)
  PROVE  /\ pc = "reading" /\ parser' = parser /\ incoming' = incoming
         /\ \/ flags.cancel /\ pc' = "waiting" /\ UNCHANGED <<reply, flags>>
            \/ /\ pc' = "feeding" /\ flags' = flags /\ Downloading(parser, reply')
               /\ reply' = [chunks |-> reply.chunks, got |-> reply'.got, fed |-> reply.fed]
            \/ /\ pc' = "leaving" /\ reply' = reply /\ flags' = [flags EXCEPT !.result = Verdict(parser)]
               /\ Finished(parser) => /\ Complete(reply)
                                      /\ Count(parser, reply.chunks) = Total(reply.chunks)
               /\ Sound(reply.chunks) /\ reply.got = Len(File) => Finished(parser)
<1>1. /\ pc = "reading" /\ parser' = parser /\ incoming' = incoming
      /\ Downloading(parser, reply) /\ reply.fed = reply.got
  BY DEF ReadReply, DownloadInv, taskFrame, player
<1>2. CASE flags.cancel
  BY <1>1, <1>2 DEF ReadReply, Retry
<1>3. CASE ~flags.cancel /\ n > 0
  <2>1. /\ reply.got + n <= Len(File) /\ reply' = [reply EXCEPT !.got = @ + n]
        /\ pc' = "feeding" /\ flags' = flags
    BY <1>3 DEF ReadReply
  <2>2. reply' = [chunks |-> reply.chunks, got |-> reply.got + n, fed |-> reply.fed]
    BY <2>1 DEF DownloadInv
  <2>3. n \in Nat /\ reply.got \in Nat /\ reply.fed \in Nat
    BY <1>1, AudioPathAssumption DEF Downloading
  <2>4. Downloading(parser, reply')
    BY <1>1, <2>1, <2>2, <2>3 DEF Downloading, File
  <2> QED
    BY <1>1, <2>1, <2>2, <2>4
<1>4. CASE ~flags.cancel /\ ~(n > 0)
  <2>1. pc' = "leaving" /\ reply' = reply /\ flags' = [flags EXCEPT !.result = Verdict(parser)]
    BY <1>4 DEF ReadReply, Leave
  <2> DEFINE c == reply.chunks
  <2>2. /\ c \in Files /\ Wave(c) /\ reply.fed \in Nat
        /\ Count(parser, c) > 0 => parser.rate = PlayRate
    BY <1>1, AudioPathAssumption DEF Downloading
  <2>3. PICK off : Begins(c, off) /\ Pos(parser, c, off, reply.fed)
    BY <1>1 DEF Downloading
  <2>4. ASSUME Finished(parser)
        PROVE  Complete(reply) /\ Count(parser, c) = Total(c)
    BY <2>2, <2>3, <2>4, FinishedIsSound DEF Complete
  <2>5. ASSUME Sound(c), reply.got = Len(File) PROVE Finished(parser)
    <3>1. Pos(parser, c, off, Len(WavFile(c)))
      BY <1>1, <2>3, <2>5 DEF File
    <3> QED
      BY <2>2, <2>3, <2>5, <3>1, EndFinishes
  <2> QED
    BY <1>1, <2>1, <2>4, <2>5
<1> QED
  BY <1>2, <1>3, <1>4

\* Poll: nothing, or a new download.
LEMMA PollSteps ==
  ASSUME WorkInv, Poll
  PROVE  /\ pc = "waiting" /\ incoming' = incoming /\ flags'.started = flags.started
         /\ flags'.cancel = flags.cancel
         /\ \/ pc' = "leaving" /\ flags'.result # "ready" /\ UNCHANGED <<reply, parser>>
            \/ /\ ~flags.cancel /\ pc' = "reading" /\ flags' = flags
               /\ reply'.chunks \in Files
               /\ reply' = [chunks |-> reply'.chunks, got |-> 0, fed |-> 0]
               /\ Downloading(parser', reply') /\ Count(parser', reply'.chunks) = 0
<1>1. pc = "waiting" /\ incoming' = incoming
  BY DEF Poll, taskFrame, player
<1>2. CASE (Leave("cancelled") \/ Leave("failed")) /\ UNCHANGED download
  BY <1>1, <1>2 DEF Leave, download, WorkInv, NoFlags
<1>3. CASE /\ ~flags.cancel /\ pc' = "reading" /\ UNCHANGED flags
           /\ \E f \in Files : reply' = [NoReply EXCEPT !.chunks = f]
           /\ parser' = NewParser
  <2>1. PICK f \in Files : reply' = [NoReply EXCEPT !.chunks = f]
    BY <1>3
  <2>2. reply' = [chunks |-> f, got |-> 0, fed |-> 0] /\ Wave(f)
    BY <2>1, AudioPathAssumption DEF NoReply
  <2>3. PICK off : Begins(f, off)
    BY <2>2, FileIs
  <2>4. Pos(NewParser, f, off, 0) /\ Count(NewParser, f) = 0
    BY <2>2, <2>3, PosStart
  <2>5. Len(WavFile(f)) \in Nat
    BY <2>2, <2>3, Offsets
  <2>6. Downloading(parser', reply')
    BY <1>3, <2>2, <2>3, <2>4, <2>5 DEF Downloading
  <2> QED
    BY <1>1, <1>3, <2>2, <2>4, <2>6
<1> QED
  BY <1>2, <1>3 DEF Poll

LEMMA NextDownload ==
  ASSUME SpeakerInv, DownloadInv, WorkInv, [Next]_vars
  PROVE  DownloadInv'
<1>1. flags.result = "ready" => pc \in {"leaving", "none"}
  BY DEF DownloadInv
<1>2. CASE Press
  <2>1. reply' = NoReply /\ pc' = "opening" /\ flags'.result = "waiting"
    BY <1>2 DEF Press, NoFlags
  <2> QED
    BY <2>1 DEF DownloadInv, NoReply
<1>3. CASE \/ PressRefused \/ RecordingStops \/ Play \/ Acknowledge \/ SleepAborted \/ Elapse
           \/ \E n \in 0 .. CaptureSize, released \in BOOLEAN : Record(n, released)
           \/ \E pressed \in BOOLEAN : Process(pressed)
           \/ UNCHANGED vars
  <2>1. UNCHANGED <<reply, parser, pc>>
    BY <1>3 DEF PressRefused, RecordingStops, Play, Acknowledge, SleepAborted, Elapse, Record, Process,
                vars, download
  <2>2. flags'.result = flags.result
    <3>1. CASE PressRefused \/ Acknowledge \/ SleepAborted \/ Elapse \/ UNCHANGED vars
      BY <3>1 DEF PressRefused, Acknowledge, SleepAborted, Elapse, vars
    <3>2. CASE RecordingStops
      <4>1. OverflowFlags.result = flags.result
        BY DEF OverflowFlags, WorkInv, NoFlags
      <4> QED
        BY <3>2, <4>1 DEF RecordingStops
    <3>3. CASE Play
      BY <3>3 DEF Play, WorkInv, NoFlags
    <3>4. ASSUME NEW n, NEW released, Record(n, released) PROVE flags'.result = flags.result
      BY <3>4 DEF Record, WorkInv, NoFlags
    <3>5. ASSUME NEW pressed, Process(pressed) PROVE flags'.result = flags.result
      <4>1. \E x, y : flags' = [flags EXCEPT !.finished = x, !.cancel = y]
        BY <3>5 DEF Process
      <4> QED
        BY <4>1 DEF WorkInv, NoFlags
    <3> QED
      BY <1>3, <3>1, <3>2, <3>3, <3>4, <3>5
  <2> QED
    BY <1>1, <2>1, <2>2, DownloadSame
<1>4. ASSUME NEW how, Open(how) PROVE DownloadInv'
  BY <1>1, <1>4, DownloadSame DEF Open, download, WorkInv, NoFlags
<1>5. CASE Receive \/ Check \/ WriteBreaks \/ \E accepted \in BOOLEAN : Answered(accepted)
  <2>1. /\ UNCHANGED download /\ pc \in Sending /\ pc' \notin {"reading", "feeding"}
        /\ flags' = flags \/ GivesUp
    BY <1>5, ReceiveSteps, CheckSteps, AnsweredSteps
       DEF Receive, Check, WriteBreaks, Answered, GivesUp, Sending, Uploading
  <2>2. GivesUp => flags'.result = "failed"
    BY DEF GivesUp, WorkInv, NoFlags
  <2> QED
    BY <1>1, <2>1, <2>2, DownloadSame DEF download, Sending, Uploading
<1>6. ASSUME NEW n, Write(n) PROVE DownloadInv'
  BY <1>1, <1>6, DownloadSame DEF Write, download
<1>7. CASE Poll
  <2>1. CASE pc' = "leaving" /\ flags'.result # "ready" /\ UNCHANGED <<reply, parser>>
    BY <2>1, DownloadSame
  <2>2. CASE /\ pc' = "reading" /\ flags' = flags
             /\ reply' = [chunks |-> reply'.chunks, got |-> 0, fed |-> 0]
             /\ Downloading(parser', reply')
    <3>1. reply'.got = 0 /\ reply'.fed = 0
      BY <2>2
    <3>2. pc = "waiting"
      BY <1>7, PollSteps
    <3> QED
      BY <1>1, <2>2, <3>1, <3>2, DownloadNext
  <2> QED
    BY <1>7, <2>1, <2>2, PollSteps
<1>8. CASE ReadBreaks
  BY <1>1, <1>8, DownloadSame DEF ReadBreaks, Retry, Leave, download, WorkInv, NoFlags
<1>9. CASE FeedReply
  <2>1. pc = "feeding" /\ flags.result # "ready"
    BY <1>1, <1>9, FeedReplySteps
  <2>2. CASE pc' = "waiting" /\ UNCHANGED <<reply, parser, flags>>
    BY <2>1, <2>2, DownloadSame
  <2>3. CASE /\ reply' = [chunks |-> reply.chunks, got |-> reply.got, fed |-> reply'.fed]
             /\ \/ pc' = "leaving" /\ flags'.result = "failed"
                \/ /\ pc' \in {"reading", "feeding"} /\ flags'.result = flags.result
                   /\ pc' = "reading" => reply'.fed = reply'.got
                   /\ Downloading(parser', reply')
    <3>1. reply'.chunks = reply.chunks /\ reply'.got = reply.got
      BY <2>3
    <3>2. CASE pc' = "leaving" /\ flags'.result = "failed"
      BY <2>3, <3>1, <3>2 DEF DownloadInv
    <3>3. CASE pc' \in {"reading", "feeding"} /\ flags'.result = flags.result
      BY <2>1, <2>3, <3>1, <3>3, DownloadNext
    <3> QED
      BY <2>3, <3>2, <3>3
  <2> QED
    BY <1>9, <2>2, <2>3, FeedReplySteps
<1>10. CASE Exit
  BY <1>1, <1>10, DownloadSame DEF Exit, download, WorkInv, NoFlags
<1>11. ASSUME NEW n \in 0 .. ReadSize, ReadReply(n) PROVE DownloadInv'
  <2>1. pc = "reading" /\ parser' = parser /\ flags.result # "ready"
    BY <1>1, <1>11, ReadReplySteps
  <2>2. CASE pc' = "waiting" /\ UNCHANGED <<reply, flags>>
    BY <2>1, <2>2, DownloadSame
  <2>3. CASE /\ pc' = "feeding" /\ flags' = flags /\ Downloading(parser, reply')
             /\ reply' = [chunks |-> reply.chunks, got |-> reply'.got, fed |-> reply.fed]
    <3>1. reply'.chunks = reply.chunks /\ reply'.fed = reply.fed
      BY <2>3
    <3> QED
      BY <2>1, <2>3, <3>1, DownloadNext
  <2>4. CASE /\ pc' = "leaving" /\ reply' = reply /\ flags' = [flags EXCEPT !.result = Verdict(parser)]
             /\ Finished(parser) => Complete(reply)
    <3>1. flags'.result = Verdict(parser)
      BY <2>4 DEF WorkInv, NoFlags
    <3>2. flags'.result = "ready" => Complete(reply)
      BY <2>4, <3>1 DEF Verdict
    <3>3. Complete(reply) => Complete(reply')
      BY <2>4
    <3> QED
      BY <2>4, <3>2 DEF DownloadInv, Complete
  <2> QED
    BY <1>11, <2>2, <2>3, <2>4, ReadReplySteps
<1>12. CASE MainLoop
  BY <1>2, <1>3, <1>12 DEF MainLoop
<1>13. CASE VoiceTurn
  BY <1>4, <1>5, <1>6, <1>7, <1>8, <1>9, <1>10, <1>11, <1>13 DEF VoiceTurn
<1> QED
  BY <1>3, <1>12, <1>13 DEF Next

-----------------------------------------------------------------------------
(* The speaker.                                                            *)

\* One sequence behind another.
LEMMA Joined ==
  ASSUME NEW X, NEW s \in Seq(X), NEW t \in Seq(X)
  PROVE  /\ s \o t \in Seq(X) /\ Len(s) \in Nat /\ Len(t) \in Nat
         /\ Len(s \o t) = Len(s) + Len(t)
         /\ \A i \in 1 .. Len(s) + Len(t) : (s \o t)[i] = IF i <= Len(s) THEN s[i] ELSE t[i - Len(s)]
  OBVIOUS

LEMMA JoinedEmpty ==
  ASSUME NEW X, NEW s \in Seq(X)
  PROVE  s \o <<>> = s /\ <<>> \o s = s
  OBVIOUS

\* A part of a sequence.
LEMMA PartOf ==
  ASSUME NEW X, NEW s \in Seq(X), NEW a \in Nat, NEW b \in Nat, a <= b, b <= Len(s)
  PROVE  /\ SubSeq(s, a + 1, b) \in Seq(X) /\ Len(SubSeq(s, a + 1, b)) = b - a
         /\ \A i \in 1 .. b - a : SubSeq(s, a + 1, b)[i] = s[a + i]
  OBVIOUS

\* Both ends of the codec closed: nothing is waiting to be played.
LEMMA DeinitedLevels ==
  ASSUME NEW c, NEW s, Fits(c, s), Levels(c)
  PROVE  Levels(Deinited(c))
  BY DEF Fits, Levels, Deinited

LEMMA EnsuredLevels ==
  ASSUME NEW c, NEW s, NEW ok, Fits(c, s), Levels(c)
  PROVE  Levels(Ensured(c, ok))
<1>1. Levels(Deinited(c))
  BY DeinitedLevels
<1>2. CASE ok
  <2>1. Levels([Deinited(c) EXCEPT !.ready = TRUE, !.mic = TRUE])
    BY <1>1 DEF Fits, Levels, Deinited
  <2> QED
    BY <1>2, <2>1 DEF Ensured, CaptureInit
<1> QED
  BY <1>1, <1>2 DEF Ensured, CaptureInit

LEMMA CaptureLevels ==
  ASSUME NEW c, NEW s, Fits(c, s), Levels(c)
  PROVE  Levels(CaptureStarted(c)) /\ Levels(CaptureStopped(c))
  BY DEF Fits, Levels, CaptureStarted, CaptureStopped

LEMMA PlaybackLevels ==
  ASSUME NEW c, NEW s, NEW ok \in BOOLEAN, NEW reopened \in BOOLEAN, Fits(c, s), Levels(c)
  PROVE  Levels(PlaybackStarted(c, ok, reopened))
<1>1. CASE ~c.ready \/ c.playback
  BY <1>1 DEF PlaybackStarted
<1>2. CASE c.ready /\ ~c.playback
  <2> DEFINE e == PlaybackStarted(c, ok, reopened)
  <2>1. e = [c EXCEPT !.capture = FALSE, !.mic = ~ok /\ reopened, !.spk = ok,
                      !.playback = ok, !.due = IF ok THEN 0 ELSE @]
    BY <1>2 DEF PlaybackStarted
  <2>2. e.dma = <<>> /\ e.due = (IF ok THEN 0 ELSE c.due) /\ e.playback = ok /\ c.due \in Int
    BY <1>2, <2>1 DEF Fits, Levels
  <2> HIDE DEF e
  <2>3. <<>> \in Seq(Points) /\ Len(<<>>) = 0 /\ FromNow(0) = 0
    BY DEF FromNow
  <2>4. Levels(e)
    BY <2>2, <2>3 DEF Levels
  <2> QED
    BY <2>4 DEF e
<1> QED
  BY <1>1, <1>2 DEF Fits

LEMMA StopLevels ==
  ASSUME NEW c, NEW s, NEW reopened, Fits(c, s), Levels(c)
  PROVE  Levels(PlaybackStopped(c, reopened))
<1>1. CASE ~c.playback
  BY <1>1 DEF PlaybackStopped
<1>2. CASE c.playback
  <2> DEFINE e == PlaybackStopped(c, reopened)
  <2>1. e = [c EXCEPT !.playback = FALSE, !.spk = FALSE, !.mic = reopened, !.due = 0, !.dma = <<>>]
    BY <1>2 DEF PlaybackStopped
  <2>2. e.dma = <<>> /\ e.due = 0 /\ e.playback = FALSE
    BY <2>1 DEF Fits
  <2>3. <<>> \in Seq(Points)
    OBVIOUS
  <2> HIDE DEF e
  <2>4. Levels(e)
    BY <2>2, <2>3 DEF Levels
  <2> QED
    BY <2>4 DEF e
<1> QED
  BY <1>1, <1>2

LEMMA WrittenLevels ==
  ASSUME NEW c, NEW s, Fits(c, s), Levels(c), NEW bytes \in Seq(Points), NEW h \in Nat, Len(bytes) = 2 * h
  PROVE  /\ Levels(Written(c, bytes)) /\ Written(c, bytes).dma = c.dma \o bytes
         /\ Written(c, bytes).due = FromNow(c.due) + h /\ Written(c, bytes).playback = c.playback
<1> DEFINE e == Written(c, bytes)
<1>1. e = [c EXCEPT !.dma = c.dma \o bytes, !.due = FromNow(c.due) + Len(bytes) \div 2]
  BY DEF Written
<1>2. Len(bytes) \div 2 = h
  BY Z3
<1>3. e.dma = c.dma \o bytes /\ e.due = FromNow(c.due) + h /\ e.playback = c.playback
  BY <1>1, <1>2 DEF Fits
<1>4. /\ c.dma \in Seq(Points) /\ c.due \in Int /\ FromNow(c.due) \in Nat
      /\ c.playback => Len(c.dma) = 2 * FromNow(c.due)
  BY DEF Levels, FromNow
<1>5. c.dma \o bytes \in Seq(Points) /\ Len(c.dma \o bytes) = Len(c.dma) + Len(bytes) /\ Len(c.dma) \in Nat
  BY <1>4, Joined
<1> HIDE DEF e
<1>6. /\ e.dma \in Seq(Points) /\ e.due \in Int
      /\ e.playback => Len(e.dma) = 2 * FromNow(e.due)
  <2>1. \A t \in Nat : FromNow(t) = t
    BY DEF FromNow
  <2>2. FromNow(c.due) + h \in Nat /\ e.due = FromNow(c.due) + h
    BY <1>3, <1>4
  <2>3. FromNow(e.due) = e.due
    BY <2>1, <2>2
  <2>4. e.playback => Len(e.dma) = 2 * FromNow(e.due)
    <3> SUFFICES ASSUME e.playback PROVE Len(e.dma) = 2 * FromNow(e.due)
      OBVIOUS
    <3>1. Len(c.dma) = 2 * FromNow(c.due) /\ Len(e.dma) = Len(c.dma) + 2 * h
      BY <1>3, <1>4, <1>5
    <3> QED
      BY <1>4, <2>2, <2>3, <3>1
  <2>5. e.dma \in Seq(Points) /\ e.due \in Int
    BY <1>3, <1>5, <2>2
  <2> QED
    BY <2>4, <2>5
<1>7. Levels(e)
  BY <1>6 DEF Levels
<1> QED
  BY <1>3, <1>7 DEF e

\* The speaker has played what it was given.
LEMMA DrainedIsEmpty ==
  ASSUME NEW c, NEW s, Fits(c, s), Levels(c), Drained(c)
  PROVE  c.dma = <<>>
<1>1. CASE ~c.playback
  BY <1>1 DEF Fits
<1>2. CASE c.playback
  <2>1. c.due <= 0 /\ c.due \in Int /\ c.dma \in Seq(Points) /\ Len(c.dma) = 2 * FromNow(c.due)
    BY <1>2 DEF Levels, Drained
  <2>2. FromNow(c.due) = 0
    BY <2>1 DEF FromNow
  <2> QED
    BY <2>1, <2>2
<1> QED
  BY <1>1, <1>2

\* A frame has been played.
LEMMA ElapseSteps ==
  ASSUME SpeakerInv, CodecInv, Elapse
  PROVE  /\ state = "PLAYING" /\ UNCHANGED <<state, flags, incoming, pending, pc, reply, parser>>
         /\ Levels(codec')
         /\ \/ codec.dma = <<>> /\ codec'.dma = <<>> /\ heard' = heard
            \/ /\ Len(codec.dma) >= 2 /\ codec'.dma = SubSeq(codec.dma, 3, Len(codec.dma))
               /\ heard' = heard \o SubSeq(codec.dma, 1, 2)
<1>1. /\ codec.playback /\ codec.due > -1
      /\ codec' = [codec EXCEPT !.due = @ - 1,
                                !.dma = IF @ = <<>> THEN @ ELSE SubSeq(@, 3, Len(@))]
      /\ heard' = heard \o (IF codec.dma = <<>> THEN <<>> ELSE SubSeq(codec.dma, 1, 2))
  BY DEF Elapse
<1>2. state = "PLAYING" /\ UNCHANGED <<state, flags, incoming, pending, pc, reply, parser>>
  BY <1>1 DEF Elapse, CodecInv, Fits, download
<1>3. /\ codec'.playback = codec.playback /\ codec'.due = codec.due - 1
      /\ codec'.dma = IF codec.dma = <<>> THEN codec.dma ELSE SubSeq(codec.dma, 3, Len(codec.dma))
  BY <1>1 DEF CodecInv, Fits
<1>4. /\ codec.dma \in Seq(Points) /\ codec.due \in Nat /\ Len(codec.dma) = 2 * codec.due
      /\ heard \in Seq(Points)
  BY <1>1 DEF SpeakerInv, Levels, FromNow
<1>5. CASE codec.dma = <<>>
  <2>1. codec'.dma = <<>> /\ heard' = heard
    BY <1>1, <1>3, <1>4, <1>5
  <2>2. codec'.due = -1 /\ FromNow(-1) = 0
    BY <1>3, <1>4, <1>5 DEF FromNow
  <2>3. <<>> \in Seq(Points) /\ Len(<<>>) = 0 /\ -1 \in Int
    OBVIOUS
  <2>4. Levels(codec')
    BY <2>1, <2>2, <2>3 DEF Levels
  <2> QED
    BY <1>2, <1>5, <2>1, <2>4
<1>6. CASE codec.dma # <<>>
  <2>1. codec.due > 0 /\ Len(codec.dma) >= 2
    BY <1>4, <1>6
  <2>2. codec'.dma = SubSeq(codec.dma, 3, Len(codec.dma)) /\ heard' = heard \o SubSeq(codec.dma, 1, 2)
    BY <1>1, <1>3, <1>6
  <2>3. codec'.dma \in Seq(Points) /\ Len(codec'.dma) = Len(codec.dma) - 2
    BY SMTT(20), <1>4, <2>1, <2>2
  <2>4. codec'.due \in Nat /\ FromNow(codec'.due) = codec'.due /\ Len(codec'.dma) = 2 * codec'.due
    BY <1>3, <1>4, <2>1, <2>3 DEF FromNow
  <2>5. Levels(codec')
    BY <2>3, <2>4 DEF Levels
  <2> QED
    BY <1>2, <2>1, <2>2, <2>5
<1> QED
  BY <1>5, <1>6

\* What turn_playback_drain takes: whole frames, and at most one byte behind them.
LEMMA WholeFrames ==
  ASSUME NEW X, NEW bytes \in Seq(X)
  PROVE  LET h == Len(bytes) \div 2
             frames == SubSeq(bytes, 1, 2 * h)
             left == SubSeq(bytes, Len(frames) + 1, Len(bytes))
         IN  /\ h \in Nat /\ 2 * h <= Len(bytes)
             /\ frames \in Seq(X) /\ Len(frames) = 2 * h
             /\ left = SubSeq(bytes, 2 * h + 1, Len(bytes)) /\ left \in Seq(X)
             /\ Len(left) = Len(bytes) - 2 * h /\ Len(left) <= 1
<1>1. Len(bytes) \in Nat
  OBVIOUS
<1>2. ASSUME NEW l \in Nat PROVE l \div 2 \in Nat /\ 2 * (l \div 2) <= l /\ l - 2 * (l \div 2) <= 1
  BY <1>2, Z3
<1> DEFINE h == Len(bytes) \div 2
<1>3. h \in Nat /\ 2 * h <= Len(bytes) /\ Len(bytes) - 2 * h <= 1
  BY <1>1, <1>2
<1> HIDE DEF h
<1> DEFINE frames == SubSeq(bytes, 1, 2 * h)
<1>4. frames \in Seq(X) /\ Len(frames) = 2 * h
  BY <1>1, <1>3
<1> HIDE DEF frames
<1> DEFINE left == SubSeq(bytes, Len(frames) + 1, Len(bytes))
<1>5. left = SubSeq(bytes, 2 * h + 1, Len(bytes))
  BY <1>4
<1>6. left \in Seq(X) /\ Len(left) = Len(bytes) - 2 * h
  <2> HIDE DEF left
  <2>1. 2 * h \in Nat
    BY <1>3
  <2>2. ASSUME NEW a \in Nat, a <= Len(bytes)
        PROVE  /\ SubSeq(bytes, a + 1, Len(bytes)) \in Seq(X)
               /\ Len(SubSeq(bytes, a + 1, Len(bytes))) = Len(bytes) - a
    BY <1>1, <2>2, PartOf
  <2>3. /\ SubSeq(bytes, 2 * h + 1, Len(bytes)) \in Seq(X)
        /\ Len(SubSeq(bytes, 2 * h + 1, Len(bytes))) = Len(bytes) - 2 * h
    BY <1>3, <2>1, <2>2
  <2> QED
    BY <1>5, <2>3
<1> HIDE DEF left
<1> QED
  BY <1>3, <1>4, <1>5, <1>6 DEF h, frames, left

\* Play: the reply is given up, or goes on to the speaker, or has been heard.
LEMMA PlaySteps ==
  ASSUME SpeakerInv, CodecInv, Play
  PROVE  /\ state = "PLAYING" /\ UNCHANGED <<heard, pc, reply, parser>> /\ Levels(codec')
         /\ \/ /\ state' \in {"IDLE", "ERROR"} /\ (state' = "IDLE" => flags.result = "cancelled")
               /\ pending' = <<>> /\ incoming' \in Seq(Points) /\ Len(incoming') <= Len(incoming)
            \/ \E n \in 0 .. Len(incoming), h \in Nat, bytes \in Seq(Points) :
                 /\ bytes = pending \o SubSeq(incoming, 1, n) /\ 2 * h <= Len(bytes)
                 /\ incoming' = SubSeq(incoming, n + 1, Len(incoming)) /\ flags' = flags
                 /\ state' = state /\ codec'.dma = codec.dma \o SubSeq(bytes, 1, 2 * h)
                 /\ pending' = SubSeq(bytes, 2 * h + 1, Len(bytes)) /\ Len(bytes) - 2 * h <= 1
            \/ /\ state' = "IDLE" /\ flags.result = "ready"
               /\ incoming = <<>> /\ pending = <<>> /\ codec.dma = <<>>
               /\ incoming' = <<>> /\ pending' = <<>>
<1> DEFINE n == Least(Len(incoming), ReadSize - Len(pending))
           bytes == pending \o SubSeq(incoming, 1, n)
           h == Len(bytes) \div 2
           frames == SubSeq(bytes, 1, 2 * h)
           left == SubSeq(bytes, Len(frames) + 1, Len(bytes))
           rejected == frames # <<>> /\ ~Writable(codec, frames)
           after == IF frames = <<>> THEN codec ELSE Written(codec, frames)
           ended == flags.result = "ready" /\ n = Len(incoming)
<1>1. state = "PLAYING" /\ UNCHANGED <<heard, pc, reply, parser>>
  BY DEF Play, download
<1>2. \/ state' = "ERROR" /\ Release(codec) /\ incoming' = incoming
      \/ state' = "IDLE" /\ flags.result = "cancelled" /\ Release(codec) /\ incoming' = incoming
      \/ /\ incoming' = SubSeq(incoming, n + 1, Len(incoming))
         /\ \/ state' = "ERROR" /\ Release(codec)
            \/ /\ ~rejected /\ ~(ended /\ left # <<>>) /\ UNCHANGED flags
               /\ IF ended /\ Drained(after) THEN state' = "IDLE" /\ Release(after)
                  ELSE UNCHANGED state /\ codec' = after /\ pending' = left
  BY DEF Play
<1>3. /\ incoming \in Seq(Points) /\ Len(incoming) \in Nat /\ Len(pending) \in Nat /\ Len(pending) <= 1
      /\ pending \in Seq(Points) /\ ReadSize \in Nat \ {0} /\ Levels(codec) /\ Fits(codec, "PLAYING")
  BY <1>1, AudioPathAssumption DEF SpeakerInv, CodecInv
<1>4. n \in 0 .. Len(incoming)
  BY <1>3 DEF Least
<1> HIDE DEF n
<1>5. SubSeq(incoming, 1, n) \in Seq(Points) /\ Len(SubSeq(incoming, 1, n)) = n
  BY <1>3, <1>4
<1>6. bytes \in Seq(Points) /\ Len(bytes) = Len(pending) + n
  BY <1>3, <1>5, Joined
<1>7. SubSeq(incoming, n + 1, Len(incoming)) \in Seq(Points)
      /\ Len(SubSeq(incoming, n + 1, Len(incoming))) = Len(incoming) - n
  BY <1>3, <1>4
<1> HIDE DEF bytes
<1>8. /\ h \in Nat /\ 2 * h <= Len(bytes)
      /\ frames \in Seq(Points) /\ Len(frames) = 2 * h
      /\ left = SubSeq(bytes, 2 * h + 1, Len(bytes)) /\ left \in Seq(Points)
      /\ Len(left) = Len(bytes) - 2 * h /\ Len(left) <= 1
  BY <1>6, WholeFrames
<1> HIDE DEF h
<1>9. codec.dma \in Seq(Points) /\ frames = SubSeq(bytes, 1, 2 * h)
  BY <1>3 DEF Levels
<1> HIDE DEF frames, left
<1>10. ASSUME ~rejected
       PROVE  /\ Levels(after) /\ after.dma = codec.dma \o frames /\ Fits(after, "PLAYING")
              /\ frames # <<>> => after.playback /\ after.due = FromNow(codec.due) + h
  <2>1. CASE frames = <<>>
    <3>1. after = codec
      BY <2>1
    <3>2. codec.dma \o frames = codec.dma
      BY <1>9, <2>1, JoinedEmpty
    <3> HIDE DEF after
    <3> QED
      BY <1>3, <2>1, <3>1, <3>2
  <2>2. CASE frames # <<>>
    <3>1. codec.playback /\ after = Written(codec, frames)
      BY <1>10, <2>2 DEF Writable
    <3> HIDE DEF after
    <3> QED
      BY <1>3, <1>8, <3>1, WrittenLevels, WrittenFits
  <2> QED
    BY <2>1, <2>2
<1>11. ASSUME NEW c, Levels(c), Fits(c, "PLAYING"), Release(c) PROVE Levels(codec') /\ pending' = <<>>
  BY <1>11, StopLevels DEF Release
<1> HIDE DEF rejected, after, ended
<1>12. CASE /\ incoming' = incoming /\ Release(codec)
            /\ state' = "ERROR" \/ (state' = "IDLE" /\ flags.result = "cancelled")
  <2>1. Levels(codec') /\ pending' = <<>>
    BY <1>3, <1>11, <1>12
  <2>2. incoming' \in Seq(Points) /\ Len(incoming') <= Len(incoming)
    BY <1>3, <1>12
  <2> QED
    BY <1>1, <1>12, <2>1, <2>2
<1>13. CASE incoming' = SubSeq(incoming, n + 1, Len(incoming)) /\ state' = "ERROR" /\ Release(codec)
  BY <1>1, <1>3, <1>4, <1>7, <1>11, <1>13
<1>14. CASE /\ incoming' = SubSeq(incoming, n + 1, Len(incoming))
            /\ ~rejected /\ UNCHANGED <<flags, state>> /\ codec' = after /\ pending' = left
  <2>1. Levels(codec') /\ codec'.dma = codec.dma \o SubSeq(bytes, 1, 2 * h)
    BY <1>9, <1>10, <1>14
  <2>2. pending' = SubSeq(bytes, 2 * h + 1, Len(bytes)) /\ Len(bytes) - 2 * h <= 1
    BY <1>8, <1>14
  <2>3. bytes = pending \o SubSeq(incoming, 1, n)
    BY DEF bytes
  <2> QED
    BY <1>1, <1>4, <1>6, <1>8, <1>14, <2>1, <2>2, <2>3
<1>15. CASE /\ incoming' = SubSeq(incoming, n + 1, Len(incoming))
            /\ ~rejected /\ ~(ended /\ left # <<>>) /\ ended /\ Drained(after)
            /\ state' = "IDLE" /\ Release(after)
  <2>1. flags.result = "ready" /\ n = Len(incoming) /\ left = <<>>
    BY <1>15 DEF ended
  <2>2. frames = <<>>
    <3> SUFFICES ASSUME frames # <<>> PROVE FALSE
      OBVIOUS
    <3>1. h > 0
      BY <1>8
    <3>2. FromNow(codec.due) \in Nat
      BY <1>3 DEF Levels, FromNow
    <3>3. after.playback /\ after.due = FromNow(codec.due) + h
      BY <1>10, <1>15
    <3> QED
      BY <1>8, <1>15, <3>1, <3>2, <3>3 DEF Drained
  <2>3. after = codec
    BY <2>2 DEF after
  <2>4. codec.dma = <<>>
    BY <1>3, <1>15, <2>3, DrainedIsEmpty
  <2>5. Len(bytes) = 0
    BY <1>6, <1>8, <2>1, <2>2
  <2>6. incoming = <<>> /\ pending = <<>>
    <3>1. Len(incoming) = 0 /\ Len(pending) = 0
      <4>1. Len(pending) + Len(incoming) = 0
        BY <1>6, <2>1, <2>5
      <4> QED
        BY <1>3, <4>1
    <3> QED
      BY <1>3, <3>1
  <2>7. incoming' = <<>>
    BY <1>3, <1>7, <1>15, <2>1
  <2>8. Levels(codec') /\ pending' = <<>>
    BY <1>3, <1>11, <1>15, <2>3
  <2> QED
    BY <1>1, <1>15, <2>1, <2>4, <2>6, <2>7, <2>8
<1> QED
  BY <1>2, <1>12, <1>13, <1>14, <1>15

\* Press: the recording begins with nothing to be played.
LEMMA PressSteps ==
  ASSUME SpeakerInv, CodecInv, Press
  PROVE  /\ heard' = <<>> /\ incoming' = <<>> /\ pending' = <<>> /\ codec'.dma = <<>>
         /\ Levels(codec') /\ state' = "RECORDING" /\ pc' = "opening"
         /\ reply' = NoReply /\ parser' = NewParser /\ flags'.result = "waiting"
<1>1. PICK ok \in BOOLEAN : codec' = CaptureStarted(Ensured(codec, ok))
  BY DEF Press
<1>2. state = "IDLE" /\ Fits(codec, "IDLE") /\ Levels(codec)
  BY DEF Press, CodecInv, SpeakerInv
<1>3. Fits(Ensured(codec, ok), "IDLE") /\ Levels(Ensured(codec, ok))
  BY <1>2, EnsuredFits, EnsuredLevels
<1>4. Levels(codec')
  BY <1>1, <1>3, CaptureLevels
<1>5. Fits(codec', "RECORDING")
  BY <1>1, <1>2, CaptureFits
<1>6. codec'.dma = <<>>
  BY <1>5 DEF Fits
<1> QED
  BY <1>4, <1>6 DEF Press, NoFlags

\* Process: PLAYING begins with nothing in the speaker.
LEMMA ProcessSteps ==
  ASSUME SpeakerInv, CodecInv, NEW pressed \in BOOLEAN, Process(pressed)
  PROVE  /\ state = "PROCESSING" /\ UNCHANGED <<incoming, pending, heard, pc, reply, parser>>
         /\ Levels(codec') /\ codec.dma = <<>> /\ codec'.dma = <<>>
<1>1. state = "PROCESSING" /\ UNCHANGED <<incoming, pending, heard, pc, reply, parser>>
  BY DEF Process, player, download
<1>2. Fits(codec, "PROCESSING") /\ Levels(codec)
  BY <1>1 DEF CodecInv, SpeakerInv
<1>3. codec.dma = <<>>
  BY <1>2 DEF Fits
<1>4. CASE codec' = codec
  BY <1>1, <1>2, <1>3, <1>4
<1>5. CASE \E init, ok, reopened \in BOOLEAN :
             codec' = PlaybackStarted(Ensured(codec, init), ok, reopened)
  <2>1. PICK init \in BOOLEAN, ok \in BOOLEAN, reopened \in BOOLEAN :
          codec' = PlaybackStarted(Ensured(codec, init), ok, reopened)
    BY <1>5
  <2> DEFINE d == Ensured(codec, init)
  <2>2. Fits(d, "PROCESSING") /\ Levels(d)
    BY <1>2, EnsuredFits, EnsuredLevels
  <2> HIDE DEF d
  <2>3. Levels(PlaybackStarted(d, ok, reopened))
    BY <2>2, PlaybackLevels
  <2>4. PlaybackStarted(d, ok, reopened).dma = <<>>
    BY <2>2 DEF PlaybackStarted, Fits
  <2> QED
    BY <1>1, <1>3, <2>1, <2>3, <2>4 DEF d
<1> QED
  BY <1>4, <1>5 DEF Process

LEMMA SpeakerNext ==
  ASSUME incoming' \in Seq(Points), Len(incoming') <= StreamSize,
         pending' \in Seq(Points), Len(pending') <= 1, heard' \in Seq(Points), Levels(codec')
  PROVE  SpeakerInv'
  BY DEF SpeakerInv, Levels, FromNow

LEMMA NextSpeaker ==
  ASSUME SpeakerInv, DownloadInv, CodecInv, WorkInv, [Next]_vars
  PROVE  SpeakerInv'
<1>1. /\ incoming \in Seq(Points) /\ Len(incoming) <= StreamSize /\ Len(incoming) \in Nat
      /\ pending \in Seq(Points) /\ Len(pending) <= 1 /\ Len(pending) \in Nat
      /\ heard \in Seq(Points) /\ Levels(codec) /\ Fits(codec, state)
      /\ StreamSize \in Nat
  BY AudioPathAssumption DEF SpeakerInv, CodecInv
<1>2. <<>> \in Seq(Points) /\ Len(<<>>) = 0
  OBVIOUS
<1>3. ASSUME UNCHANGED player, Levels(codec') PROVE SpeakerInv'
  BY <1>1, <1>3, SpeakerNext DEF player
<1>4. CASE Press
  BY <1>1, <1>2, <1>4, PressSteps, SpeakerNext
<1>5. CASE PressRefused \/ Acknowledge \/ UNCHANGED vars
  BY <1>1, <1>3, <1>5 DEF PressRefused, Acknowledge, vars
<1>6. CASE RecordingStops
  BY <1>1, <1>3, <1>6, CaptureLevels DEF RecordingStops
<1>7. ASSUME NEW n, NEW released, Record(n, released) PROVE SpeakerInv'
  <2>1. UNCHANGED player /\ (codec' = codec \/ codec' = CaptureStopped(codec))
    BY <1>7 DEF Record
  <2> QED
    BY <1>1, <1>3, <2>1, CaptureLevels
<1>8. ASSUME NEW pressed \in BOOLEAN, Process(pressed) PROVE SpeakerInv'
  BY <1>3, <1>8, ProcessSteps DEF player
<1>9. CASE Play
  <2>1. heard' = heard /\ Levels(codec')
    BY <1>9, PlaySteps
  <2>2. CASE pending' = <<>> /\ incoming' \in Seq(Points) /\ Len(incoming') <= Len(incoming)
    <3>1. Len(incoming') <= StreamSize
      BY <1>1, <2>2
    <3> QED
      BY <1>1, <1>2, <2>1, <2>2, <3>1, SpeakerNext
  <2>3. CASE incoming' = <<>> /\ pending' = <<>>
    BY <1>1, <1>2, <2>1, <2>3, SpeakerNext
  <2>4. ASSUME NEW n \in 0 .. Len(incoming), NEW h \in Nat, NEW bytes \in Seq(Points),
               incoming' = SubSeq(incoming, n + 1, Len(incoming)),
               pending' = SubSeq(bytes, 2 * h + 1, Len(bytes)), 2 * h <= Len(bytes), Len(bytes) - 2 * h <= 1
        PROVE  SpeakerInv'
    <3>1. n \in Nat /\ n <= Len(incoming)
      BY <1>1
    <3>2. incoming' \in Seq(Points) /\ Len(incoming') = Len(incoming) - n
      BY <1>1, <2>4, <3>1, PartOf
    <3>3. ASSUME NEW a \in Nat, a <= Len(bytes)
          PROVE  /\ SubSeq(bytes, a + 1, Len(bytes)) \in Seq(Points)
                 /\ Len(SubSeq(bytes, a + 1, Len(bytes))) = Len(bytes) - a
      <4>1. Len(bytes) \in Nat
        OBVIOUS
      <4> QED
        BY <3>3, <4>1, PartOf
    <3>4. pending' \in Seq(Points) /\ Len(pending') = Len(bytes) - 2 * h
      <4>1. 2 * h \in Nat
        OBVIOUS
      <4> QED
        BY <2>4, <3>3, <4>1
    <3>5. Len(incoming') <= StreamSize /\ Len(pending') <= 1
      BY <1>1, <2>4, <3>1, <3>2, <3>4
    <3> QED
      BY <1>1, <2>1, <3>2, <3>4, <3>5, SpeakerNext
  <2> QED
    BY <1>9, <2>2, <2>3, <2>4, PlaySteps
<1>10. CASE SleepAborted
  BY <1>1, <1>3, <1>10, DeinitedLevels DEF SleepAborted
<1>11. CASE Elapse
  <2>1. incoming' = incoming /\ pending' = pending /\ Levels(codec') /\ codec.dma \in Seq(Points)
    BY <1>1, <1>11, ElapseSteps DEF Levels
  <2>2. CASE heard' = heard
    BY <1>1, <2>1, <2>2, SpeakerNext
  <2>3. CASE Len(codec.dma) >= 2 /\ heard' = heard \o SubSeq(codec.dma, 1, 2)
    <3>1. SubSeq(codec.dma, 1, 2) \in Seq(Points)
      BY <2>1, <2>3
    <3>2. heard' \in Seq(Points)
      BY <1>1, <2>3, <3>1, Joined
    <3> QED
      BY <1>1, <2>1, <3>2, SpeakerNext
  <2> QED
    BY <1>11, <2>2, <2>3, ElapseSteps
<1>12. CASE FeedReply
  <2>1. UNCHANGED <<pending, heard, codec>>
    BY <1>12 DEF FeedReply
  <2>2. CASE incoming' = incoming
    BY <1>1, <2>1, <2>2, SpeakerNext
  <2>3. ASSUME NEW pcm \in Seq(Points), incoming' = incoming \o pcm, Len(pcm) <= StreamSize - Len(incoming)
        PROVE  SpeakerInv'
    <3>1. incoming' \in Seq(Points) /\ Len(incoming') = Len(incoming) + Len(pcm) /\ Len(pcm) \in Nat
      BY <1>1, <2>3, Joined
    <3>2. Len(incoming') <= StreamSize
      BY <1>1, <2>3, <3>1
    <3> QED
      BY <1>1, <2>1, <3>1, <3>2, SpeakerNext
  <2> QED
    BY <1>12, <2>2, <2>3, FeedReplySteps
<1>13. ASSUME NEW how, NEW n, NEW accepted,
              \/ Open(how) \/ Receive \/ Check \/ WriteBreaks \/ Write(n)
              \/ Answered(accepted) \/ Poll \/ ReadBreaks \/ Exit \/ ReadReply(n)
       PROVE  SpeakerInv'
  <2>1. UNCHANGED <<player, codec>>
    BY <1>13 DEF Open, Receive, Check, WriteBreaks, Write, Answered, Poll, ReadBreaks, Exit, ReadReply, taskFrame
  <2> QED
    BY <1>1, <1>3, <2>1
<1>14. CASE MainLoop
  BY <1>4, <1>5, <1>6, <1>7, <1>8, <1>9, <1>10, <1>14 DEF MainLoop
<1>15. CASE VoiceTurn
  BY <1>12, <1>13, <1>15 DEF VoiceTurn
<1> QED
  BY <1>5, <1>11, <1>14, <1>15 DEF Next

-----------------------------------------------------------------------------
(* The order of the samples.                                               *)

\* s holds the samples of chunk d that follow the first k.
Numbered(s, d, k) == \A i \in 1 .. Len(s) : s[i] = <<d, k + i>>

\* What has arrived of the reply, from the speaker back to the stream.
Arrived == Len(heard) + Len(codec.dma) + Len(pending) + Len(incoming)
InTurn(d) ==
  /\ Numbered(heard, d, 0)
  /\ Numbered(codec.dma, d, Len(heard))
  /\ Numbered(pending, d, Len(heard) + Len(codec.dma))
  /\ Numbered(incoming, d, Len(heard) + Len(codec.dma) + Len(pending))

\* While the device is busy with a turn, what has arrived are the first samples of
\* the reply: as many as the parser has handed on, all of them when it is ready.
\* Once there are any the task does not begin another download.
Live == {"RECORDING", "PROCESSING", "PLAYING"}
Ordered ==
  /\ InTurn(DataOf(reply.chunks))
  /\ Arrived > 0 => /\ flags.started /\ reply.chunks \in Files
                    /\ HasData(reply.chunks, Len(reply.chunks)) /\ Arrived <= Total(reply.chunks)
  /\ pc \in {"reading", "feeding"} => Arrived = Count(parser, reply.chunks)
  /\ flags.result = "ready" => Arrived = Total(reply.chunks)
  /\ pc \in Uploading => Arrived = 0
  /\ pc = "waiting" => Arrived = 0 \/ flags.cancel
OrderInv == state \in Live => Ordered

\* Numbered sequences, joined and parted.
LEMMA NumberedJoin ==
  ASSUME NEW X, NEW s \in Seq(X), NEW t \in Seq(X), NEW d, NEW k \in Nat,
         Numbered(s, d, k), Numbered(t, d, k + Len(s))
  PROVE  Numbered(s \o t, d, k)
<1> SUFFICES ASSUME NEW i \in 1 .. Len(s \o t) PROVE (s \o t)[i] = <<d, k + i>>
  BY DEF Numbered
<1>1. /\ Len(s) \in Nat /\ Len(t) \in Nat /\ i \in 1 .. Len(s) + Len(t)
      /\ (s \o t)[i] = IF i <= Len(s) THEN s[i] ELSE t[i - Len(s)]
  BY Joined
<1>2. CASE i <= Len(s)
  <2>1. i \in 1 .. Len(s)
    BY <1>1, <1>2
  <2> QED
    BY <1>1, <1>2, <2>1 DEF Numbered
<1>3. CASE ~(i <= Len(s))
  <2>1. i - Len(s) \in 1 .. Len(t) /\ k + Len(s) + (i - Len(s)) = k + i
    BY <1>1, <1>3
  <2>2. t[i - Len(s)] = <<d, k + Len(s) + (i - Len(s))>>
    BY <2>1 DEF Numbered
  <2> QED
    BY <1>1, <1>3, <2>1, <2>2
<1> QED
  BY <1>2, <1>3

LEMMA NumberedPart ==
  ASSUME NEW X, NEW s \in Seq(X), NEW a \in Nat, NEW b \in Nat, a <= b, b <= Len(s), NEW d, NEW k \in Nat,
         Numbered(s, d, k)
  PROVE  Numbered(SubSeq(s, a + 1, b), d, k + a)
<1> DEFINE t == SubSeq(s, a + 1, b)
<1>1. Len(t) = b - a /\ \A i \in 1 .. b - a : t[i] = s[a + i]
  BY PartOf
<1> HIDE DEF t
<1> SUFFICES ASSUME NEW i \in 1 .. Len(t) PROVE t[i] = <<d, k + a + i>>
  BY DEF t, Numbered
<1>2. i \in 1 .. b - a /\ Len(s) \in Nat
  BY <1>1
<1>3. a + i \in 1 .. Len(s) /\ k + (a + i) = k + a + i
  BY <1>2
<1>4. s[a + i] = <<d, k + (a + i)>>
  BY <1>3 DEF Numbered
<1> QED
  BY <1>1, <1>2, <1>3, <1>4

LEMMA NumberedSplit ==
  ASSUME NEW X, NEW s \in Seq(X), NEW n \in Nat, n <= Len(s), NEW d, NEW k \in Nat, Numbered(s, d, k)
  PROVE  /\ SubSeq(s, 1, n) \in Seq(X) /\ Len(SubSeq(s, 1, n)) = n /\ Numbered(SubSeq(s, 1, n), d, k)
         /\ SubSeq(s, n + 1, Len(s)) \in Seq(X) /\ Len(SubSeq(s, n + 1, Len(s))) = Len(s) - n
         /\ Numbered(SubSeq(s, n + 1, Len(s)), d, k + n)
<1>1. Len(s) \in Nat
  OBVIOUS
<1>2. /\ SubSeq(s, n + 1, Len(s)) \in Seq(X) /\ Len(SubSeq(s, n + 1, Len(s))) = Len(s) - n
      /\ Numbered(SubSeq(s, n + 1, Len(s)), d, k + n)
  BY <1>1, PartOf, NumberedPart
<1>3. SubSeq(s, 1, n) \in Seq(X) /\ Len(SubSeq(s, 1, n)) = n
      /\ \A i \in 1 .. n : SubSeq(s, 1, n)[i] = s[i]
  BY <1>1
<1>4. Numbered(SubSeq(s, 1, n), d, k)
  <2>1. \A i \in 1 .. n : i \in 1 .. Len(s)
    BY <1>1
  <2> QED
    BY <1>3, <2>1 DEF Numbered
<1> QED
  BY <1>2, <1>3, <1>4

\* The first frame of a sequence, and the rest of it.
LEMMA FirstFrame ==
  ASSUME NEW X, NEW s \in Seq(X), Len(s) >= 2, NEW d, NEW k \in Nat, Numbered(s, d, k)
  PROVE  /\ SubSeq(s, 1, 2) \in Seq(X) /\ Len(SubSeq(s, 1, 2)) = 2 /\ Numbered(SubSeq(s, 1, 2), d, k)
         /\ SubSeq(s, 3, Len(s)) \in Seq(X) /\ Len(SubSeq(s, 3, Len(s))) = Len(s) - 2
         /\ Numbered(SubSeq(s, 3, Len(s)), d, k + 2)
<1>1. PICK n \in Nat : n = 2
  OBVIOUS
<1>2. n <= Len(s) /\ n + 1 = 3
  BY <1>1
<1>3. /\ SubSeq(s, 1, n) \in Seq(X) /\ Len(SubSeq(s, 1, n)) = n /\ Numbered(SubSeq(s, 1, n), d, k)
      /\ SubSeq(s, n + 1, Len(s)) \in Seq(X) /\ Len(SubSeq(s, n + 1, Len(s))) = Len(s) - n
      /\ Numbered(SubSeq(s, n + 1, Len(s)), d, k + n)
  BY <1>2, NumberedSplit
<1> QED
  BY <1>1, <1>2, <1>3

LEMMA NumberedNothing ==
  ASSUME NEW d, NEW k
  PROVE  Numbered(<<>>, d, k)
  BY DEF Numbered

\* A step that leaves the samples alone.
LEMMA OrderSame ==
  ASSUME OrderInv, state' \in Live => state \in Live,
         UNCHANGED <<heard, pending, incoming, reply>>,
         state' \in Live => codec'.dma = codec.dma,
         flags.started => flags'.started,
         pc' \in {"reading", "feeding"} => pc \in {"reading", "feeding"} /\ parser' = parser,
         flags'.result = "ready" => flags.result = "ready" \/ Arrived = Total(reply.chunks),
         pc' \in Uploading => pc \in Uploading,
         pc' = "waiting" => \/ flags'.cancel
                            \/ state \in Live => Arrived = 0
  PROVE  OrderInv'
<1> SUFFICES ASSUME state' \in Live PROVE Ordered'
  BY DEF OrderInv, Live
<1>1. Ordered
  BY DEF OrderInv
<1>2. codec'.dma = codec.dma /\ state \in Live
  OBVIOUS
<1>3. Arrived' = Arrived
  BY <1>2 DEF Arrived
<1>4. InTurn(DataOf(reply.chunks))'
  BY <1>1, <1>2 DEF Ordered, InTurn, Numbered, DataOf
<1> QED
  BY <1>1, <1>2, <1>3, <1>4 DEF Ordered, Total, Count, HasData, DataOf, Uploading

\* What there is to show of any other.
LEMMA OrderNext ==
  ASSUME NEW c, reply'.chunks = c, NEW d, d = DataOf(c),
         Numbered(heard', d, 0), Numbered(codec'.dma, d, Len(heard')),
         Numbered(pending', d, Len(heard') + Len(codec'.dma)),
         Numbered(incoming', d, Len(heard') + Len(codec'.dma) + Len(pending')),
         NEW a, a = Len(heard') + Len(codec'.dma) + Len(pending') + Len(incoming'),
         a > 0 => flags'.started /\ c \in Files /\ HasData(c, Len(c)) /\ a <= Total(c),
         pc' \in {"reading", "feeding"} => a = Count(parser', c),
         flags'.result = "ready" => a = Total(c),
         pc' \in Uploading => a = 0,
         pc' = "waiting" => a = 0 \/ flags'.cancel
  PROVE  OrderInv'
<1>1. Arrived' = a
  BY DEF Arrived
<1>2. InTurn(DataOf(reply.chunks))'
  BY DEF InTurn, Numbered, DataOf
<1>3. Ordered'
  BY <1>1, <1>2 DEF Ordered, Total, Count, HasData, DataOf, Uploading
<1> QED
  BY <1>3 DEF OrderInv, Live

\* The lengths are numbers.
LEMMA Lengths ==
  ASSUME SpeakerInv
  PROVE  /\ Len(heard) \in Nat /\ Len(codec.dma) \in Nat /\ Len(pending) \in Nat /\ Len(incoming) \in Nat
         /\ heard \in Seq(Points) /\ codec.dma \in Seq(Points)
         /\ pending \in Seq(Points) /\ incoming \in Seq(Points) /\ Arrived \in Nat
<1>1. /\ heard \in Seq(Points) /\ codec.dma \in Seq(Points)
      /\ pending \in Seq(Points) /\ incoming \in Seq(Points)
  BY DEF SpeakerInv, Levels
<1>2. Len(heard) \in Nat /\ Len(codec.dma) \in Nat /\ Len(pending) \in Nat /\ Len(incoming) \in Nat
  BY <1>1
<1> QED
  BY <1>1, <1>2 DEF Arrived

\* A frame goes from the buffer of the speaker to what was heard.
LEMMA OrderElapse ==
  ASSUME SpeakerInv, CodecInv, OrderInv, Elapse
  PROVE  OrderInv'
<1>1. state = "PLAYING" /\ UNCHANGED <<state, flags, incoming, pending, pc, reply, parser>>
  BY ElapseSteps
<1>2. Ordered
  BY <1>1 DEF OrderInv, Live
<1> DEFINE c == reply.chunks
           d == DataOf(c)
<1>3. /\ Len(heard) \in Nat /\ Len(codec.dma) \in Nat /\ Len(pending) \in Nat /\ Len(incoming) \in Nat
      /\ heard \in Seq(Points) /\ codec.dma \in Seq(Points)
      /\ Numbered(heard, d, 0) /\ Numbered(codec.dma, d, Len(heard))
      /\ Numbered(pending, d, Len(heard) + Len(codec.dma))
      /\ Numbered(incoming, d, Len(heard) + Len(codec.dma) + Len(pending))
  BY <1>2, Lengths DEF Ordered, InTurn
<1>4. CASE codec'.dma = codec.dma /\ heard' = heard
  BY <1>1, <1>2, <1>4, OrderSame DEF Ordered
<1>5. CASE /\ Len(codec.dma) >= 2 /\ codec'.dma = SubSeq(codec.dma, 3, Len(codec.dma))
           /\ heard' = heard \o SubSeq(codec.dma, 1, 2)
  <2> DEFINE first == SubSeq(codec.dma, 1, 2)
             rest == SubSeq(codec.dma, 3, Len(codec.dma))
  <2>1. /\ first \in Seq(Points) /\ Len(first) = 2 /\ Numbered(first, d, Len(heard))
        /\ rest \in Seq(Points) /\ Len(rest) = Len(codec.dma) - 2 /\ Numbered(rest, d, Len(heard) + 2)
    BY <1>3, <1>5, FirstFrame
  <2> HIDE DEF d, first, rest
  <2>2. heard' = heard \o first /\ codec'.dma = rest
    BY <1>5 DEF first, rest
  <2>3. Len(heard') = Len(heard) + 2
    <3>1. Len(heard \o first) = Len(heard) + Len(first)
      BY <1>3, <2>1, Joined
    <3> QED
      BY <2>1, <2>2, <3>1
  <2>4. Numbered(heard', d, 0)
    <3>1. 0 + Len(heard) = Len(heard)
      BY <1>3
    <3>2. Numbered(first, d, 0 + Len(heard))
      BY <2>1, <3>1
    <3> QED
      BY <1>3, <2>1, <2>2, <3>2, NumberedJoin
  <2>5. Len(heard') + Len(codec'.dma) = Len(heard) + Len(codec.dma)
    <3>1. Len(codec'.dma) = Len(codec.dma) - 2
      BY <2>1, <2>2
    <3>2. Len(heard) \in Nat /\ Len(codec.dma) \in Nat
      BY <1>3
    <3>3. \A k \in Nat, l \in Nat : k + 2 + (l - 2) = k + l
      OBVIOUS
    <3> QED
      BY <2>3, <3>1, <3>2, <3>3
  <2>6. Arrived = Len(heard') + Len(codec'.dma) + Len(pending') + Len(incoming')
    BY <1>1, <2>5 DEF Arrived
  <2>7. /\ Numbered(codec'.dma, d, Len(heard'))
        /\ Numbered(pending', d, Len(heard') + Len(codec'.dma))
        /\ Numbered(incoming', d, Len(heard') + Len(codec'.dma) + Len(pending'))
    BY <1>1, <1>3, <2>1, <2>2, <2>3, <2>5
  <2>8. /\ Arrived > 0 => flags'.started /\ c \in Files /\ HasData(c, Len(c)) /\ Arrived <= Total(c)
        /\ pc' \in {"reading", "feeding"} => Arrived = Count(parser', c)
        /\ flags'.result = "ready" => Arrived = Total(c)
        /\ pc' \in Uploading => Arrived = 0
        /\ pc' = "waiting" => Arrived = 0 \/ flags'.cancel
    BY <1>1, <1>2 DEF Ordered
  <2>9. reply'.chunks = c /\ d = DataOf(c)
    BY <1>1 DEF d
  <2> HIDE DEF c
  <2>10. PICK a \in Nat : a = Arrived
    BY Lengths
  <2>11. a = Len(heard') + Len(codec'.dma) + Len(pending') + Len(incoming')
    BY <2>6, <2>10
  <2>12. /\ a > 0 => flags'.started /\ c \in Files /\ HasData(c, Len(c)) /\ a <= Total(c)
         /\ pc' \in {"reading", "feeding"} => a = Count(parser', c)
         /\ flags'.result = "ready" => a = Total(c)
         /\ pc' \in Uploading => a = 0
         /\ pc' = "waiting" => a = 0 \/ flags'.cancel
    BY <2>8, <2>10
  <2> QED
    BY <2>4, <2>7, <2>9, <2>11, <2>12, OrderNext
<1> QED
  BY <1>4, <1>5, ElapseSteps

\* Bytes go from the stream into the buffer of the speaker, the odd one into
\* turn_pending_byte; what ends the playing ends the order with it.
LEMMA OrderPlay ==
  ASSUME SpeakerInv, CodecInv, OrderInv, Play
  PROVE  OrderInv'
<1>1. state = "PLAYING" /\ UNCHANGED <<heard, pc, reply, parser>>
  BY PlaySteps
<1>2. Ordered
  BY <1>1 DEF OrderInv, Live
<1> DEFINE c == reply.chunks
           d == DataOf(c)
<1>3. /\ Len(heard) \in Nat /\ Len(codec.dma) \in Nat /\ Len(pending) \in Nat /\ Len(incoming) \in Nat
      /\ heard \in Seq(Points) /\ codec.dma \in Seq(Points)
      /\ pending \in Seq(Points) /\ incoming \in Seq(Points)
      /\ Numbered(heard, d, 0) /\ Numbered(codec.dma, d, Len(heard))
      /\ Numbered(pending, d, Len(heard) + Len(codec.dma))
      /\ Numbered(incoming, d, Len(heard) + Len(codec.dma) + Len(pending))
  BY <1>2, Lengths DEF Ordered, InTurn
<1>4. CASE state' \in {"IDLE", "ERROR"}
  BY <1>4 DEF OrderInv, Live
<1>5. ASSUME NEW n \in 0 .. Len(incoming), NEW h \in Nat, NEW bytes \in Seq(Points),
             bytes = pending \o SubSeq(incoming, 1, n), 2 * h <= Len(bytes),
             incoming' = SubSeq(incoming, n + 1, Len(incoming)), flags' = flags,
             codec'.dma = codec.dma \o SubSeq(bytes, 1, 2 * h),
             pending' = SubSeq(bytes, 2 * h + 1, Len(bytes))
      PROVE  OrderInv'
  <2> HIDE DEF d
  <2> DEFINE k == Len(heard) + Len(codec.dma)
             taken == SubSeq(incoming, 1, n)
  <2>1. n \in Nat /\ n <= Len(incoming) /\ k \in Nat /\ k + Len(pending) \in Nat
    BY <1>3
  <2>2. /\ taken \in Seq(Points) /\ Len(taken) = n /\ Numbered(taken, d, k + Len(pending))
        /\ incoming' \in Seq(Points) /\ Len(incoming') = Len(incoming) - n
        /\ Numbered(incoming', d, k + Len(pending) + n)
    BY <1>3, <1>5, <2>1, NumberedSplit
  <2> HIDE DEF k, taken
  <2>3. bytes = pending \o taken /\ Numbered(pending, d, k)
    BY <1>3, <1>5 DEF k, taken
  <2>4. Len(bytes) = Len(pending) + n /\ Numbered(bytes, d, k)
    BY ZenonT(40), <1>3, <2>1, <2>2, <2>3, Joined, NumberedJoin
  <2>5. PICK m \in Nat : m = 2 * h
    OBVIOUS
  <2>6. /\ SubSeq(bytes, 1, m) \in Seq(Points) /\ Len(SubSeq(bytes, 1, m)) = m
        /\ Numbered(SubSeq(bytes, 1, m), d, k)
        /\ SubSeq(bytes, m + 1, Len(bytes)) \in Seq(Points)
        /\ Len(SubSeq(bytes, m + 1, Len(bytes))) = Len(bytes) - m
        /\ Numbered(SubSeq(bytes, m + 1, Len(bytes)), d, k + m)
    BY ZenonT(40), <1>5, <2>1, <2>4, <2>5, NumberedSplit
  <2>7. codec'.dma = codec.dma \o SubSeq(bytes, 1, m) /\ pending' = SubSeq(bytes, m + 1, Len(bytes))
    BY <1>5, <2>5
  <2>8. Len(codec'.dma) = Len(codec.dma) + m /\ Len(pending') = Len(bytes) - m
    <3>1. Len(codec.dma \o SubSeq(bytes, 1, m)) = Len(codec.dma) + Len(SubSeq(bytes, 1, m))
      BY <1>3, <2>6, Joined
    <3> QED
      BY <2>6, <2>7, <3>1
  <2>9. Numbered(codec'.dma, d, Len(heard))
    <3>1. Numbered(SubSeq(bytes, 1, m), d, Len(heard) + Len(codec.dma))
      BY <2>6 DEF k
    <3> QED
      BY <1>3, <2>6, <2>7, <3>1, NumberedJoin
  <2>10. Len(heard) + Len(codec'.dma) = k + m
    <3>1. k = Len(heard) + Len(codec.dma)
      BY DEF k
    <3> QED
      BY <1>3, <2>8, <3>1
  <2>11. k + m + Len(pending') = k + Len(pending) + n
    BY <1>3, <2>1, <2>4, <2>8
  <2>12. /\ Numbered(pending', d, Len(heard') + Len(codec'.dma))
         /\ Numbered(incoming', d, Len(heard') + Len(codec'.dma) + Len(pending'))
         /\ Numbered(heard', d, 0) /\ Numbered(codec'.dma, d, Len(heard'))
    <3>1. heard' = heard
      BY <1>1
    <3>2. Numbered(pending', d, k + m)
      BY <2>6, <2>7
    <3>3. Numbered(incoming', d, k + m + Len(pending'))
      BY <2>2, <2>11
    <3> QED
      BY <1>3, <2>9, <2>10, <3>1, <3>2, <3>3
  <2>13. Arrived = Len(heard') + Len(codec'.dma) + Len(pending') + Len(incoming')
    <3>1. Arrived = k + Len(pending) + Len(incoming)
      BY DEF Arrived, k
    <3>2. Len(heard') + Len(codec'.dma) = k + m
      BY <1>1, <2>10
    <3>3. k + Len(pending) + Len(incoming) = k + Len(pending) + n + (Len(incoming) - n)
      BY <1>3, <2>1
    <3> QED
      BY <2>2, <2>11, <3>1, <3>2, <3>3
  <2>14. /\ Arrived > 0 => flags'.started /\ c \in Files /\ HasData(c, Len(c)) /\ Arrived <= Total(c)
         /\ pc' \in {"reading", "feeding"} => Arrived = Count(parser', c)
         /\ flags'.result = "ready" => Arrived = Total(c)
         /\ pc' \in Uploading => Arrived = 0
         /\ pc' = "waiting" => Arrived = 0 \/ flags'.cancel
    BY <1>1, <1>2, <1>5 DEF Ordered
  <2>15. reply'.chunks = c /\ d = DataOf(c)
    BY <1>1 DEF d
  <2> HIDE DEF c
  <2>16. PICK a \in Nat : a = Arrived
    BY Lengths
  <2>17. a = Len(heard') + Len(codec'.dma) + Len(pending') + Len(incoming')
    BY <2>13, <2>16
  <2>18. /\ a > 0 => flags'.started /\ c \in Files /\ HasData(c, Len(c)) /\ a <= Total(c)
         /\ pc' \in {"reading", "feeding"} => a = Count(parser', c)
         /\ flags'.result = "ready" => a = Total(c)
         /\ pc' \in Uploading => a = 0
         /\ pc' = "waiting" => a = 0 \/ flags'.cancel
    BY <2>14, <2>16
  <2> QED
    BY <2>12, <2>15, <2>17, <2>18, OrderNext
<1> QED
  BY <1>4, <1>5, PlaySteps

\* The parser hands on the samples that follow those that have arrived.
LEMMA OrderFeed ==
  ASSUME SpeakerInv, CodecInv, WorkInv, DownloadInv, OrderInv, FeedReply
  PROVE  OrderInv'
<1>1. UNCHANGED <<state, pending, heard, codec>> /\ pc = "feeding" /\ flags'.cancel = flags.cancel
  BY FeedReplySteps DEF FeedReply
<1>2. CASE state \notin Live
  BY <1>1, <1>2 DEF OrderInv, Live
<1>3. CASE flags.cancel /\ pc' = "waiting" /\ UNCHANGED <<incoming, reply, parser, flags>>
  BY <1>1, <1>3, OrderSame DEF Uploading
<1> DEFINE c == reply.chunks
           d == DataOf(c)
<1>4. ASSUME state \in Live, NEW pcm \in Seq(Points),
             incoming' = incoming \o pcm, Count(parser, c) \in Nat,
             Count(parser', c) = Count(parser, c) + Len(pcm), Count(parser', c) \in 0 .. Total(c),
             \A i \in 1 .. Len(pcm) : pcm[i] = <<d, Count(parser, c) + i>>,
             pcm # <<>> \/ flags.started => flags'.started,
             reply' = [chunks |-> c, got |-> reply.got, fed |-> reply'.fed],
             \/ pc' = "leaving" /\ flags'.result = "failed"
             \/ pc' \in {"reading", "feeding"} /\ flags'.result = flags.result
      PROVE  OrderInv'
  <2>1. Ordered
    BY <1>4 DEF OrderInv
  <2>2. /\ Len(heard) \in Nat /\ Len(codec.dma) \in Nat /\ Len(pending) \in Nat /\ Len(incoming) \in Nat
        /\ incoming \in Seq(Points)
        /\ Numbered(heard, d, 0) /\ Numbered(codec.dma, d, Len(heard))
        /\ Numbered(pending, d, Len(heard) + Len(codec.dma))
        /\ Numbered(incoming, d, Len(heard) + Len(codec.dma) + Len(pending))
    BY <2>1, Lengths DEF Ordered, InTurn
  <2>3. Arrived = Count(parser, c)
    BY <1>1, <2>1 DEF Ordered
  <2>4. c \in Files /\ Len(pcm) \in Nat /\ flags.result # "ready"
    BY <1>1 DEF DownloadInv, Downloading
  <2> DEFINE k == Len(heard) + Len(codec.dma) + Len(pending)
  <2>5. k \in Nat /\ Arrived = k + Len(incoming)
    BY <2>2 DEF Arrived
  <2>6. Numbered(pcm, d, k + Len(incoming))
    BY <1>4, <2>3, <2>5 DEF Numbered
  <2> HIDE DEF d, k
  <2>7. Numbered(incoming', d, k)
    <3>1. Numbered(incoming, d, k)
      BY <2>2 DEF k
    <3> QED
      BY <1>4, <2>2, <2>5, <2>6, <3>1, NumberedJoin
  <2>8. Len(incoming') = Len(incoming) + Len(pcm)
    BY <1>4, <2>2, Joined
  <2>9. PICK a \in Nat : a = Count(parser', c)
    BY <1>4, <2>4
  <2>10. a = Len(heard') + Len(codec'.dma) + Len(pending') + Len(incoming')
    <3>1. a = k + Len(incoming) + Len(pcm)
      BY <1>4, <2>3, <2>5, <2>9
    <3>2. a = k + Len(incoming')
      BY <2>2, <2>4, <2>5, <2>8, <3>1
    <3> QED
      BY <1>1, <3>2 DEF k
  <2>11. a > 0 => flags'.started /\ c \in Files /\ HasData(c, Len(c)) /\ a <= Total(c)
    <3> SUFFICES ASSUME a > 0 PROVE flags'.started /\ HasData(c, Len(c)) /\ a <= Total(c)
      BY <2>4
    <3>1. a <= Total(c) /\ HasData(c, Len(c))
      BY <1>4, <2>9 DEF Total
    <3>2. flags'.started
      <4>1. CASE pcm # <<>>
        BY <1>4, <4>1
      <4>2. CASE pcm = <<>>
        <5>1. Arrived > 0
          BY <1>4, <2>3, <2>9, <4>2
        <5>2. flags.started
          BY <2>1, <5>1 DEF Ordered
        <5> QED
          BY <1>4, <5>2
      <4> QED
        BY <4>1, <4>2
    <3> QED
      BY <3>1, <3>2
  <2>12. reply'.chunks = c /\ d = DataOf(c)
    BY <1>4 DEF d
  <2>13. /\ Numbered(heard', d, 0) /\ Numbered(codec'.dma, d, Len(heard'))
         /\ Numbered(pending', d, Len(heard') + Len(codec'.dma))
         /\ Numbered(incoming', d, Len(heard') + Len(codec'.dma) + Len(pending'))
    BY <1>1, <2>2, <2>7 DEF k
  <2>14. /\ pc' \in {"reading", "feeding"} => a = Count(parser', c)
         /\ flags'.result = "ready" => a = Total(c)
         /\ pc' \in Uploading => a = 0
         /\ pc' = "waiting" => a = 0 \/ flags'.cancel
    BY <1>4, <2>4, <2>9 DEF Uploading
  <2> HIDE DEF c
  <2> QED
    BY <2>10, <2>11, <2>12, <2>13, <2>14, OrderNext
<1> QED
  BY <1>2, <1>3, <1>4, FeedReplySteps

\* A download begins only while nothing has arrived.
LEMMA OrderPoll ==
  ASSUME SpeakerInv, WorkInv, DownloadInv, OrderInv, Poll
  PROVE  OrderInv'
<1>1. /\ UNCHANGED <<state, pending, heard, codec, incoming>> /\ pc = "waiting"
      /\ flags'.started = flags.started /\ flags'.cancel = flags.cancel
  BY PollSteps DEF Poll, taskFrame, player
<1>2. CASE state \notin Live
  BY <1>1, <1>2 DEF OrderInv, Live
<1>3. CASE pc' = "leaving" /\ flags'.result # "ready" /\ UNCHANGED <<reply, parser>>
  BY <1>1, <1>3, OrderSame DEF Uploading
<1>4. CASE /\ state \in Live /\ ~flags.cancel /\ pc' = "reading" /\ flags' = flags
           /\ Count(parser', reply'.chunks) = 0
  <2>1. Ordered
    BY <1>4 DEF OrderInv
  <2>2. Arrived = 0
    BY <1>1, <1>4, <2>1 DEF Ordered
  <2>3. /\ Len(heard) = 0 /\ Len(codec.dma) = 0 /\ Len(pending) = 0 /\ Len(incoming) = 0
        /\ heard = <<>> /\ codec.dma = <<>> /\ pending = <<>> /\ incoming = <<>>
    BY <2>2, Lengths DEF Arrived
  <2>4. \A d, k : Numbered(heard', d, k) /\ Numbered(codec'.dma, d, k)
                  /\ Numbered(pending', d, k) /\ Numbered(incoming', d, k)
    BY <1>1, <2>3, NumberedNothing
  <2>5. 0 = Len(heard') + Len(codec'.dma) + Len(pending') + Len(incoming')
    BY <1>1, <2>3
  <2>6. flags'.result # "ready"
    BY <1>1, <1>4 DEF DownloadInv
  <2> QED
    BY <1>4, <2>4, <2>5, <2>6, OrderNext DEF Uploading
<1> QED
  BY <1>2, <1>3, <1>4, PollSteps

\* The end of the file is taken for the end of the reply when all has arrived.
LEMMA OrderRead ==
  ASSUME WorkInv, DownloadInv, OrderInv, NEW n \in 0 .. ReadSize, ReadReply(n)
  PROVE  OrderInv'
<1>1. /\ UNCHANGED <<state, pending, heard, codec, incoming, parser>> /\ pc = "reading"
      /\ flags.result # "ready"
  BY ReadReplySteps DEF ReadReply, taskFrame, player, DownloadInv
<1>2. CASE flags.cancel /\ pc' = "waiting" /\ UNCHANGED <<reply, flags>>
  BY <1>1, <1>2, OrderSame DEF Uploading
<1>3. CASE /\ pc' = "feeding" /\ flags' = flags
           /\ reply' = [chunks |-> reply.chunks, got |-> reply'.got, fed |-> reply.fed]
  <2>1. reply'.chunks = reply.chunks
    BY <1>3
  <2>2. CASE state \notin Live
    BY <1>1, <2>2 DEF OrderInv, Live
  <2>3. CASE state \in Live
    <3>1. Ordered
      BY <2>3 DEF OrderInv
    <3>2. Arrived' = Arrived
      BY <1>1 DEF Arrived
    <3>3. InTurn(DataOf(reply.chunks))'
      BY SMTT(20), <1>1, <2>1, <3>1 DEF Ordered, InTurn, Numbered, DataOf
    <3> QED
      BY <1>1, <1>3, <2>1, <3>1, <3>2, <3>3
         DEF Ordered, OrderInv, Total, Count, HasData, DataOf, Uploading
  <2> QED
    BY <2>2, <2>3
<1>4. CASE /\ pc' = "leaving" /\ reply' = reply /\ flags' = [flags EXCEPT !.result = Verdict(parser)]
           /\ Finished(parser) => Count(parser, reply.chunks) = Total(reply.chunks)
  <2>1. flags'.result = Verdict(parser) /\ flags'.started = flags.started /\ flags'.cancel = flags.cancel
    BY <1>4 DEF WorkInv, NoFlags
  <2>2. CASE state \notin Live
    BY <1>1, <2>2 DEF OrderInv, Live
  <2>3. CASE state \in Live
    <3>1. Arrived = Count(parser, reply.chunks)
      BY <1>1, <2>3 DEF OrderInv, Ordered
    <3>2. flags'.result = "ready" => Arrived = Total(reply.chunks)
      BY <1>4, <2>1, <3>1 DEF Verdict
    <3> QED
      BY <1>1, <1>4, <2>1, <3>2, OrderSame DEF Uploading
  <2> QED
    BY <2>2, <2>3
<1> QED
  BY <1>2, <1>3, <1>4, ReadReplySteps

\* The main loop, but for Press and Play: nothing arrives, and nothing goes.
LEMMA OrderLoop ==
  ASSUME SpeakerInv, CodecInv, WorkInv, OrderInv,
         \/ PressRefused \/ RecordingStops \/ Acknowledge \/ SleepAborted \/ UNCHANGED vars
         \/ \E n \in 0 .. CaptureSize, released \in BOOLEAN : Record(n, released)
         \/ \E pressed \in BOOLEAN : Process(pressed)
  PROVE  OrderInv'
<1>1. UNCHANGED <<heard, pending, incoming, reply, parser, pc>>
  BY DEF PressRefused, RecordingStops, Acknowledge, SleepAborted, Record, Process, vars, player, download
<1>2. ASSUME state' \in Live => state \in Live /\ codec'.dma = codec.dma,
             flags'.started = flags.started, flags'.result = flags.result, flags.cancel => flags'.cancel
      PROVE  OrderInv'
  BY <1>1, <1>2, OrderSame DEF OrderInv, Ordered
<1>3. CASE PressRefused \/ Acknowledge
  BY <1>2, <1>3 DEF PressRefused, Acknowledge, Live
<1>4. CASE RecordingStops
  <2>1. state' = "ERROR"
    BY <1>4 DEF RecordingStops
  <2> QED
    BY <2>1 DEF OrderInv, Live
<1>5. CASE SleepAborted
  BY <1>2, <1>5 DEF SleepAborted, Live
<1>6. CASE UNCHANGED vars
  BY <1>2, <1>6 DEF vars
<1>7. ASSUME NEW n, NEW released, Record(n, released) PROVE OrderInv'
  <2>1. state = "RECORDING" /\ (codec' = codec \/ codec' = CaptureStopped(codec))
    BY <1>7 DEF Record
  <2>2. codec'.dma = codec.dma
    BY <2>1 DEF CaptureStopped, CodecInv, Fits
  <2>3. flags'.started = flags.started /\ flags'.result = flags.result /\ flags'.cancel = flags.cancel
    BY <1>7 DEF Record, WorkInv, NoFlags
  <2> QED
    BY <1>2, <2>1, <2>2, <2>3 DEF Live
<1>8. ASSUME NEW pressed \in BOOLEAN, Process(pressed) PROVE OrderInv'
  <2>1. state = "PROCESSING" /\ codec'.dma = codec.dma
    BY <1>8, ProcessSteps
  <2>2. PICK x : flags' = [flags EXCEPT !.finished = x,
                                        !.cancel = @ \/ pressed \/ (flags.result = "failed" /\ flags.active)]
    BY <1>8 DEF Process
  <2>3. flags'.started = flags.started /\ flags'.result = flags.result /\ (flags.cancel => flags'.cancel)
    BY <2>2 DEF WorkInv, NoFlags
  <2> QED
    BY <1>2, <2>1, <2>3 DEF Live
<1> QED
  BY <1>3, <1>4, <1>5, <1>6, <1>7, <1>8

LEMMA NextOrder ==
  ASSUME SpeakerInv, DownloadInv, CodecInv, WorkInv, OrderInv, [Next]_vars
  PROVE  OrderInv'
<1>1. CASE Press
  <2>1. /\ heard' = <<>> /\ incoming' = <<>> /\ pending' = <<>> /\ codec'.dma = <<>>
        /\ pc' = "opening" /\ flags'.result = "waiting"
    BY <1>1, PressSteps
  <2>2. \A d, k : Numbered(heard', d, k) /\ Numbered(codec'.dma, d, k)
                  /\ Numbered(pending', d, k) /\ Numbered(incoming', d, k)
    BY <2>1, NumberedNothing
  <2>3. 0 = Len(heard') + Len(codec'.dma) + Len(pending') + Len(incoming')
    BY <2>1
  <2> QED
    BY <2>1, <2>2, <2>3, OrderNext DEF Uploading
<1>2. ASSUME NEW how, NEW n, NEW accepted,
             \/ Open(how) \/ Receive \/ Check \/ WriteBreaks \/ Write(n)
             \/ Answered(accepted)
      PROVE  OrderInv'
  <2>1. UNCHANGED <<state, heard, pending, incoming, codec, reply, parser>>
    BY <1>2 DEF Open, Receive, Check, WriteBreaks, Write, Answered, taskFrame, player, download
  <2>2. pc \in Uploading /\ pc' \in Uploading \cup {"waiting", "leaving"}
    BY <1>2 DEF Open, Receive, Check, WriteBreaks, Write, Answered, GivesUp, Uploading
  <2>3. flags' = flags \/ flags' = [flags EXCEPT !.failed = TRUE, !.result = "failed"]
    BY <1>2 DEF Open, Receive, Check, WriteBreaks, Write, Answered, GivesUp
  <2>4. flags'.started = flags.started /\ (flags'.result = "ready" => flags.result = "ready")
    BY <2>3 DEF WorkInv, NoFlags
  <2>5. state \in Live => Arrived = 0
    BY <2>2 DEF OrderInv, Ordered
  <2> QED
    BY <2>1, <2>2, <2>4, <2>5, OrderSame DEF Uploading
<1>3. CASE ReadBreaks
  <2>1. /\ UNCHANGED <<state, heard, pending, incoming, codec, reply, parser>>
        /\ pc = "reading" /\ ~flags.cancel
    BY <1>3 DEF ReadBreaks, taskFrame, player, download
  <2>2. \/ flags' = [flags EXCEPT !.result = "failed"] /\ pc' = "leaving"
        \/ ~flags.started /\ flags' = flags /\ pc' = "waiting"
    BY <1>3, <2>1 DEF ReadBreaks, Retry, Leave
  <2>3. flags'.started = flags.started /\ (flags'.result = "ready" => flags.result = "ready")
    BY <2>2 DEF WorkInv, NoFlags
  <2>4. pc' = "waiting" => (state \in Live => Arrived = 0)
    BY <2>2, Lengths DEF OrderInv, Ordered
  <2> QED
    BY <2>1, <2>2, <2>3, <2>4, OrderSame DEF Uploading
<1>4. CASE Exit
  <2>1. UNCHANGED <<state, heard, pending, incoming, codec, reply, parser>> /\ pc' = "none"
    BY <1>4 DEF Exit, taskFrame, player, download
  <2>2. flags'.started = flags.started /\ flags'.result = flags.result
    BY <1>4 DEF Exit, WorkInv, NoFlags
  <2> QED
    BY <2>1, <2>2, OrderSame DEF Uploading
<1>5. CASE MainLoop
  BY <1>1, <1>5, OrderPlay, OrderLoop DEF MainLoop
<1>6. CASE VoiceTurn
  BY <1>2, <1>3, <1>4, <1>6, OrderPoll, OrderFeed, OrderRead DEF VoiceTurn
<1> QED
  BY <1>5, <1>6, OrderElapse, OrderLoop DEF Next

-----------------------------------------------------------------------------
(* What the replies come to.                                               *)

PlaybackInv == DownloadInv /\ SpeakerInv /\ OrderInv

LEMMA InitPlayback == Init => PlaybackInv
<1> SUFFICES ASSUME Init PROVE PlaybackInv
  OBVIOUS
<1>1. /\ reply = NoReply /\ pc = "none" /\ flags = NoFlags /\ state = "IDLE"
      /\ incoming = <<>> /\ pending = <<>> /\ heard = <<>>
      /\ codec.dma = <<>> /\ codec.due = 0 /\ codec.playback = FALSE
  BY DEF Init
<1>2. DownloadInv
  BY <1>1 DEF DownloadInv, NoReply, NoFlags
<1>3. SpeakerInv
  <2>1. <<>> \in Seq(Points) /\ Len(<<>>) = 0 /\ StreamSize \in Nat
    BY AudioPathAssumption
  <2> QED
    BY <1>1, <2>1 DEF SpeakerInv, Levels
<1>4. OrderInv
  BY <1>1 DEF OrderInv, Live
<1> QED
  BY <1>2, <1>3, <1>4 DEF PlaybackInv

LEMMA NextPlayback == UploadInv /\ CodecInv /\ PlaybackInv /\ [Next]_vars => PlaybackInv'
  BY NextDownload, NextSpeaker, NextOrder DEF UploadInv, PlaybackInv

LEMMA AlwaysPlayback == Spec => [](UploadInv /\ CodecInv /\ PlaybackInv)
  BY AlwaysUploadInv, InitCodec, NextCodec, InitPlayback, NextPlayback, PTL DEF Spec

\* Where there is nothing to be heard that is the beginning of any reply.
LEMMA NothingIsFirst ==
  ASSUME NEW c, c \in Files \cup {<<>>}
  PROVE  IsPrefix(<<>>, Samples(c))
<1>1. Len(Samples(c)) \in Nat
  <2>1. CASE c \in Files
    BY <2>1, AudioPathAssumption, SamplesWell
  <2>2. CASE c = <<>>
    <3> DEFINE s == [k \in DOMAIN c |-> IF c[k].id = "data" THEN [i \in 1 .. c[k].size |-> <<k, i>>]
                                        ELSE <<>>]
    <3>1. s = <<>>
      BY <2>2
    <3>2. Samples(c) = FlattenSeq(s)
      BY DEF Samples
    <3> HIDE DEF s
    <3>3. FlattenSeq(s) = <<>>
      BY <3>1 DEF FlattenSeq
    <3> QED
      BY <3>2, <3>3
  <2> QED
    BY <2>1, <2>2
<1>2. SubSeq(<<>>, 1, 0) = <<>> /\ SubSeq(Samples(c), 1, 0) = <<>> /\ Len(<<>>) = 0
  OBVIOUS
<1> QED
  BY <1>1, <1>2 DEF IsPrefix

\* What has arrived, in one piece.
LEMMA InOnePiece ==
  ASSUME SpeakerInv, NEW d, InTurn(d)
  PROVE  LET s == heard \o codec.dma \o pending \o incoming
         IN  s \in Seq(Points) /\ Len(s) = Arrived /\ Numbered(s, d, 0)
<1>1. /\ Len(heard) \in Nat /\ Len(codec.dma) \in Nat /\ Len(pending) \in Nat /\ Len(incoming) \in Nat
      /\ heard \in Seq(Points) /\ codec.dma \in Seq(Points)
      /\ pending \in Seq(Points) /\ incoming \in Seq(Points)
  BY Lengths
<1>2. ASSUME NEW s \in Seq(Points), NEW t \in Seq(Points), Numbered(s, d, 0), Numbered(t, d, Len(s))
      PROVE  s \o t \in Seq(Points) /\ Len(s \o t) = Len(s) + Len(t) /\ Numbered(s \o t, d, 0)
  <2>1. 0 + Len(s) = Len(s)
    OBVIOUS
  <2>2. Numbered(t, d, 0 + Len(s))
    BY <1>2, <2>1
  <2> QED
    BY <1>2, <2>2, Joined, NumberedJoin
<1> DEFINE a == heard \o codec.dma
<1>3. a \in Seq(Points) /\ Len(a) = Len(heard) + Len(codec.dma) /\ Numbered(a, d, 0)
  BY <1>1, <1>2 DEF InTurn
<1> DEFINE b == a \o pending
<1> HIDE DEF a
<1>4. Numbered(pending, d, Len(a))
  BY <1>3 DEF InTurn
<1>5. b \in Seq(Points) /\ Len(b) = Len(a) + Len(pending) /\ Numbered(b, d, 0)
  BY <1>1, <1>2, <1>3, <1>4
<1> DEFINE s == b \o incoming
<1> HIDE DEF b
<1>6. Numbered(incoming, d, Len(b))
  BY <1>3, <1>5 DEF InTurn
<1>7. s \in Seq(Points) /\ Len(s) = Len(b) + Len(incoming) /\ Numbered(s, d, 0)
  BY <1>1, <1>2, <1>5, <1>6
<1> HIDE DEF s
<1>8. Len(s) = Arrived
  BY <1>3, <1>5, <1>7 DEF Arrived
<1> QED
  BY <1>7, <1>8 DEF s, b, a

\* As many samples as the file has are its samples; fewer are the first of them.
LEMMA NumberedAreSamples ==
  ASSUME NEW c, Wave(c), HasData(c, Len(c)), NEW s \in Seq(Points), Numbered(s, DataOf(c), 0),
         Len(s) <= Total(c)
  PROVE  IsPrefix(s, Samples(c)) /\ (Len(s) = Total(c) => s = Samples(c))
<1>1. Samples(c) = SamplesOf(DataOf(c), Total(c)) /\ Total(c) \in Nat
  BY AllSamples
<1> DEFINE d == DataOf(c)
           n == Total(c)
           t == SamplesOf(d, n)
<1> HIDE DEF d, n
<1>2. /\ Len(s) \in Nat /\ n \in Nat /\ Len(s) <= n
      /\ \A i \in 1 .. Len(s) : s[i] = <<d, i>>
  <2>1. \A i \in 1 .. Len(s) : s[i] = <<d, 0 + i>> /\ 0 + i = i
    BY DEF d, Numbered
  <2> QED
    BY <1>1, <2>1 DEF n
<1>3. t = [i \in 1 .. n |-> <<d, i>>] /\ Len(t) = n
  BY <1>2 DEF SamplesOf
<1> HIDE DEF t
<1>4. SubSeq(s, 1, Len(s)) = [i \in 1 .. Len(s) |-> <<d, i>>]
  BY <1>2
<1>5. SubSeq(t, 1, Len(s)) = [i \in 1 .. Len(s) |-> <<d, i>>]
  BY <1>2, <1>3
<1>6. IsPrefix(s, t)
  BY <1>2, <1>3, <1>4, <1>5 DEF IsPrefix
<1>7. Len(s) = n => s = t
  BY <1>2, <1>3
<1> QED
  BY <1>1, <1>6, <1>7 DEF t, n, d

\* Whatever the files are and however the connection, turn_audio_stream and the odd
\* byte cut them (app.c:turn_playback_drain, turn_pending_byte), what the speaker
\* has played and what waits behind it are the first samples of the reply, none
\* lost, doubled or exchanged.
THEOREM PlaysInOrder == Spec => []PlayedInOrder
<1>1. PlaybackInv => PlayedInOrder
  <2> SUFFICES ASSUME PlaybackInv, state \in {"PROCESSING", "PLAYING"}
               PROVE  IsPrefix(heard \o codec.dma \o pending \o incoming, Samples(reply.chunks))
    BY DEF PlayedInOrder
  <2> DEFINE c == reply.chunks
             s == heard \o codec.dma \o pending \o incoming
  <2>1. SpeakerInv /\ Ordered /\ InTurn(DataOf(c)) /\ c \in Files \cup {<<>>} /\ Arrived \in Nat
    BY Lengths DEF PlaybackInv, OrderInv, Live, Ordered, DownloadInv
  <2>2. s \in Seq(Points) /\ Len(s) = Arrived /\ Numbered(s, DataOf(c), 0)
    BY <2>1, InOnePiece
  <2> HIDE DEF s
  <2>3. CASE Arrived = 0
    <3>1. s = <<>>
      BY <2>2, <2>3
    <3>2. IsPrefix(<<>>, Samples(c))
      BY <2>1, NothingIsFirst
    <3> QED
      BY <3>1, <3>2 DEF s
  <2>4. CASE Arrived > 0
    <3>1. c \in Files /\ HasData(c, Len(c)) /\ Arrived <= Total(c)
      BY <2>1, <2>4 DEF Ordered
    <3>2. IsPrefix(s, Samples(c))
      BY <2>2, <3>1, AudioPathAssumption, NumberedAreSamples
    <3> QED
      BY <3>2 DEF s
  <2> QED
    BY <2>1, <2>3, <2>4
<1> QED
  BY <1>1, AlwaysPlayback, PTL

\* voice_turn_client reports a turn ready only when the parser has seen a whole file
\* it accepts (wav_parser_finish): a connection that closed early, which reads like
\* the end, is not taken for it.
THEOREM ReadyReplyIsSound == Spec => []ReadyIsSound
<1>1. PlaybackInv => ReadyIsSound
  BY DEF PlaybackInv, DownloadInv, Complete, ReadyIsSound, File
<1> QED
  BY <1>1, AlwaysPlayback, PTL

\* The parser refuses nothing a gateway may send: no block of a sound reply, however
\* it was cut, is an error, and at its end wav_parser_finish agrees.
THEOREM SoundRepliesAccepted == Spec => SoundReplyAccepted
<1>1. UploadInv /\ CodecInv /\ PlaybackInv /\ [Next]_vars
        => [pc = "feeding" \/ (pc = "reading" /\ reply.got = Len(File) /\ ReadReply(0))
              => ~(pc' = "leaving" /\ flags'.result = "failed" /\ Sound(reply.chunks))]_vars
  <2> SUFFICES ASSUME UploadInv, PlaybackInv, [Next]_vars,
                      pc = "feeding" \/ (pc = "reading" /\ reply.got = Len(File) /\ ReadReply(0)),
                      pc' = "leaving", flags'.result = "failed", Sound(reply.chunks)
               PROVE  FALSE
    OBVIOUS
  <2>1. WorkInv /\ SpeakerInv /\ DownloadInv
    BY DEF UploadInv, PlaybackInv
  <2>2. CASE pc = "feeding"
    <3>1. ASSUME Press PROVE FALSE
      BY <2>1, <2>2, <3>1 DEF Press, WorkInv
    <3>2. pc' # pc
      BY <2>2
    <3>3. ~(\/ PressRefused \/ RecordingStops \/ Play \/ Acknowledge \/ SleepAborted \/ Elapse
            \/ \E n \in 0 .. CaptureSize, released \in BOOLEAN : Record(n, released)
            \/ \E pressed \in BOOLEAN : Process(pressed)
            \/ UNCHANGED vars)
      BY <3>2 DEF PressRefused, RecordingStops, Play, Acknowledge, SleepAborted, Elapse, Record,
                  Process, vars
    <3>4. VoiceTurn
      BY <3>1, <3>3 DEF Next, MainLoop
    <3>5. FeedReply
      BY <2>2, <3>4 DEF VoiceTurn, Open, Receive, Check, WriteBreaks, Write, Answered, Poll,
                        ReadBreaks, Exit, ReadReply
    <3> QED
      BY <2>1, <3>5, FeedReplySteps
  <2>3. CASE pc = "reading" /\ reply.got = Len(File) /\ ReadReply(0)
    <3>1. 0 \in 0 .. ReadSize
      BY AudioPathAssumption
    <3>2. /\ flags' = [flags EXCEPT !.result = Verdict(parser)]
          /\ Sound(reply.chunks) /\ reply.got = Len(File) => Finished(parser)
      BY <2>1, <2>3, <3>1, ReadReplySteps
    <3>3. flags'.result = "ready"
      BY <2>1, <2>3, <3>2 DEF Verdict, WorkInv, NoFlags
    <3> QED
      BY <3>3
  <2> QED
    BY <2>2, <2>3
<1> QED
  BY <1>1, AlwaysPlayback, PTL DEF Spec, SoundReplyAccepted

\* PLAYING ends in IDLE with a reply that was not cancelled only when its last sample
\* has left the speaker (audio_playback_get_buffer_level): nothing is still on its
\* way from the task, in the stream, in turn_pending_byte or in the speaker.
THEOREM RepliesAreHeard == Spec => HeardToTheEnd
<1>1. UploadInv /\ CodecInv /\ PlaybackInv /\ [Next]_vars
        => [state = "PLAYING" /\ state' = "IDLE" /\ flags.result # "cancelled" =>
              heard = Samples(reply.chunks)]_vars
  <2> SUFFICES ASSUME UploadInv, CodecInv, PlaybackInv, [Next]_vars,
                      state = "PLAYING", state' = "IDLE", flags.result # "cancelled"
               PROVE  heard = Samples(reply.chunks)
    OBVIOUS
  <2>1. Play
    <3>1. ~(\/ Press \/ PressRefused \/ RecordingStops \/ Acknowledge \/ SleepAborted \/ Elapse
            \/ \E n \in 0 .. CaptureSize, released \in BOOLEAN : Record(n, released)
            \/ \E pressed \in BOOLEAN : Process(pressed)
            \/ UNCHANGED vars)
      BY DEF Press, PressRefused, RecordingStops, Acknowledge, SleepAborted, Elapse, Record, Process, vars
    <3>2. ~VoiceTurn
      BY DEF VoiceTurn, Open, Receive, Check, WriteBreaks, Write, Answered, Poll, ReadBreaks, FeedReply,
             Exit, ReadReply, taskFrame
    <3> QED
      BY <3>1, <3>2 DEF Next, MainLoop
  <2>2. SpeakerInv /\ Ordered /\ DownloadInv
    BY DEF PlaybackInv, OrderInv, Live
  <2>3. flags.result = "ready" /\ incoming = <<>> /\ pending = <<>> /\ codec.dma = <<>>
    BY <2>1, <2>2, PlaySteps
  <2> DEFINE c == reply.chunks
  <2>4. Arrived = Total(c) /\ c \in Files /\ HasData(c, Len(c))
    BY <2>2, <2>3 DEF Ordered, DownloadInv, Complete
  <2>5. Arrived = Len(heard)
    BY <2>2, <2>3, Lengths DEF Arrived
  <2>6. heard \in Seq(Points) /\ Numbered(heard, DataOf(c), 0)
    BY <2>2, Lengths DEF Ordered, InTurn
  <2>7. Wave(c) /\ Len(heard) = Total(c) /\ Len(heard) <= Total(c)
    <3>1. Len(heard) \in Nat
      BY <2>2, Lengths
    <3> QED
      BY <2>4, <2>5, <3>1, AudioPathAssumption
  <2> QED
    BY <2>4, <2>6, <2>7, NumberedAreSamples
<1> QED
  BY <1>1, AlwaysPlayback, PTL DEF Spec, HeardToTheEnd
-----------------------------------------------------------------------------
(* Types.                                                                  *)

DeviceStates == {"IDLE", "RECORDING", "PROCESSING", "PLAYING", "ERROR"}
Results == {"waiting", "ready", "failed", "cancelled"}
Places == Uploading \cup {"none", "waiting", "reading", "feeding", "leaving"}
Sessions == [state : {"IDLE", "OPEN", "CLOSING", "CLOSED"}, aborted : BOOLEAN]
Decoding == {"size", "sizeEnd", "data", "dataEnd", "end", "whole", "gone"}

\* While a part is being written WireInv and StreamInv say where the decoder is.
TypedInv ==
  /\ state \in DeviceStates /\ pc \in Places /\ flags.result \in Results
  /\ session \in Sessions /\ client \in {"none", "made", "open"}
  /\ pc \notin {"writing", "closing"} => peer.at \in Decoding

LEMMA InitTyped == Init => TypedInv
  BY DEF Init, InitUpload, TypedInv, DeviceStates, Places, Results, Sessions, Decoding, NoFlags, NoPeer,
         Uploading

\* The gateway is never sent a body that it could not decode.
LEMMA PeerDecodes ==
  ASSUME UploadInv, TypedInv
  PROVE  peer.at \in Decoding
<1>1. CASE pc = "writing"
  <2>1. PICK k \in 0 .. ReadSize : InOrder(k)
    BY <1>1 DEF UploadInv, StreamInv, Uploading
  <2>2. InChunk(k)
    BY <1>1, <2>1 DEF InOrder
  <2> QED
    BY <2>2 DEF InChunk, Decoding
<1>2. CASE pc = "closing"
  <2>1. InTerminal
    BY <1>2 DEF UploadInv, WireInv
  <2> QED
    BY <2>1 DEF InTerminal, Decoding
<1> QED
  BY <1>1, <1>2 DEF TypedInv

\* Giving an upload up closes the session; a body that is whole stays so.
LEMMA GivesUpTyped ==
  ASSUME UploadInv, TypedInv, GivesUp, UNCHANGED state
  PROVE  TypedInv'
<1>1. peer.at \in Decoding /\ IsPeer(peer)
  BY PeerDecodes DEF UploadInv, WireInv
<1>2. /\ pc' = "leaving" /\ flags' = [flags EXCEPT !.failed = TRUE, !.result = "failed"]
      /\ \/ session' = [state |-> "CLOSED", aborted |-> TRUE] /\ AbortTransport
         \/ UNCHANGED <<session, client, peer>>
  BY DEF GivesUp, AbortSession
<1>3. flags'.result = "failed"
  BY <1>2 DEF UploadInv, WorkInv, NoFlags
<1>4. AbortTransport => client' = "none" /\ peer'.at \in Decoding
  BY <1>1 DEF AbortTransport, IsPeer, Decoding
<1>5. peer'.at \in Decoding /\ client' \in {"none", "made", "open"}
  BY <1>1, <1>2, <1>4 DEF TypedInv
<1>6. session' \in Sessions
  <2>1. [state |-> "CLOSED", aborted |-> TRUE] \in Sessions
    BY DEF Sessions
  <2> QED
    BY <1>2, <2>1 DEF TypedInv
<1>7. state' \in DeviceStates /\ pc' \in Places /\ flags'.result \in Results
  BY <1>2, <1>3 DEF TypedInv, Results, Places
<1> QED
  BY <1>5, <1>6, <1>7 DEF TypedInv

\* A step of the connection but for its flags.
LEMMA UploadTyped ==
  ASSUME UploadInv, UploadInv', TypedInv,
         \/ \E how \in {"refused", "nomemory", "unreachable", "open"} : Open(how)
         \/ Receive \/ Check \/ WriteBreaks
         \/ \E n \in 1 .. 3 : Write(n)
         \/ \E accepted \in BOOLEAN : Answered(accepted)
  PROVE  TypedInv'
<1> USE DEF Results, Places, Uploading
<1>1. peer.at \in Decoding
  BY PeerDecodes
<1>2. ASSUME NEW how \in {"refused", "nomemory", "unreachable", "open"}, Open(how) PROVE TypedInv'
  <2>1. /\ state' = state /\ pc' \in {"receiving", "leaving"} /\ peer'.at \in {"size", "gone"}
        /\ flags' = flags \/ flags' = [flags EXCEPT !.failed = TRUE, !.result = "failed"]
    BY <1>2, OpenBegins DEF UploadInv
  <2>2. flags'.result \in Results
    BY <2>1 DEF UploadInv, WorkInv, NoFlags, TypedInv
  <2>3. session' = [state |-> IF how = "open" /\ ~Busy THEN "OPEN" ELSE "CLOSED", aborted |-> FALSE]
    BY <1>2 DEF Open, OpenSession
  <2>4. session' \in Sessions
    BY <2>3 DEF Sessions
  <2>5. client' \in {"none", "made", "open"}
    <3>1. BeginTransport(how)
      BY <1>2 DEF Open, OpenSession
    <3> QED
      BY <3>1 DEF BeginTransport, Begin, TypedInv
  <2> QED
    BY <2>1, <2>2, <2>4, <2>5 DEF TypedInv, Decoding
<1>3. CASE Receive
  <2>1. GivesUp \/ (/\ pc' \in {"checking", "writing"}
                    /\ UNCHANGED <<flags, session, client, peer>>)
    BY <1>3, ReceiveSteps DEF upload
  <2>2. UNCHANGED state
    BY <1>3, ReceiveSteps
  <2> QED
    BY <1>1, <2>1, <2>2, GivesUpTyped DEF TypedInv
<1>4. CASE Check
  <2>1. GivesUp \/ (/\ pc' \in {"receiving", "closing"}
                    /\ UNCHANGED <<flags, session, client, peer>>)
    BY <1>4, CheckSteps DEF upload
  <2>2. UNCHANGED state
    BY <1>4, CheckSteps
  <2> QED
    BY <1>1, <2>1, <2>2, GivesUpTyped DEF TypedInv
<1>5. CASE WriteBreaks
  BY <1>5, GivesUpTyped DEF WriteBreaks, taskFrame
<1>6. ASSUME NEW n \in 1 .. 3, Write(n) PROVE TypedInv'
  <2>1. /\ pc \in {"writing", "closing"} /\ pc' \in {pc, "checking"}
        /\ UNCHANGED <<state, flags, session, client>>
    BY <1>6 DEF Write, WriteSocket, taskFrame
  <2>2. pc' = "checking" => peer'.at = "size"
    BY DEF UploadInv, WireInv
  <2> QED
    BY <2>1, <2>2 DEF TypedInv, Decoding
<1>7. ASSUME NEW accepted \in BOOLEAN, Answered(accepted) PROVE TypedInv'
  <2>1. /\ state' = state
        /\ \/ GivesUp
           \/ pc' = "waiting" /\ flags' = flags /\ client' = client /\ peer' = peer
    BY <1>7 DEF Answered, CloseSession, taskFrame
  <2>2. GivesUp \/ session' = [session EXCEPT !.state = "CLOSED"]
    BY <1>7 DEF Answered, CloseSession
  <2>3. session' = [session EXCEPT !.state = "CLOSED"] => session' \in Sessions
    BY DEF TypedInv, Sessions
  <2> QED
    BY <1>1, <2>1, <2>2, <2>3, GivesUpTyped DEF TypedInv
<1> QED
  BY <1>2, <1>3, <1>4, <1>5, <1>6, <1>7

\* The main loop and the download leave the connection alone.
LEMMA OthersTyped ==
  ASSUME UploadInv, TypedInv,
         \/ MainLoop \/ Elapse \/ Poll \/ ReadBreaks \/ FeedReply \/ Exit
         \/ \E n \in 0 .. ReadSize : ReadReply(n)
         \/ UNCHANGED vars
  PROVE  TypedInv'
<1> USE DEF DeviceStates, Results, Places, Uploading
<1>1. UNCHANGED <<session, client, peer>> /\ peer.at \in Decoding
  BY OtherSteps, PeerDecodes DEF upload
<1>2. ASSUME state' \in DeviceStates, pc' \in Places, flags'.result \in Results PROVE TypedInv'
  BY <1>1, <1>2 DEF TypedInv
<1>3. /\ state \in DeviceStates /\ pc \in Places /\ flags.result \in Results
      /\ DOMAIN flags = DOMAIN NoFlags
  BY DEF TypedInv, UploadInv, WorkInv
<1>4. CASE Press
  BY <1>2, <1>4 DEF Press, NoFlags
<1>5. CASE PressRefused \/ RecordingStops \/ Acknowledge \/ SleepAborted \/ Elapse \/ UNCHANGED vars
  <2>1. /\ pc' = pc /\ state' \in {state, "ERROR", "IDLE"}
        /\ flags' = flags \/ flags' = OverflowFlags
    BY <1>5 DEF PressRefused, RecordingStops, Acknowledge, SleepAborted, Elapse, vars
  <2>2. flags'.result = flags.result
    BY <1>3, <2>1 DEF OverflowFlags, NoFlags
  <2> QED
    BY <1>2, <1>3, <2>1, <2>2
<1>6. CASE Play
  <2>1. /\ pc' = pc /\ state' \in {state, "ERROR", "IDLE"}
        /\ flags' = flags \/ flags' = [flags EXCEPT !.cancel = TRUE]
    BY <1>6 DEF Play
  <2>2. flags'.result = flags.result
    BY <1>3, <2>1 DEF NoFlags
  <2> QED
    BY <1>2, <1>3, <2>1, <2>2
<1>7. ASSUME NEW n \in 0 .. CaptureSize, NEW released \in BOOLEAN, Record(n, released) PROVE TypedInv'
  <2>1. /\ pc' = pc /\ state' \in {state, "PROCESSING", "ERROR"}
        /\ flags' = flags \/ flags' = [flags EXCEPT !.released = TRUE]
    BY <1>7 DEF Record
  <2>2. flags'.result = flags.result
    BY <1>3, <2>1 DEF NoFlags
  <2> QED
    BY <1>2, <1>3, <2>1, <2>2
<1>8. ASSUME NEW pressed \in BOOLEAN, Process(pressed) PROVE TypedInv'
  <2> DEFINE lost == flags.result = "failed"
             ended == flags.finished \/ (flags.released /\ rb'.count = 0)
             cancelled == flags.cancel \/ pressed \/ (lost /\ flags.active)
  <2>1. /\ pc' = pc /\ state' \in {state, "PLAYING", "ERROR"}
        /\ flags' = [flags EXCEPT !.finished = ended, !.cancel = cancelled]
    BY <1>8 DEF Process
  <2> HIDE DEF ended, cancelled
  <2> QED
    BY <1>2, <1>3, <2>1
<1>9. CASE Poll \/ ReadBreaks \/ \E n \in 0 .. ReadSize : ReadReply(n)
  <2>1. /\ state' = state /\ pc' \in {"leaving", "reading", "feeding", "waiting"}
        /\ \/ flags' = flags
           \/ \E result \in Results : flags' = [flags EXCEPT !.result = result]
    BY <1>9 DEF Poll, ReadBreaks, ReadReply, Retry, Leave, Verdict, taskFrame
  <2> QED
    BY <1>2, <1>3, <2>1 DEF NoFlags
<1>10. CASE FeedReply
  <2> DEFINE s == Feed(parser, SubSeq(File, reply.fed + 1, reply.got), RoomFor)
             invalid == s.asked /\ s.p.rate # PlayRate
             handed == flags.started \/ (s.asked /\ ~invalid)
             asked == flags.started \/ s.asked
  <2>1. /\ state' = state /\ pc' \in {"feeding", "waiting", "leaving", "reading"}
        /\ \/ flags' = flags
           \/ flags' = [flags EXCEPT !.result = "failed"]
           \/ flags' = [flags EXCEPT !.result = "failed", !.started = handed]
           \/ flags' = [flags EXCEPT !.started = asked]
    BY <1>10 DEF FeedReply, Retry, Leave
  <2> HIDE DEF handed, asked
  <2> QED
    BY <1>2, <1>3, <2>1 DEF NoFlags
<1>11. CASE Exit
  BY <1>2, <1>3, <1>11 DEF Exit, taskFrame
<1> QED
  BY <1>4, <1>5, <1>6, <1>7, <1>8, <1>9, <1>10, <1>11 DEF MainLoop

LEMMA NextTyped ==
  ASSUME UploadInv, UploadInv', TypedInv, [Next]_vars
  PROVE  TypedInv'
  BY UploadTyped, OthersTyped DEF Next, VoiceTurn

\* State machine, task, session and decoder are each in one of their states, the
\* streams hold no more than they have room for, and at most one byte of a frame is
\* left over; the decoder of the gateway never meets a token out of place, whatever
\* was cut off (main.c:218-287, voice_http_chunk.c:17-31).
THEOREM AudioTypeCorrect == Spec => []AudioTypeOK
<1>1. RingInv /\ UploadInv /\ SpeakerInv /\ TypedInv => AudioTypeOK
  <2> SUFFICES ASSUME RingInv, UploadInv, SpeakerInv, TypedInv PROVE AudioTypeOK
    OBVIOUS
  <2>1. flags \in [cancel : BOOLEAN, started : BOOLEAN, finished : BOOLEAN, failed : BOOLEAN,
                   released : BOOLEAN, active : BOOLEAN,
                   result : {"waiting", "ready", "failed", "cancelled"}]
    <3>1. /\ flags = [f \in DOMAIN NoFlags |-> flags[f]]
          /\ {flags.cancel, flags.started, flags.finished, flags.failed, flags.released, flags.active}
               \subseteq BOOLEAN
          /\ flags.result \in Results
      BY DEF UploadInv, WorkInv, TypedInv
    <3>2. DOMAIN NoFlags = {"cancel", "started", "finished", "failed", "released", "active", "result"}
      BY DEF NoFlags
    <3> QED
      BY <3>1, <3>2 DEF Results
  <2>2. UploadTypeOK
    BY PeerDecodes DEF UploadInv, SessionInv, TypedInv, UploadTypeOK, Sessions, Decoding
  <2>3. captured \in Nat /\ Len(outgoing) <= StreamSize /\ Len(incoming) <= StreamSize /\ Len(pending) <= 1
    BY AudioPathAssumption DEF RingInv, SpeakerInv
  <2> QED
    BY <2>1, <2>2, <2>3 DEF AudioTypeOK, TypedInv, DeviceStates, Places
<1>2. RingInv /\ UploadInv /\ UploadInv' /\ TypedInv /\ [Next]_vars => TypedInv'
  BY NextTyped
<1>3. UploadInv /\ CodecInv /\ PlaybackInv => UploadInv /\ SpeakerInv
  BY DEF PlaybackInv
<1> QED
  BY InitRingInv, NextRingInv, AlwaysPlayback, InitTyped, <1>1, <1>2, <1>3, PTL DEF Spec
=============================================================================
