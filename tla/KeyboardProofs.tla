--------------------------- MODULE KeyboardProofs ---------------------------
(***************************************************************************)
(* Proofs about the keyboard layer, for any number of processes, any size  *)
(* of the rings and any range of their counters.                           *)
(***************************************************************************)
EXTENDS Keyboard, SequenceTheorems, TLAPS

(***************************************************************************)
(* Remainders.  A ring is addressed by counters modulo its size, and the   *)
(* counters themselves are numbers modulo their range.                     *)
(***************************************************************************)

\* The remainder is the only number below the divisor that differs from the
\* dividend by a multiple of it.
LEMMA ModUnique ==
  ASSUME NEW d \in Nat \ {0}, NEW q \in Int, NEW r \in 0 .. d - 1
  PROVE  (d * q + r) % d = r
<1> DEFINE x == d * q + r
           q1 == x \div d
           r1 == x % d
<1>1. x \in Int /\ q1 \in Int /\ r1 \in 0 .. d - 1 /\ x = d * q1 + r1
  OBVIOUS
<1> HIDE DEF q1, r1
<1>2. d * (q - q1) = r1 - r
  BY <1>1
<1>3. ~(q - q1 >= 1)
  <2>1. q - q1 >= 1 => d * (q - q1) >= d
    BY <1>1
  <2>2. QED
    BY <1>1, <1>2, <2>1
<1>4. ~(q - q1 <= -1)
  <2>1. q - q1 <= -1 => d * (q - q1) <= -d
    BY <1>1
  <2>2. QED
    BY <1>1, <1>2, <2>1
<1>5. q = q1
  BY <1>1, <1>3, <1>4
<1>6. r = r1
  BY <1>1, <1>2, <1>5
<1>7. QED
  BY <1>6 DEF r1

\* The remainder as an operator of its own, known by the lemmas below only.
Rem(x, d) == x % d

\* A multiple of the divisor does not change the remainder.
LEMMA ModShift ==
  ASSUME NEW d \in Nat \ {0}, NEW x \in Int, NEW q \in Int
  PROVE  Rem(x + d * q, d) = Rem(x, d)
<1> DEFINE n == x \div d
           r == Rem(x, d)
<1>1. n \in Int /\ r \in 0 .. d - 1 /\ x = d * n + r
  BY DEF Rem
<1> HIDE DEF n, r
<1>2. x + d * q = d * (n + q) + r
  BY <1>1
<1>3. Rem(d * (n + q) + r, d) = r
  BY <1>1, ModUnique DEF Rem
<1>4. QED
  BY <1>2, <1>3 DEF r

\* Numbers less than the divisor apart have different remainders.
LEMMA ModApart ==
  ASSUME NEW d \in Nat \ {0}, NEW x \in Int, NEW j \in 0 .. d - 1, NEW k \in 0 .. d - 1,
         Rem(x + j, d) = Rem(x + k, d)
  PROVE  j = k
<1> DEFINE n == (x + j) \div d
           m == (x + k) \div d
           r == Rem(x + j, d)
<1>1. /\ n \in Int /\ m \in Int /\ r \in Int
      /\ x + j = d * n + r /\ x + k = d * m + r
  BY DEF Rem
<1> HIDE DEF n, m, r
<1>2. d * (n - m) = j - k
  BY <1>1
<1>3. n - m >= 1 => d * (n - m) >= d
  BY <1>1
<1>4. n - m <= -1 => d * (n - m) <= -d
  BY <1>1
<1>5. n = m
  BY <1>1, <1>2, <1>3, <1>4
<1>6. QED
  BY <1>1, <1>5

\* A counter steps on modulo its range.
LEMMA NextCounter ==
  ASSUME NEW d \in Nat \ {0}, NEW x \in 0 .. d - 1
  PROVE  Rem(x + 1, d) = IF x + 1 = d THEN 0 ELSE x + 1
<1>1. CASE x + 1 = d
  <2>1. Rem(d * 1 + 0, d) = 0
    BY ModUnique DEF Rem
  <2>2. QED
    BY <1>1, <2>1
<1>2. CASE x + 1 # d
  <2>1. Rem(d * 0 + (x + 1), d) = x + 1
    BY <1>2, ModUnique DEF Rem
  <2>2. QED
    BY <1>2, <2>1
<1>3. QED
  BY <1>1, <1>2

\* The way from one counter to another.
LEMMA Distance ==
  ASSUME NEW d \in Nat \ {0}, NEW x \in 0 .. d - 1, NEW y \in 0 .. d - 1
  PROVE  Rem(y - x, d) = IF y >= x THEN y - x ELSE y - x + d
<1>1. CASE y >= x
  <2>1. Rem(d * 0 + (y - x), d) = y - x
    BY <1>1, ModUnique DEF Rem
  <2>2. QED
    BY <1>1, <2>1
<1>2. CASE y < x
  <2>1. Rem(d * (-1) + (y - x + d), d) = y - x + d
    BY <1>2, ModUnique DEF Rem
  <2>2. d * (-1) + (y - x + d) = y - x
    OBVIOUS
  <2>3. QED
    BY <1>2, <2>1, <2>2
<1>3. QED
  BY <1>1, <1>2

\* The size of a ring divides the range of its counters, so a counter that wraps
\* goes on at the slot where it would have been.
LEMMA SlotWraps ==
  ASSUME NEW x \in Int
  PROVE  /\ Rem(x + CounterRange, BufferSize) = Rem(x, BufferSize)
         /\ Rem(x - CounterRange, BufferSize) = Rem(x, BufferSize)
         /\ Rem(x + BufferSize, BufferSize) = Rem(x, BufferSize)
         /\ Rem(x, BufferSize) \in 0 .. BufferSize - 1
<1> DEFINE q == CounterRange \div BufferSize
<1>1. BufferSize \in Nat \ {0} /\ CounterRange \in Nat /\ CounterRange % BufferSize = 0
  BY KeyboardAssumption
<1>2. q \in Int /\ CounterRange = BufferSize * q
  BY <1>1
<1> HIDE DEF q
<1> DEFINE back == -q
           one == 1
<1>3. /\ back \in Int /\ BufferSize * back = -CounterRange
      /\ one \in Int /\ BufferSize * one = BufferSize
  BY <1>1, <1>2
<1> HIDE DEF back, one
<1>4. Rem(x + BufferSize * q, BufferSize) = Rem(x, BufferSize)
  BY <1>1, <1>2, ModShift
<1>5. Rem(x + BufferSize * back, BufferSize) = Rem(x, BufferSize)
  BY <1>1, <1>3, ModShift
<1>6. Rem(x + BufferSize * one, BufferSize) = Rem(x, BufferSize)
  BY <1>1, <1>3, ModShift
<1>7. Rem(x, BufferSize) \in 0 .. BufferSize - 1
  BY <1>1 DEF Rem
<1>8. x + BufferSize * back = x - CounterRange
  BY <1>1, <1>3
<1>9. QED
  BY <1>2, <1>3, <1>4, <1>5, <1>6, <1>7, <1>8
------------------------------------------------------------------------------
(***************************************************************************)
(* Sequences, as functions.                                                *)
(***************************************************************************)

\* Append adds one element at the end.
LEMMA AppendIs ==
  ASSUME NEW S, NEW w \in Seq(S), NEW e \in S
  PROVE  Append(w, e) = [k \in 1 .. Len(w) + 1 |-> IF k = Len(w) + 1 THEN e ELSE w[k]]
<1> DEFINE n == Len(w)
           a == Append(w, e)
<1>1. n \in Nat
  BY LenProperties
<1>2. /\ a \in Seq(S) /\ Len(a) = n + 1
      /\ \A i \in 1 .. n : a[i] = w[i]
      /\ a[n + 1] = e
  BY AppendProperties
<1>3. a \in [1 .. n + 1 -> S]
  BY <1>2, LenProperties
<1> HIDE DEF n, a
<1>4. \A i \in 1 .. n + 1 : a[i] = IF i = n + 1 THEN e ELSE w[i]
  BY <1>1, <1>2
<1>5. a = [k \in 1 .. n + 1 |-> IF k = n + 1 THEN e ELSE w[k]]
  BY <1>3, <1>4
<1>6. QED
  BY <1>5 DEF a, n

\* Tail removes one element at the front.
LEMMA TailIs ==
  ASSUME NEW S, NEW w \in Seq(S), w # <<>>
  PROVE  Tail(w) = [k \in 1 .. Len(w) - 1 |-> w[k + 1]]
<1> DEFINE n == Len(w)
           a == Tail(w)
<1>1. /\ a \in Seq(S) /\ Len(a) = n - 1
      /\ \A i \in 1 .. Len(a) : a[i] = w[i + 1]
  BY HeadTailProperties
<1>2. a \in [1 .. n - 1 -> S]
  BY <1>1, LenProperties
<1> HIDE DEF n, a
<1>3. a = [k \in 1 .. n - 1 |-> w[k + 1]]
  BY <1>1, <1>2
<1>4. QED
  BY <1>3 DEF a, n

\* A function on 1 .. n is a sequence of length n.
LEMMA FunctionIsSeq ==
  ASSUME NEW S, NEW n \in Nat, NEW w \in [1 .. n -> S]
  PROVE  w \in Seq(S) /\ Len(w) = n /\ (w = <<>> <=> n = 0)
<1>1. w \in Seq(S) /\ Len(w) = n
  OBVIOUS
<1>2. QED
  BY <1>1, EmptySeq
------------------------------------------------------------------------------
(***************************************************************************)
(* One ring.                                                               *)
(***************************************************************************)

Rings == [buffer : [0 .. BufferSize - 1 -> Chars \cup {0}],
          head : 0 .. CounterRange - 1, tail : 0 .. CounterRange - 1]

CountOf(b) == Rem(b.tail - b.head, CounterRange)

\* Slot k of the ring, counted from its head.
SlotOf(b, k) == Rem(b.head + k, BufferSize)

\* What RingIntact says of one ring.
Intact(b) ==
  /\ CountOf(b) <= BufferSize
  /\ \A k \in 0 .. BufferSize - 1 : (b.buffer[SlotOf(b, k)] # 0) <=> (k < CountOf(b))

\* A character is not 0, which marks an empty slot.
LEMMA CharsNonzero == Chars \subseteq Nat \ {0}
<1>1. \A s \in DOMAIN ScanSet : ScanSet[s] \in Nat
  BY KeyboardAssumption
<1>2. QED
  BY <1>1 DEF Chars, IsUpper

\* What the counters of a ring say.
LEMMA Counters ==
  ASSUME NEW b \in Rings
  PROVE  /\ CountOf(b) = IF b.tail >= b.head THEN b.tail - b.head
                         ELSE b.tail - b.head + CounterRange
         /\ CountOf(b) \in 0 .. CounterRange - 1
         /\ SlotOf(b, CountOf(b)) = Rem(b.tail, BufferSize)
         /\ SlotOf(b, 0) = Rem(b.head, BufferSize)
         /\ SlotOf(b, BufferSize) = Rem(b.head, BufferSize)
         /\ \A k \in Nat : SlotOf(b, k) \in 0 .. BufferSize - 1
<1> DEFINE h == b.head
           t == b.tail
<1>1. /\ h \in 0 .. CounterRange - 1 /\ t \in 0 .. CounterRange - 1
      /\ CounterRange \in Nat \ {0} /\ BufferSize \in Nat \ {0}
  BY KeyboardAssumption DEF Rings
<1> HIDE DEF h, t
<1>2. Rem(t - h, CounterRange) = IF t >= h THEN t - h ELSE t - h + CounterRange
  BY <1>1, Distance
<1>3. Rem(t + CounterRange, BufferSize) = Rem(t, BufferSize)
  BY <1>1, SlotWraps
<1>4. Rem(h + Rem(t - h, CounterRange), BufferSize) = Rem(t, BufferSize)
  <2>1. CASE t >= h
    <3>1. h + Rem(t - h, CounterRange) = t
      BY <1>1, <1>2, <2>1
    <3>2. QED
      BY <3>1
  <2>2. CASE t < h
    <3>1. h + Rem(t - h, CounterRange) = t + CounterRange
      BY <1>1, <1>2, <2>2
    <3>2. QED
      BY <1>3, <3>1
  <2>3. QED
    BY <1>1, <2>1, <2>2
<1>5. Rem(h + BufferSize, BufferSize) = Rem(h, BufferSize)
  BY <1>1, SlotWraps
<1>6. h + 0 = h
  BY <1>1
<1>7. \A k \in Nat : Rem(h + k, BufferSize) \in 0 .. BufferSize - 1
  BY <1>1, SlotWraps
<1>8. Rem(t - h, CounterRange) \in 0 .. CounterRange - 1
  BY <1>1, <1>2
<1>9. QED
  BY <1>2, <1>4, <1>5, <1>6, <1>7, <1>8 DEF CountOf, SlotOf, h, t

Pushed(b, c) == [b EXCEPT !.buffer[Rem(b.tail, BufferSize)] = c,
                          !.tail = Rem(@ + 1, CounterRange)]

\* keyboard_push finds an empty slot unless the ring is full, and then adds the
\* character behind the ones that wait.
LEMMA PushRing ==
  ASSUME NEW b \in Rings, NEW c \in Chars
  PROVE  LET r == Pushed(b, c)
         IN /\ r \in Rings
            /\ Intact(b) => (b.buffer[Rem(b.tail, BufferSize)] # 0 <=> CountOf(b) = BufferSize)
            /\ Intact(b) /\ CountOf(b) # BufferSize =>
                 /\ Intact(r)
                 /\ CountOf(r) = CountOf(b) + 1
                 /\ \A k \in 0 .. CountOf(b) - 1 :
                      r.buffer[SlotOf(r, k)] = b.buffer[SlotOf(b, k)]
                 /\ r.buffer[SlotOf(r, CountOf(b))] = c
<1> DEFINE r == Pushed(b, c)
           n == CountOf(b)
           i == Rem(b.tail, BufferSize)
           v == Rem(b.tail + 1, CounterRange)
<1>1. /\ CounterRange \in Nat \ {0} /\ BufferSize \in Nat \ {0}
      /\ CounterRange > BufferSize
  BY KeyboardAssumption
<1>2. /\ b.head \in 0 .. CounterRange - 1 /\ b.tail \in 0 .. CounterRange - 1
      /\ b.buffer \in [0 .. BufferSize - 1 -> Chars \cup {0}]
  BY DEF Rings
<1>3. i \in 0 .. BufferSize - 1
  <2>1. b.head \in Int /\ b.tail \in Int
    BY <1>1, <1>2
  <2>2. QED
    BY <2>1, SlotWraps
<1>4. v = IF b.tail + 1 = CounterRange THEN 0 ELSE b.tail + 1
  BY <1>1, <1>2, NextCounter
<1>5. /\ n = IF b.tail >= b.head THEN b.tail - b.head ELSE b.tail - b.head + CounterRange
      /\ n \in 0 .. CounterRange - 1
  BY Counters
<1>6. /\ SlotOf(b, n) = i
      /\ SlotOf(b, 0) = SlotOf(b, BufferSize)
      /\ \A k \in Nat : SlotOf(b, k) \in 0 .. BufferSize - 1
  BY Counters
<1> HIDE DEF i, n, v
<1>7. r = [buffer |-> [b.buffer EXCEPT ![i] = c], head |-> b.head, tail |-> v]
  <2>1. r = [b EXCEPT !.buffer = [b.buffer EXCEPT ![i] = c], !.tail = v]
    BY DEF Pushed, Rings, i, v
  <2>2. b = [buffer |-> b.buffer, head |-> b.head, tail |-> b.tail]
    BY DEF Rings
  <2> HIDE DEF r
  <2>3. QED
    BY <2>1, <2>2
<1> HIDE DEF r
<1>8. /\ r.head = b.head
      /\ r.tail = v
      /\ r.buffer = [b.buffer EXCEPT ![i] = c]
  BY <1>7
<1>9. r \in Rings
  <2>1. [b.buffer EXCEPT ![i] = c] \in [0 .. BufferSize - 1 -> Chars \cup {0}]
    BY <1>2
  <2>2. v \in 0 .. CounterRange - 1
    BY <1>1, <1>2, <1>4
  <2>3. QED
    BY <1>2, <1>7, <2>1, <2>2 DEF Rings
<1>10. ASSUME Intact(b)
       PROVE  /\ n <= BufferSize
              /\ \A k \in 0 .. BufferSize - 1 : (b.buffer[SlotOf(b, k)] # 0) <=> (k < n)
  BY <1>10 DEF Intact, n
<1>11. ASSUME Intact(b)
       PROVE  b.buffer[i] # 0 <=> n = BufferSize
  <2>1. CASE n = BufferSize
    <3>1. SlotOf(b, 0) = i /\ 0 \in 0 .. BufferSize - 1 /\ 0 < n
      BY <1>1, <1>6, <2>1
    <3>2. QED
      BY <1>10, <1>11, <2>1, <3>1
  <2>2. CASE n # BufferSize
    <3>1. n \in 0 .. BufferSize - 1 /\ ~(n < n)
      BY <1>1, <1>5, <1>10, <1>11, <2>2
    <3>2. QED
      BY <1>6, <1>10, <1>11, <2>2, <3>1
  <2>3. QED
    BY <2>1, <2>2
<1>12. ASSUME Intact(b), n # BufferSize
       PROVE  /\ Intact(r)
              /\ CountOf(r) = n + 1
              /\ \A k \in 0 .. n - 1 : r.buffer[SlotOf(r, k)] = b.buffer[SlotOf(b, k)]
              /\ r.buffer[SlotOf(r, n)] = c
  <2>1. n \in 0 .. BufferSize - 1
    BY <1>1, <1>5, <1>10, <1>12
  <2>2. CountOf(r) = n + 1
    <3>1. CountOf(r) = IF r.tail >= r.head THEN r.tail - r.head
                       ELSE r.tail - r.head + CounterRange
      BY <1>9, Counters
    <3> DEFINE h == b.head
               t == b.tail
               u == v
    <3>2. /\ h \in 0 .. CounterRange - 1 /\ t \in 0 .. CounterRange - 1
          /\ n = IF t >= h THEN t - h ELSE t - h + CounterRange
          /\ u = IF t + 1 = CounterRange THEN 0 ELSE t + 1
          /\ CountOf(r) = IF u >= h THEN u - h ELSE u - h + CounterRange
      BY <1>2, <1>4, <1>5, <1>8, <3>1
    <3> HIDE DEF h, t, u
    <3>3. QED
      BY <1>1, <2>1, <3>2
  <2>3. \A k \in Nat : SlotOf(r, k) = SlotOf(b, k)
    BY <1>8 DEF SlotOf
  <2>4. ASSUME NEW k \in 0 .. BufferSize - 1, SlotOf(b, k) = i
        PROVE  k = n
    <3>1. Rem(b.head + k, BufferSize) = Rem(b.head + n, BufferSize)
      BY <1>6, <2>4 DEF SlotOf
    <3>2. b.head \in Int /\ BufferSize \in Nat \ {0}
      BY <1>1, <1>2
    <3>3. QED
      BY <2>1, <3>1, <3>2, ModApart
  <2>5. ASSUME NEW k \in 0 .. BufferSize - 1
        PROVE  r.buffer[SlotOf(r, k)] = IF k = n THEN c ELSE b.buffer[SlotOf(b, k)]
    <3>1. k \in Nat /\ SlotOf(b, k) \in 0 .. BufferSize - 1
      BY <1>1, <1>6
    <3>2. SlotOf(r, k) = SlotOf(b, k) /\ (k = n <=> SlotOf(b, k) = i)
      BY <1>6, <2>3, <2>4, <3>1
    <3>3. QED
      BY <1>2, <1>3, <1>8, <3>1, <3>2
  <2>6. c # 0
    BY CharsNonzero
  <2>7. Intact(r)
    <3>1. n + 1 <= BufferSize
      BY <1>1, <2>1
    <3>2. ASSUME NEW k \in 0 .. BufferSize - 1
          PROVE  (r.buffer[SlotOf(r, k)] # 0) <=> (k < n + 1)
      <4>1. CASE k = n
        BY <1>1, <2>1, <2>5, <2>6, <4>1
      <4>2. CASE k # n
        <5>1. k < n + 1 <=> k < n
          BY <1>1, <2>1, <4>2
        <5>2. QED
          BY <1>10, <1>12, <2>5, <4>2, <5>1
      <4>3. QED
        BY <4>1, <4>2
    <3>3. QED
      BY <2>2, <3>1, <3>2 DEF Intact
  <2>8. \A k \in 0 .. n - 1 : k \in 0 .. BufferSize - 1 /\ k # n
    BY <1>1, <2>1
  <2>9. QED
    BY <2>1, <2>2, <2>5, <2>7, <2>8
<1>13. QED
  BY <1>9, <1>11, <1>12 DEF r, n, i

Popped(b) == [b EXCEPT !.buffer[Rem(b.head, BufferSize)] = 0,
                       !.head = Rem(@ + 1, CounterRange)]

\* keyboard_pop finds a character unless none waits, and takes the first one away.
LEMMA PopRing ==
  ASSUME NEW b \in Rings
  PROVE  LET r == Popped(b)
         IN /\ r \in Rings
            /\ b.buffer[Rem(b.head, BufferSize)] \in Chars \cup {0}
            /\ Intact(b) => (b.buffer[Rem(b.head, BufferSize)] # 0 <=> CountOf(b) > 0)
            /\ Intact(b) /\ CountOf(b) > 0 =>
                 /\ Intact(r)
                 /\ CountOf(r) = CountOf(b) - 1
                 /\ \A k \in 0 .. CountOf(b) - 2 :
                      r.buffer[SlotOf(r, k)] = b.buffer[SlotOf(b, k + 1)]
<1> DEFINE r == Popped(b)
           n == CountOf(b)
           i == Rem(b.head, BufferSize)
           v == Rem(b.head + 1, CounterRange)
           last == BufferSize - 1
<1>1. /\ CounterRange \in Nat \ {0} /\ BufferSize \in Nat \ {0}
      /\ CounterRange > BufferSize
      /\ last \in Nat /\ last + 1 = BufferSize
  BY KeyboardAssumption
<1> HIDE DEF last
<1>2. /\ b.head \in 0 .. CounterRange - 1 /\ b.tail \in 0 .. CounterRange - 1
      /\ b.buffer \in [0 .. BufferSize - 1 -> Chars \cup {0}]
  BY DEF Rings
<1>3. i \in 0 .. BufferSize - 1
  <2>1. b.head \in Int /\ b.tail \in Int
    BY <1>1, <1>2
  <2>2. QED
    BY <2>1, SlotWraps
<1>4. v = IF b.head + 1 = CounterRange THEN 0 ELSE b.head + 1
  BY <1>1, <1>2, NextCounter
<1>5. /\ n = IF b.tail >= b.head THEN b.tail - b.head ELSE b.tail - b.head + CounterRange
      /\ n \in 0 .. CounterRange - 1
  BY Counters
<1>6. /\ SlotOf(b, 0) = i
      /\ SlotOf(b, BufferSize) = i
      /\ \A k \in Nat : SlotOf(b, k) \in 0 .. BufferSize - 1
  BY Counters
<1> HIDE DEF i, n, v
<1>7. r = [buffer |-> [b.buffer EXCEPT ![i] = 0], head |-> v, tail |-> b.tail]
  <2>1. r = [b EXCEPT !.buffer = [b.buffer EXCEPT ![i] = 0], !.head = v]
    BY DEF Popped, Rings, i, v
  <2>2. b = [buffer |-> b.buffer, head |-> b.head, tail |-> b.tail]
    BY DEF Rings
  <2> HIDE DEF r
  <2>3. QED
    BY <2>1, <2>2
<1> HIDE DEF r
<1>8. /\ r.head = v
      /\ r.tail = b.tail
      /\ r.buffer = [b.buffer EXCEPT ![i] = 0]
  BY <1>7
<1>9. r \in Rings
  <2>1. [b.buffer EXCEPT ![i] = 0] \in [0 .. BufferSize - 1 -> Chars \cup {0}]
    BY <1>2
  <2>2. v \in 0 .. CounterRange - 1
    BY <1>1, <1>2, <1>4
  <2>3. QED
    BY <1>2, <1>7, <2>1, <2>2 DEF Rings
<1>10. ASSUME Intact(b)
       PROVE  /\ n <= BufferSize
              /\ \A k \in 0 .. BufferSize - 1 : (b.buffer[SlotOf(b, k)] # 0) <=> (k < n)
  BY <1>10 DEF Intact, n
<1>11. Intact(b) => (b.buffer[i] # 0 <=> n > 0)
  <2>1. 0 \in 0 .. BufferSize - 1 /\ (0 < n <=> n > 0)
    BY <1>1, <1>5
  <2>2. QED
    BY <1>6, <1>10, <2>1
<1>12. ASSUME Intact(b), n > 0
       PROVE  /\ Intact(r)
              /\ CountOf(r) = n - 1
              /\ \A k \in 0 .. n - 2 : r.buffer[SlotOf(r, k)] = b.buffer[SlotOf(b, k + 1)]
  <2>1. n \in 1 .. BufferSize
    BY <1>1, <1>5, <1>10, <1>12
  <2>2. CountOf(r) = n - 1
    <3>1. CountOf(r) = IF r.tail >= r.head THEN r.tail - r.head
                       ELSE r.tail - r.head + CounterRange
      BY <1>9, Counters
    <3> DEFINE h == b.head
               t == b.tail
               u == v
    <3>2. /\ h \in 0 .. CounterRange - 1 /\ t \in 0 .. CounterRange - 1
          /\ n = IF t >= h THEN t - h ELSE t - h + CounterRange
          /\ u = IF h + 1 = CounterRange THEN 0 ELSE h + 1
          /\ CountOf(r) = IF t >= u THEN t - u ELSE t - u + CounterRange
      BY <1>2, <1>4, <1>5, <1>8, <3>1
    <3> HIDE DEF h, t, u
    <3>3. QED
      BY <1>1, <2>1, <3>2
  <2>3. ASSUME NEW k \in Nat
        PROVE  SlotOf(r, k) = SlotOf(b, k + 1)
    <3> DEFINE h == b.head
    <3>0. h \in 0 .. CounterRange - 1
      BY <1>2
    <3>1. CASE h + 1 # CounterRange
      <4>1. r.head = h + 1
        BY <1>4, <1>8, <3>1
      <4> HIDE DEF h
      <4>2. (h + 1) + k = h + (k + 1)
        BY <1>1, <3>0
      <4>3. QED
        BY <4>1, <4>2 DEF SlotOf, h
    <3>2. CASE h + 1 = CounterRange
      <4>1. r.head = 0
        BY <1>4, <1>8, <3>2
      <4> HIDE DEF h
      <4>2. 0 + k = k /\ h + (k + 1) = k + CounterRange
        BY <1>1, <3>0, <3>2
      <4>3. Rem(k + CounterRange, BufferSize) = Rem(k, BufferSize)
        BY SlotWraps
      <4>4. QED
        BY <4>1, <4>2, <4>3 DEF SlotOf, h
    <3>3. QED
      BY <3>1, <3>2
  <2>4. ASSUME NEW k \in 0 .. BufferSize - 1, SlotOf(b, k) = i
        PROVE  k = 0
    <3>1. Rem(b.head + k, BufferSize) = Rem(b.head + 0, BufferSize)
      BY <1>6, <2>4 DEF SlotOf
    <3>2. b.head \in Int /\ BufferSize \in Nat \ {0} /\ 0 \in 0 .. BufferSize - 1
      BY <1>1, <1>2
    <3>3. QED
      BY <3>1, <3>2, ModApart
  <2>5. ASSUME NEW k \in Nat, k < last
        PROVE  r.buffer[SlotOf(r, k)] = b.buffer[SlotOf(b, k + 1)]
    <3>1. k + 1 \in Nat /\ k + 1 \in 0 .. BufferSize - 1 /\ k + 1 # 0
      BY <1>1, <2>5
    <3>2. SlotOf(b, k + 1) \in 0 .. BufferSize - 1 /\ SlotOf(b, k + 1) # i
      BY <1>6, <2>4, <3>1
    <3>3. QED
      BY <1>2, <1>8, <2>3, <3>2
  <2>6. r.buffer[SlotOf(r, last)] = 0
    <3>1. SlotOf(r, last) = i
      BY <1>1, <1>6, <2>3
    <3>2. QED
      BY <1>2, <1>3, <1>8, <3>1
  <2>7. Intact(r)
    <3>1. n - 1 <= BufferSize
      BY <1>1, <2>1
    <3>2. ASSUME NEW k \in 0 .. BufferSize - 1
          PROVE  (r.buffer[SlotOf(r, k)] # 0) <=> (k < n - 1)
      <4>1. CASE k = last
        <5>1. ~(k < n - 1)
          BY <1>1, <2>1, <4>1
        <5>2. QED
          BY <2>6, <4>1, <5>1
      <4>2. CASE k # last
        <5>1. k \in Nat /\ k < last /\ k + 1 \in 0 .. BufferSize - 1
          BY <1>1, <4>2
        <5>2. k + 1 < n <=> k < n - 1
          BY <1>1, <2>1, <5>1
        <5>3. QED
          BY <1>10, <1>12, <2>5, <5>1, <5>2
      <4>3. QED
        BY <4>1, <4>2
    <3>3. QED
      BY <2>2, <3>1, <3>2 DEF Intact
  <2>8. \A k \in 0 .. n - 2 : k \in Nat /\ k < last
    BY <1>1, <2>1
  <2>9. QED
    BY <2>2, <2>5, <2>7, <2>8
<1>13. b.buffer[i] \in Chars \cup {0}
  BY <1>2, <1>3
<1>14. QED
  BY <1>9, <1>11, <1>12, <1>13 DEF r, n, i

\* The characters that wait in a ring, in the order in which they are read.
Waiting(b) == [k \in 1 .. CountOf(b) |-> b.buffer[SlotOf(b, k - 1)]]

\* The ring is a sequence of characters as long as it counts.
LEMMA WaitingLength ==
  ASSUME NEW b \in Rings
  PROVE  /\ Waiting(b) \in Seq(Chars \cup {0})
         /\ Len(Waiting(b)) = CountOf(b)
         /\ Waiting(b) = <<>> <=> CountOf(b) = 0
<1>0. CounterRange \in Nat
  BY KeyboardAssumption
<1>1. /\ CountOf(b) \in Nat
      /\ \A k \in Nat : SlotOf(b, k) \in 0 .. BufferSize - 1
  BY <1>0, Counters
<1>2. b.buffer \in [0 .. BufferSize - 1 -> Chars \cup {0}]
  BY DEF Rings
<1>3. \A k \in 1 .. CountOf(b) : b.buffer[SlotOf(b, k - 1)] \in Chars \cup {0}
  <2>1. \A k \in 1 .. CountOf(b) : k - 1 \in Nat
    BY <1>1
  <2>2. QED
    BY <1>1, <1>2, <2>1
<1>4. Waiting(b) \in [1 .. CountOf(b) -> Chars \cup {0}]
  BY <1>3 DEF Waiting
<1>5. QED
  BY <1>1, <1>4, FunctionIsSeq

\* keyboard_push is Append.
LEMMA WaitingPush ==
  ASSUME NEW b \in Rings, NEW c \in Chars, Intact(b), CountOf(b) # BufferSize
  PROVE  Waiting(Pushed(b, c)) = Append(Waiting(b), c)
<1> DEFINE r == Pushed(b, c)
           n == CountOf(b)
<1>1. /\ r \in Rings
      /\ CountOf(r) = n + 1
      /\ \A k \in 0 .. n - 1 : r.buffer[SlotOf(r, k)] = b.buffer[SlotOf(b, k)]
      /\ r.buffer[SlotOf(r, n)] = c
  BY PushRing
<1>2. n \in Nat
  BY Counters, KeyboardAssumption
<1> HIDE DEF r, n
<1>3. Waiting(b) = [k \in 1 .. n |-> b.buffer[SlotOf(b, k - 1)]]
  BY DEF Waiting, n
<1>4. Waiting(r) = [k \in 1 .. n + 1 |-> r.buffer[SlotOf(r, k - 1)]]
  BY <1>1 DEF Waiting
<1>5. Waiting(b) \in Seq(Chars \cup {0}) /\ Len(Waiting(b)) = n
  BY WaitingLength DEF n
<1>6. Append(Waiting(b), c) = [k \in 1 .. n + 1 |-> IF k = n + 1 THEN c ELSE Waiting(b)[k]]
  <2>1. c \in Chars \cup {0}
    OBVIOUS
  <2>2. QED
    BY <1>5, <2>1, AppendIs
<1>7. ASSUME NEW k \in 1 .. n + 1
      PROVE  r.buffer[SlotOf(r, k - 1)] = IF k = n + 1 THEN c ELSE Waiting(b)[k]
  <2>1. CASE k = n + 1
    <3>1. k - 1 = n
      BY <1>2, <2>1
    <3>2. QED
      BY <1>1, <2>1, <3>1
  <2>2. CASE k # n + 1
    <3>1. k - 1 \in 0 .. n - 1 /\ k \in 1 .. n
      BY <1>2, <2>2
    <3>2. QED
      BY <1>1, <1>3, <2>2, <3>1
  <2>3. QED
    BY <2>1, <2>2
<1>8. QED
  BY <1>4, <1>6, <1>7 DEF r

\* keyboard_pop takes the head of the sequence.
LEMMA WaitingPop ==
  ASSUME NEW b \in Rings, Intact(b), CountOf(b) > 0
  PROVE  /\ Head(Waiting(b)) = b.buffer[Rem(b.head, BufferSize)]
         /\ Tail(Waiting(b)) = Waiting(Popped(b))
<1> DEFINE r == Popped(b)
           n == CountOf(b)
<1>1. /\ CountOf(r) = n - 1
      /\ \A k \in 0 .. n - 2 : r.buffer[SlotOf(r, k)] = b.buffer[SlotOf(b, k + 1)]
  BY PopRing
<1>2. n \in Nat /\ n > 0 /\ SlotOf(b, 0) = Rem(b.head, BufferSize)
  BY Counters, KeyboardAssumption
<1> HIDE DEF r, n
<1>3. Waiting(b) = [k \in 1 .. n |-> b.buffer[SlotOf(b, k - 1)]]
  BY DEF Waiting, n
<1>4. Waiting(r) = [k \in 1 .. n - 1 |-> r.buffer[SlotOf(r, k - 1)]]
  BY <1>1 DEF Waiting
<1>5. /\ Waiting(b) \in Seq(Chars \cup {0}) /\ Len(Waiting(b)) = n
      /\ Waiting(b) # <<>>
  BY <1>2, WaitingLength DEF n
<1>6. Head(Waiting(b)) = b.buffer[SlotOf(b, 0)]
  <2>1. 1 \in 1 .. n /\ 1 - 1 = 0
    BY <1>2
  <2>2. Head(Waiting(b)) = Waiting(b)[1]
    BY <1>5
  <2>3. QED
    BY <1>3, <2>1, <2>2
<1>7. Tail(Waiting(b)) = [k \in 1 .. n - 1 |-> Waiting(b)[k + 1]]
  BY <1>5, TailIs
<1>8. ASSUME NEW k \in 1 .. n - 1
      PROVE  r.buffer[SlotOf(r, k - 1)] = Waiting(b)[k + 1]
  <2>1. k - 1 \in 0 .. n - 2 /\ (k - 1) + 1 = k /\ k + 1 \in 1 .. n /\ (k + 1) - 1 = k
    BY <1>2
  <2>2. QED
    BY <1>1, <1>3, <2>1
<1>9. QED
  BY <1>2, <1>4, <1>6, <1>7, <1>8 DEF r
------------------------------------------------------------------------------
(***************************************************************************)
(* The keyboard layer.                                                     *)
(***************************************************************************)

KeyboardType ==
  /\ keyboard \in [Procs -> Rings]
  /\ key \in Chars \cup {0}
  /\ overrun \subseteq Procs
  /\ focus \in Procs
  /\ running \in Procs

KeyboardInv == KeyboardType /\ RingIntact

\* RingIntact is about each ring on its own.
LEMMA EachRing == RingIntact <=> \A p \in Procs \ overrun : Intact(keyboard[p])
BY DEF RingIntact, Count, Intact, CountOf, SlotOf, Rem

\* The interrupt handler gives characters only.
LEMMA ScancodeChars ==
  ASSUME NEW s \in Scancodes, NEW caps,
         NEW c \in classic_keyboard_scancode_to_char(s, caps), c # 0
  PROVE  c \in Chars
<1>1. ScanSetSize \in Nat /\ s \in Nat /\ DOMAIN ScanSet = 0 .. ScanSetSize - 1
  BY KeyboardAssumption DEF Scancodes
<1>2. CASE s > ScanSetSize
  BY <1>2 DEF classic_keyboard_scancode_to_char
<1>3. CASE s = ScanSetSize
  BY <1>1, <1>3 DEF classic_keyboard_scancode_to_char
<1>4. CASE s < ScanSetSize
  <2>1. s \in DOMAIN ScanSet /\ ScanSet[s] \in Nat
    BY <1>1, <1>4, KeyboardAssumption
  <2>2. c = IF ~caps /\ IsUpper(ScanSet[s]) THEN ScanSet[s] + 32 ELSE ScanSet[s]
    BY <1>1, <1>4 DEF classic_keyboard_scancode_to_char
  <2>3. IsUpper(ScanSet[s]) => ScanSet[s] # 0
    BY DEF IsUpper
  <2>4. QED
    BY <2>1, <2>2, <2>3 DEF Chars
<1>5. QED
  BY <1>1, <1>2, <1>3, <1>4

\* What the keyboard interrupt does to the rings.
LEMMA InterruptStep ==
  ASSUME KeyboardType, NEW s \in Scancodes, classic_keyboard_handle_interrupt(s)
  PROVE  /\ UNCHANGED <<key, focus, running>>
         /\ \/ UNCHANGED <<keyboard, overrun>>
            \/ \E c \in Chars :
                 /\ keyboard' = [keyboard EXCEPT ![focus] = Pushed(keyboard[focus], c)]
                 /\ overrun' = IF keyboard[focus].buffer[Rem(keyboard[focus].tail, BufferSize)] # 0
                                 THEN overrun \cup {focus} ELSE overrun
<1>1. PICK c \in classic_keyboard_scancode_to_char(s, capslock') :
        IF c = 0
          THEN UNCHANGED <<keyboard, overrun>>
          ELSE /\ keyboard' = keyboard_push(focus, c)
               /\ overrun' = IF keyboard[focus].buffer[keyboard_get_tail_index(focus)] # 0
                               THEN overrun \cup {focus} ELSE overrun
  BY DEF classic_keyboard_handle_interrupt
<1>2. UNCHANGED <<key, focus, running>>
  BY DEF classic_keyboard_handle_interrupt
<1>3. CASE c = 0
  BY <1>1, <1>2, <1>3
<1>4. CASE c # 0
  <2>1. c \in Chars
    BY <1>4, ScancodeChars
  <2>2. keyboard_push(focus, c) = [keyboard EXCEPT ![focus] = Pushed(keyboard[focus], c)]
    <3> DEFINE b == keyboard[focus]
    <3>1. keyboard \in [Procs -> Rings] /\ focus \in Procs
      BY DEF KeyboardType
    <3>2. keyboard_push(focus, c) =
            [keyboard EXCEPT ![focus] = [b EXCEPT !.buffer[b.tail % BufferSize] = c,
                                                  !.tail = (b.tail + 1) % CounterRange]]
      BY <3>1 DEF keyboard_push, keyboard_get_tail_index, Rings
    <3>3. QED
      BY <3>2 DEF Pushed, Rem
  <2>3. keyboard_get_tail_index(focus) = Rem(keyboard[focus].tail, BufferSize)
    BY DEF keyboard_get_tail_index, Rem
  <2>4. QED
    BY <1>1, <1>2, <1>4, <2>1, <2>2, <2>3
<1>5. QED
  BY <1>3, <1>4

\* What the read of a key does to the rings.
LEMMA GetkeyStep ==
  ASSUME KeyboardType, isr80h_command2_getkey
  PROVE  /\ UNCHANGED <<overrun, focus, running>>
         /\ key' = keyboard[running].buffer[Rem(keyboard[running].head, BufferSize)]
         /\ keyboard' = IF key' = 0 THEN keyboard
                        ELSE [keyboard EXCEPT ![running] = Popped(keyboard[running])]
<1>1. HeadIndex(running) = Rem(keyboard[running].head, BufferSize)
  BY DEF HeadIndex, Rem
<1>2. keyboard_pop(running) = [keyboard EXCEPT ![running] = Popped(keyboard[running])]
  <2> DEFINE b == keyboard[running]
  <2>1. keyboard \in [Procs -> Rings] /\ running \in Procs
    BY DEF KeyboardType
  <2>2. keyboard_pop(running) =
          [keyboard EXCEPT ![running] = [b EXCEPT !.buffer[b.head % BufferSize] = 0,
                                                  !.head = (b.head + 1) % CounterRange]]
    BY <2>1 DEF keyboard_pop, HeadIndex, Rings
  <2>3. QED
    BY <2>2 DEF Popped, Rem
<1>3. QED
  BY <1>1, <1>2 DEF isr80h_command2_getkey

\* The rings are never overrun to begin with: they are empty.
LEMMA KeyboardInit == Init => KeyboardInv
<1> SUFFICES ASSUME Init PROVE KeyboardInv
  OBVIOUS
<1> DEFINE b == [buffer |-> [k \in 0 .. BufferSize - 1 |-> 0], head |-> 0, tail |-> 0]
<1>1. keyboard = [p \in Procs |-> b]
  BY DEF Init
<1>2. BufferSize \in Nat \ {0} /\ CounterRange \in Nat \ {0}
  BY KeyboardAssumption
<1>3. b \in Rings
  BY <1>2 DEF Rings
<1>4. CountOf(b) = 0
  BY <1>2, <1>3, Counters
<1>5. \A k \in 0 .. BufferSize - 1 : b.buffer[SlotOf(b, k)] = 0 /\ ~(k < 0)
  BY <1>2, <1>3, Counters
<1>6. Intact(b)
  BY <1>2, <1>4, <1>5 DEF Intact
<1> HIDE DEF b
<1>7. KeyboardType
  BY <1>1, <1>3 DEF Init, KeyboardType
<1>8. RingIntact
  BY <1>1, <1>6, EachRing
<1>9. QED
  BY <1>7, <1>8 DEF KeyboardInv

\* Every step keeps the rings intact: a push that finds its slot taken marks the
\* ring as overrun, and a read finds a character exactly when one waits.
LEMMA KeyboardNext == KeyboardInv /\ [Next]_vars => KeyboardInv'
<1> SUFFICES ASSUME KeyboardInv, [Next]_vars PROVE KeyboardInv'
  OBVIOUS
<1>1. KeyboardType /\ \A p \in Procs \ overrun : Intact(keyboard[p])
  BY EachRing DEF KeyboardInv
<1>2. ASSUME KeyboardType', \A p \in Procs \ overrun' : Intact(keyboard'[p])
      PROVE  KeyboardInv'
  BY <1>2 DEF KeyboardInv, RingIntact, Count, Intact, CountOf, SlotOf, Rem
<1>3. ASSUME NEW s \in Scancodes, classic_keyboard_handle_interrupt(s)
      PROVE  KeyboardInv'
  <2>1. /\ UNCHANGED <<key, focus, running>>
        /\ \/ UNCHANGED <<keyboard, overrun>>
           \/ \E c \in Chars :
                /\ keyboard' = [keyboard EXCEPT ![focus] = Pushed(keyboard[focus], c)]
                /\ overrun' = IF keyboard[focus].buffer[Rem(keyboard[focus].tail, BufferSize)] # 0
                                THEN overrun \cup {focus} ELSE overrun
    BY <1>1, <1>3, InterruptStep
  <2>2. CASE UNCHANGED <<keyboard, overrun>>
    BY <1>1, <1>2, <2>1, <2>2 DEF KeyboardType
  <2>3. ASSUME NEW c \in Chars,
               keyboard' = [keyboard EXCEPT ![focus] = Pushed(keyboard[focus], c)],
               overrun' = IF keyboard[focus].buffer[Rem(keyboard[focus].tail, BufferSize)] # 0
                            THEN overrun \cup {focus} ELSE overrun
        PROVE  KeyboardInv'
    <3>1. keyboard \in [Procs -> Rings] /\ focus \in Procs /\ keyboard[focus] \in Rings
      BY <1>1 DEF KeyboardType
    <3>2. /\ Pushed(keyboard[focus], c) \in Rings
          /\ focus \notin overrun' => Intact(Pushed(keyboard[focus], c))
      BY <1>1, <2>3, <3>1, PushRing
    <3>3. KeyboardType'
      BY <1>1, <2>1, <2>3, <3>1, <3>2 DEF KeyboardType
    <3>4. \A p \in Procs \ overrun' : Intact(keyboard'[p])
      BY <1>1, <2>3, <3>1, <3>2
    <3>5. QED
      BY <1>2, <3>3, <3>4
  <2>4. QED
    BY <2>1, <2>2, <2>3
<1>4. CASE isr80h_command2_getkey
  <2>1. /\ UNCHANGED <<overrun, focus, running>>
        /\ key' = keyboard[running].buffer[Rem(keyboard[running].head, BufferSize)]
        /\ keyboard' = IF key' = 0 THEN keyboard
                       ELSE [keyboard EXCEPT ![running] = Popped(keyboard[running])]
    BY <1>1, <1>4, GetkeyStep
  <2>2. keyboard \in [Procs -> Rings] /\ running \in Procs /\ keyboard[running] \in Rings
    BY <1>1 DEF KeyboardType
  <2>3. /\ key' \in Chars \cup {0}
        /\ Popped(keyboard[running]) \in Rings
        /\ key' # 0 /\ running \notin overrun => Intact(Popped(keyboard[running]))
    BY <1>1, <2>1, <2>2, PopRing
  <2>4. KeyboardType'
    BY <1>1, <2>1, <2>2, <2>3 DEF KeyboardType
  <2>5. \A p \in Procs \ overrun' : Intact(keyboard'[p])
    BY <1>1, <2>1, <2>2, <2>3
  <2>6. QED
    BY <1>2, <2>4, <2>5
<1>5. CASE Schedule
  BY <1>1, <1>2, <1>5 DEF Schedule, KeyboardType
<1>6. CASE UNCHANGED vars
  BY <1>1, <1>2, <1>6 DEF vars, KeyboardType
<1>7. QED
  BY <1>3, <1>4, <1>5, <1>6 DEF Next, KeyReleased

\* The invariant holds in every behaviour.
LEMMA KeyboardInvariance == Spec => []KeyboardInv
BY KeyboardInit, KeyboardNext, PTL DEF Spec

\* Whoever types and whoever reads, and however often the counters have wrapped,
\* a ring that was never overrun holds characters from its head to its tail and
\* nothing elsewhere: keyboard_push never overwrites a character unnoticed and
\* keyboard_pop never takes an empty slot for one.
THEOREM RingsIntact == Spec => []RingIntact
<1>1. KeyboardInv => RingIntact
  BY DEF KeyboardInv
<1>2. QED
  BY <1>1, KeyboardInvariance, PTL
------------------------------------------------------------------------------
(***************************************************************************)
(* The keyboard layer implements a queue for each process.                 *)
(***************************************************************************)

\* What the refinement maps pending to.
Mapped == [p \in Procs |-> IF p \in overrun THEN <<>> ELSE Pending(p)]

\* The slots that Pending reads are the ring in its order.
LEMMA PendingOf ==
  ASSUME NEW b \in Rings
  PROVE  [k \in 1 .. (b.tail - b.head) % CounterRange |-> b.buffer[(b.head + k - 1) % BufferSize]]
           = Waiting(b)
<1>1. b.head \in Int /\ CountOf(b) \in Nat
  BY Counters, KeyboardAssumption DEF Rings
<1>2. \A k \in 1 .. CountOf(b) : b.head + k - 1 = b.head + (k - 1)
  BY <1>1
<1>3. (b.tail - b.head) % CounterRange = CountOf(b)
  BY DEF CountOf, Rem
<1>4. Waiting(b) = [k \in 1 .. CountOf(b) |-> b.buffer[(b.head + (k - 1)) % BufferSize]]
  BY DEF Waiting, SlotOf, Rem
<1>5. QED
  BY <1>2, <1>3, <1>4, Zenon

\* The queue of a process is its ring, until that is overrun.
LEMMA MappedIs ==
  ASSUME KeyboardType
  PROVE  Mapped = [p \in Procs |-> IF p \in overrun THEN <<>> ELSE Waiting(keyboard[p])]
<1>1. \A p \in Procs : Pending(p) = Waiting(keyboard[p])
  BY PendingOf DEF KeyboardType, Pending, Count
<1>2. QED
  BY <1>1 DEF Mapped

\* The same for the state after a step.
LEMMA MappedNext ==
  ASSUME KeyboardType'
  PROVE  Mapped' = [p \in Procs |-> IF p \in overrun' THEN <<>> ELSE Waiting(keyboard'[p])]
<1>1. \A p \in Procs : Pending(p)' = Waiting(keyboard'[p])
  BY PendingOf DEF KeyboardType, Pending, Count
<1>2. QED
  BY <1>1 DEF Mapped

\* The empty rings are the empty queues.
LEMMA QueueInit == Init => Queue!Init
<1> SUFFICES ASSUME Init PROVE Queue!Init
  OBVIOUS
<1> DEFINE b == [buffer |-> [k \in 0 .. BufferSize - 1 |-> 0], head |-> 0, tail |-> 0]
<1>1. keyboard = [p \in Procs |-> b] /\ overrun = {}
  BY DEF Init
<1>2. KeyboardType
  BY KeyboardInit DEF KeyboardInv
<1>3. b \in Rings /\ CountOf(b) = 0
  <2>1. BufferSize \in Nat \ {0} /\ CounterRange \in Nat \ {0}
    BY KeyboardAssumption
  <2>2. b \in Rings
    BY <2>1 DEF Rings
  <2>3. QED
    BY <2>1, <2>2, Counters
<1>4. Waiting(b) = <<>>
  BY <1>3, WaitingLength
<1> HIDE DEF b
<1>5. Mapped = [p \in Procs |-> <<>>]
  BY <1>1, <1>2, <1>4, MappedIs
<1>6. QED
  BY <1>5 DEF Init, Queue!Init, Mapped

\* A pushed character is typed, or the step that overruns the ring.
LEMMA QueueType ==
  ASSUME KeyboardInv, KeyboardType', NEW c \in Chars,
         UNCHANGED <<key, focus, running>>,
         keyboard' = [keyboard EXCEPT ![focus] = Pushed(keyboard[focus], c)],
         overrun' = IF keyboard[focus].buffer[Rem(keyboard[focus].tail, BufferSize)] # 0
                      THEN overrun \cup {focus} ELSE overrun
  PROVE  Queue!Type(focus, c)
<1> DEFINE b == keyboard[focus]
           M == Mapped
           N == Mapped'
<1>1. KeyboardType /\ \A p \in Procs \ overrun : Intact(keyboard[p])
  BY EachRing DEF KeyboardInv
<1>2. keyboard \in [Procs -> Rings] /\ focus \in Procs /\ b \in Rings
  BY <1>1 DEF KeyboardType
<1>3. M = [p \in Procs |-> IF p \in overrun THEN <<>> ELSE Waiting(keyboard[p])]
  BY <1>1, MappedIs
<1>4. N = [p \in Procs |-> IF p \in overrun' THEN <<>> ELSE Waiting(keyboard'[p])]
  BY MappedNext
<1>5. keyboard'[focus] = Pushed(b, c) /\ \A p \in Procs \ {focus} : keyboard'[p] = keyboard[p]
  BY <1>2
<1>6. Queue!Type(focus, c) <=>
        /\ \/ /\ focus \notin overrun
              /\ Len(M[focus]) < BufferSize
              /\ N = [M EXCEPT ![focus] = Append(M[focus], c)]
              /\ overrun' = overrun
           \/ /\ focus \notin overrun
              /\ Len(M[focus]) = BufferSize
              /\ N = [M EXCEPT ![focus] = <<>>]
              /\ overrun' = overrun \cup {focus}
           \/ /\ focus \in overrun
              /\ N = M /\ overrun' = overrun
        /\ UNCHANGED <<key, focus, running>>
  BY DEF Queue!Type, Mapped
<1> HIDE DEF M, N
<1>7. CASE focus \in overrun
  <2>1. overrun' = overrun
    BY <1>7
  <2>2. N = M
    BY <1>3, <1>4, <1>5, <1>7, <2>1
  <2>3. QED
    BY <1>6, <1>7, <2>1, <2>2
<1>8. ASSUME focus \notin overrun
      PROVE  /\ Intact(b) /\ M[focus] = Waiting(b) /\ Len(M[focus]) = CountOf(b)
             /\ b.buffer[Rem(b.tail, BufferSize)] # 0 <=> CountOf(b) = BufferSize
  <2>1. Intact(b)
    BY <1>1, <1>2, <1>8
  <2>2. M[focus] = Waiting(b)
    BY <1>2, <1>3, <1>8
  <2>3. QED
    BY <1>2, <2>1, <2>2, WaitingLength, PushRing
<1>9. CASE focus \notin overrun /\ CountOf(b) = BufferSize
  <2>1. overrun' = overrun \cup {focus}
    BY <1>8, <1>9
  <2>2. N = [M EXCEPT ![focus] = <<>>]
    BY <1>2, <1>3, <1>4, <1>5, <2>1
  <2>3. QED
    BY <1>6, <1>8, <1>9, <2>1, <2>2
<1>10. CASE focus \notin overrun /\ CountOf(b) # BufferSize
  <2>1. overrun' = overrun
    BY <1>8, <1>10
  <2>2. Waiting(Pushed(b, c)) = Append(M[focus], c)
    BY <1>2, <1>8, <1>10, WaitingPush
  <2>3. N = [M EXCEPT ![focus] = Append(M[focus], c)]
    BY <1>2, <1>3, <1>4, <1>5, <1>10, <2>1, <2>2
  <2>4. Len(M[focus]) < BufferSize
    <3>1. CountOf(b) \in Int /\ BufferSize \in Int
      BY <1>2, Counters, KeyboardAssumption
    <3>2. CountOf(b) <= BufferSize
      BY <1>8, <1>10 DEF Intact
    <3>3. QED
      BY <1>8, <1>10, <3>1, <3>2
  <2>5. QED
    BY <1>6, <1>10, <2>1, <2>3, <2>4
<1>11. QED
  BY <1>7, <1>9, <1>10

\* A read takes the first character that waits, and gives 0 when none does.
LEMMA QueueRead ==
  ASSUME KeyboardInv, KeyboardType', isr80h_command2_getkey
  PROVE  Queue!Read(running)
<1> DEFINE b == keyboard[running]
           M == Mapped
           N == Mapped'
<1>1. KeyboardType /\ \A p \in Procs \ overrun : Intact(keyboard[p])
  BY EachRing DEF KeyboardInv
<1>2. keyboard \in [Procs -> Rings] /\ running \in Procs /\ b \in Rings
  BY <1>1 DEF KeyboardType
<1>3. M = [p \in Procs |-> IF p \in overrun THEN <<>> ELSE Waiting(keyboard[p])]
  BY <1>1, MappedIs
<1>4. N = [p \in Procs |-> IF p \in overrun' THEN <<>> ELSE Waiting(keyboard'[p])]
  BY MappedNext
<1>5. /\ UNCHANGED <<overrun, focus, running>>
      /\ key' = b.buffer[Rem(b.head, BufferSize)]
      /\ keyboard' = IF key' = 0 THEN keyboard ELSE [keyboard EXCEPT ![running] = Popped(b)]
  BY <1>1, GetkeyStep
<1>6. Queue!Read(running) <=>
        /\ \/ /\ running \notin overrun
              /\ M[running] # <<>>
              /\ key' = Head(M[running])
              /\ N = [M EXCEPT ![running] = Tail(M[running])]
           \/ /\ running \notin overrun
              /\ M[running] = <<>>
              /\ key' = 0
              /\ N = M
           \/ /\ running \in overrun
              /\ key' \in Chars \cup {0}
              /\ N = M
        /\ UNCHANGED <<overrun, focus, running>>
  BY DEF Queue!Read, Mapped
<1> HIDE DEF M, N
<1>7. CASE running \in overrun
  <2>1. N = M
    BY <1>2, <1>3, <1>4, <1>5, <1>7
  <2>2. key' \in Chars \cup {0}
    BY DEF KeyboardType
  <2>3. QED
    BY <1>5, <1>6, <1>7, <2>1, <2>2
<1>8. ASSUME running \notin overrun
      PROVE  /\ Intact(b) /\ M[running] = Waiting(b)
             /\ M[running] = <<>> <=> CountOf(b) = 0
             /\ key' # 0 <=> CountOf(b) > 0
             /\ CountOf(b) \in Nat
  <2>1. Intact(b)
    BY <1>1, <1>2, <1>8
  <2>2. M[running] = Waiting(b)
    BY <1>2, <1>3, <1>8
  <2>3. CountOf(b) \in Nat
    BY <1>2, Counters, KeyboardAssumption
  <2>4. QED
    BY <1>2, <1>5, <2>1, <2>2, <2>3, WaitingLength, PopRing
<1>9. CASE running \notin overrun /\ CountOf(b) = 0
  <2>1. key' = 0 /\ M[running] = <<>>
    BY <1>8, <1>9
  <2>2. N = M
    BY <1>3, <1>4, <1>5, <2>1
  <2>3. QED
    BY <1>5, <1>6, <1>9, <2>1, <2>2
<1>10. CASE running \notin overrun /\ CountOf(b) > 0
  <2>1. key' # 0 /\ M[running] # <<>>
    BY <1>8, <1>10
  <2>2. key' = Head(M[running]) /\ Tail(M[running]) = Waiting(Popped(b))
    BY <1>2, <1>5, <1>8, <1>10, WaitingPop
  <2>3. N = [M EXCEPT ![running] = Tail(M[running])]
    BY <1>2, <1>3, <1>4, <1>5, <1>10, <2>1, <2>2
  <2>4. QED
    BY <1>5, <1>6, <1>10, <2>1, <2>2, <2>3
<1>11. QED
  BY <1>7, <1>8, <1>9, <1>10

\* Every step is a step of the queues, or changes nothing of them.
LEMMA QueueNext == KeyboardInv /\ KeyboardInv' /\ [Next]_vars => [Queue!Next]_(Queue!vars)
<1> SUFFICES ASSUME KeyboardInv, KeyboardInv', [Next]_vars
             PROVE  [Queue!Next]_(Queue!vars)
  OBVIOUS
<1>1. KeyboardType /\ KeyboardType'
  BY DEF KeyboardInv
<1>2. ASSUME UNCHANGED <<keyboard, key, overrun, focus, running>>
      PROVE  UNCHANGED Queue!vars
  BY <1>2 DEF Queue!vars, Pending, Count
<1>3. ASSUME NEW s \in Scancodes, classic_keyboard_handle_interrupt(s)
      PROVE  [Queue!Next]_(Queue!vars)
  <2>1. /\ UNCHANGED <<key, focus, running>>
        /\ \/ UNCHANGED <<keyboard, overrun>>
           \/ \E c \in Chars :
                /\ keyboard' = [keyboard EXCEPT ![focus] = Pushed(keyboard[focus], c)]
                /\ overrun' = IF keyboard[focus].buffer[Rem(keyboard[focus].tail, BufferSize)] # 0
                                THEN overrun \cup {focus} ELSE overrun
    BY <1>1, <1>3, InterruptStep
  <2>2. CASE UNCHANGED <<keyboard, overrun>>
    BY <1>2, <2>1, <2>2
  <2>3. ASSUME NEW c \in Chars,
               keyboard' = [keyboard EXCEPT ![focus] = Pushed(keyboard[focus], c)],
               overrun' = IF keyboard[focus].buffer[Rem(keyboard[focus].tail, BufferSize)] # 0
                            THEN overrun \cup {focus} ELSE overrun
        PROVE  [Queue!Next]_(Queue!vars)
    <3>1. Queue!Type(focus, c)
      BY <1>1, <2>1, <2>3, QueueType
    <3>2. QED
      BY <3>1 DEF Queue!Next
  <2>4. QED
    BY <2>1, <2>2, <2>3
<1>4. CASE isr80h_command2_getkey
  <2>1. Queue!Read(running)
    BY <1>1, <1>4, QueueRead
  <2>2. QED
    BY <2>1 DEF Queue!Next
<1>5. CASE Schedule
  <2>1. Queue!Schedule
    BY <1>5 DEF Schedule, Queue!Schedule, Pending, Count
  <2>2. QED
    BY <2>1 DEF Queue!Next
<1>6. CASE UNCHANGED vars
  BY <1>2, <1>6 DEF vars
<1>7. QED
  BY <1>3, <1>4, <1>5, <1>6 DEF Next, KeyReleased

\* The rings implement one queue for each process: the characters typed while a
\* process has the keyboard are read by it in the order they were typed, each
\* once, and it reads 0 only when none is left, until its ring is overrun.
THEOREM ImplementsKeyQueue == Spec => RefinesKeyQueue
BY QueueInit, QueueNext, KeyboardInvariance, PTL DEF Spec, RefinesKeyQueue, Queue!Spec
==============================================================================
