---------------------------- MODULE StorageProofs ----------------------------
(***************************************************************************)
(* What is proved about what keeps bytes.  The first part: XGProtocol*     *)
(* takes out of the ring buffer exactly the frames that were sent, whole   *)
(* and in order, for every size of the buffer and of the machine word that *)
(* its index operations allow, and every way recv() cuts the stream.  The  *)
(* second: config.ini holds what the gateway told, for every sequence of   *)
(* changes and power failures and every number of starts.  The third: the  *)
(* three flash drivers keep what they were told, for every size of a chip  *)
(* and of its pages and blocks, every request and every reset or loss of   *)
(* power.                                                                  *)
(***************************************************************************)
EXTENDS MCStorage, SequenceTheorems, WellFoundedInduction, TLAPS

N == BQ_BUFFER_SIZE
M == IndexMod

\* The slot k places behind slot b.
At(b, k) == IF b + k < N THEN b + k ELSE b + k - N

\* The bytes in the queue, in the order in which they came.
Contents(r) == [i \in 1..XGByteQueueSize(r) |-> r.Buffer[At(Mask(r.StartIndex), i - 1)]]

-----------------------------------------------------------------------------
(* The indices *)

\* Division with a remainder is unique.
LEMMA Remainder ==
  ASSUME NEW n \in Nat \ {0}, NEW k \in Int, NEW r \in 0..(n - 1), NEW a \in Int, a = k * n + r
  PROVE  a % n = r
  OBVIOUS

LEMMA Quotient ==
  ASSUME NEW n \in Nat \ {0}, NEW a \in Int
  PROVE  /\ a % n \in 0..(n - 1)
         /\ \E k \in Int : a = k * n + (a % n)
  <1>1. a % n \in 0..(n - 1) /\ a \div n \in Int OBVIOUS
  <1>2. a = (a \div n) * n + (a % n) OBVIOUS
  <1> QED BY <1>1, <1>2

LEMMA SmallerIs ==
  ASSUME NEW m \in Int, NEW n \in Int
  PROVE  (m <= n => Smaller(m, n) = m) /\ (n <= m => Smaller(m, n) = n)
  BY DEF Smaller

\* The word is a multiple of the buffer.
LEMMA WordOfBuffers ==
  /\ N \in Nat \ {0} /\ M \in Nat \ {0} /\ M > N
  /\ \E k \in Int : M = k * N
  <1>1. N \in Nat \ {0} /\ M \in Nat \ {0} /\ M > N
    <2>1. N \in Nat \ {0} /\ M \in Nat /\ M > N BY ByteQueueAssumption DEF M, N
    <2> QED BY <2>1
  <1> DEFINE k == M \div N
  <1>2. k \in Int /\ M = k * N + (M % N) BY <1>1
  <1>3. M % N = 0 BY ByteQueueAssumption DEF M, N
  <1> HIDE DEF k
  <1>4. k * N \in Int BY <1>1, <1>2
  <1>5. M = k * N BY <1>2, <1>3, <1>4
  <1> QED BY <1>1, <1>2, <1>5

LEMMA MaskWord ==
  ASSUME NEW a \in Int
  PROVE  a % M \in 0..(M - 1) /\ Mask(a % M) = Mask(a) /\ Mask(a) \in Slot
  <1>1. N \in Nat \ {0} /\ M \in Nat \ {0} BY WordOfBuffers
  <1>2. PICK j \in Int : M = j * N BY WordOfBuffers
  <1>3. PICK k \in Int : a = k * M + (a % M) BY <1>1, Quotient
  <1> DEFINE c == a % M
  <1>4. c \in 0..(M - 1) BY <1>1, Quotient
  <1> HIDE DEF c
  <1>5. c \in Int BY <1>1, <1>4
  <1>6. PICK l \in Int : c = l * N + (c % N) BY <1>1, <1>5, Quotient
  <1> DEFINE r == c % N
  <1>7. r \in 0..(N - 1) BY <1>1, <1>5, Quotient
  <1> HIDE DEF r
  <1>8. a = k * (j * N) + (l * N + r) BY <1>2, <1>3, <1>6 DEF c, r
  <1>9. k * (j * N) + (l * N + r) = (k * j + l) * N + r BY <1>1, <1>7
  <1>10. k * j + l \in Int OBVIOUS
  <1> DEFINE m == k * j + l
  <1> HIDE DEF m
  <1>11. a = m * N + r /\ m \in Int BY <1>8, <1>9, <1>10 DEF m
  <1>12. a % N = r BY <1>1, <1>7, <1>11, Remainder
  <1> QED BY <1>4, <1>7, <1>12 DEF c, r, Mask, N, Slot

\* The slot of an index that is k places on.
LEMMA MaskOn ==
  ASSUME NEW x \in 0..(M - 1), NEW k \in 0..N
  PROVE  /\ (x + k) % M \in 0..(M - 1)
         /\ Mask(x) \in Slot /\ Mask((x + k) % M) = At(Mask(x), k)
  <1>1. N \in Nat \ {0} /\ M \in Nat \ {0} BY WordOfBuffers
  <1>2. x \in Int /\ x + k \in Int BY <1>1
  <1>3. PICK j \in Int : x = j * N + (x % N) BY <1>1, <1>2, Quotient
  <1> DEFINE b == x % N
  <1>4. b \in 0..(N - 1) BY <1>1, <1>2, Quotient
  <1> HIDE DEF b
  <1>5. x = j * N + b BY <1>3 DEF b
  <1>6. (x + k) % N = At(b, k)
    <2>1. CASE b + k < N
      <3>1. x + k = j * N + (b + k) /\ b + k \in 0..(N - 1) BY <1>1, <1>4, <1>5, <2>1
      <3> DEFINE r == b + k
      <3> HIDE DEF r
      <3>2. x + k = j * N + r /\ r \in 0..(N - 1) BY <3>1 DEF r
      <3>3. (x + k) % N = r BY ZenonT(60), <1>1, <1>2, <3>2, Remainder
      <3> QED BY <2>1, <3>3 DEF At, r
    <2>2. CASE ~(b + k < N)
      <3> DEFINE i == j + 1
                 r == b + k - N
      <3>1. i \in Int /\ r \in 0..(N - 1) BY <1>1, <1>4, <2>2
      <3>2. i * N = j * N + N BY <1>1
      <3>3. x + k = i * N + r BY <1>1, <1>4, <1>5, <3>2
      <3> HIDE DEF i, r
      <3>4. (x + k) % N = r
        <4> DEFINE y == x + k
        <4>1. y = i * N + r /\ y \in Int BY <1>2, <3>3
        <4> HIDE DEF y
        <4>2. y % N = r BY <1>1, <3>1, <4>1, Remainder
        <4> QED BY <4>2 DEF y
      <3> QED BY <2>2, <3>4 DEF At, r
    <2> QED BY <2>1, <2>2
  <1>7. Mask(x) = b /\ Mask(x + k) = (x + k) % N BY DEF Mask, N, b
  <1>8. (x + k) % M \in 0..(M - 1) /\ Mask((x + k) % M) = Mask(x + k) BY <1>2, MaskWord
  <1> QED BY <1>4, <1>6, <1>7, <1>8 DEF Slot, N

\* A difference of indices.
LEMMA MinusIs ==
  ASSUME NEW x \in 0..(M - 1), NEW y \in 0..(M - 1)
  PROVE  Minus(x, y) = IF y <= x THEN x - y ELSE x - y + M
  <1>1. M \in Nat \ {0} BY WordOfBuffers
  <1>2. CASE y <= x
    <2>1. x - y = 0 * M + (x - y) /\ x - y \in 0..(M - 1) /\ x - y \in Int BY <1>1, <1>2
    <2> QED BY <1>1, <1>2, <2>1, Remainder DEF Minus, M
  <1>3. CASE ~(y <= x)
    <2> DEFINE r == x - y + M
               k == -1
    <2>1. r \in 0..(M - 1) /\ k \in Int /\ x - y \in Int BY <1>1, <1>3
    <2>2. x - y = k * M + r BY <1>1
    <2> HIDE DEF r, k
    <2>3. (x - y) % M = r BY <1>1, <2>1, <2>2, Remainder
    <2> QED BY <1>3, <2>3 DEF Minus, M, r
  <1> QED BY <1>2, <1>3

\* An index that moves on, as long as it stays within one word.
LEMMA IndexOn ==
  ASSUME NEW x \in 0..(M - 1), NEW k \in 0..(M - 1)
  PROVE  (x + k) % M = IF x + k < M THEN x + k ELSE x + k - M
  <1>1. M \in Nat \ {0} BY WordOfBuffers
  <1>2. CASE x + k < M
    <2>1. x + k = 0 * M + (x + k) /\ x + k \in 0..(M - 1) BY <1>1, <1>2
    <2> QED BY <1>1, <1>2, <2>1, Remainder
  <1>3. CASE ~(x + k < M)
    <2>1. x + k = 1 * M + (x + k - M) /\ x + k - M \in 0..(M - 1) /\ x + k \in Int BY <1>1, <1>3
    <2> QED BY <1>1, <1>3, <2>1, Remainder
  <1> QED BY <1>2, <1>3

-----------------------------------------------------------------------------
(* The queue *)

Ring(r) == r \in ByteQueue(Byte) /\ XGByteQueueSize(r) <= N

\* Where a queue lies in Buffer.
LEMMA Lies ==
  ASSUME NEW r, Ring(r)
  PROVE  /\ r.Buffer \in [Slot -> Byte] /\ r.StartIndex \in 0..(M - 1) /\ r.EndIndex \in 0..(M - 1)
         /\ XGByteQueueSize(r) \in 0..N
         /\ Mask(r.StartIndex) \in Slot /\ Mask(r.EndIndex) = At(Mask(r.StartIndex), XGByteQueueSize(r))
         /\ XGByteQueueSize(r) = IF r.StartIndex <= r.EndIndex THEN r.EndIndex - r.StartIndex ELSE r.EndIndex - r.StartIndex + M
  <1> DEFINE x == r.StartIndex
             y == r.EndIndex
             n == XGByteQueueSize(r)
  <1>1. N \in Nat \ {0} /\ M \in Nat \ {0} /\ M > N BY WordOfBuffers
  <1>2. r.Buffer \in [Slot -> Byte] /\ x \in 0..(M - 1) /\ y \in 0..(M - 1) BY DEF Ring, ByteQueue, M
  <1> HIDE DEF x, y
  <1>3. n = (IF x <= y THEN y - x ELSE y - x + M) BY <1>2, MinusIs DEF XGByteQueueSize, x, y
  <1>4. n <= N BY DEF Ring
  <1> HIDE DEF n
  <1>5. n \in 0..N /\ n \in 0..(M - 1) BY <1>1, <1>2, <1>3, <1>4
  <1>6. (x + n) % M = y
    <2>1. (x + n) % M = IF x + n < M THEN x + n ELSE x + n - M BY <1>2, <1>5, IndexOn
    <2> QED BY <1>1, <1>2, <1>3, <2>1
  <1>7. Mask(x) \in Slot /\ Mask((x + n) % M) = At(Mask(x), n) BY <1>2, <1>5, MaskOn
  <1> QED BY <1>2, <1>3, <1>5, <1>6, <1>7 DEF x, y, n

LEMMA ContentsIsSeq ==
  ASSUME NEW r, Ring(r)
  PROVE  /\ Contents(r) \in Seq(Byte) /\ Len(Contents(r)) = XGByteQueueSize(r)
         /\ \A i \in 1..XGByteQueueSize(r) : Contents(r)[i] = r.Buffer[At(Mask(r.StartIndex), i - 1)]
  <1> DEFINE n == XGByteQueueSize(r)
             b == Mask(r.StartIndex)
             c == [i \in 1..n |-> r.Buffer[At(b, i - 1)]]
  <1>1. n \in 0..N /\ b \in Slot /\ r.Buffer \in [Slot -> Byte] /\ N \in Nat BY Lies, WordOfBuffers
  <1>2. Contents(r) = c BY DEF Contents
  <1> HIDE DEF n, b
  <1>3. ASSUME NEW i \in 1..n PROVE c[i] \in Byte
    <2>1. At(b, i - 1) \in Slot BY <1>1 DEF At, Slot, N
    <2> QED BY <1>1, <2>1
  <1>4. c \in Seq(Byte) /\ Len(c) = n BY <1>1, <1>3
  <1> QED BY <1>2, <1>4 DEF n, b

LEMMA SlotIs ==
  ASSUME NEW i
  PROVE  i \in Slot <=> i \in Int /\ 0 <= i /\ i < N
  BY WordOfBuffers DEF Slot, N

\* Data copied behind the n bytes of a queue that starts at b, in two pieces if it comes to that.
LEMMA CopyIn ==
  ASSUME NEW B \in [Slot -> Byte], NEW b \in Slot, NEW n \in 0..N, NEW e, e = At(b, n),
         NEW data \in Seq(Byte), n + Len(data) <= N, NEW temp, temp = Smaller(Len(data), N - e),
         NEW B2, B2 = MemCpy(MemCpy(B, e, SubSeq(data, 1, temp)), 0, SubSeq(data, temp + 1, Len(data)))
  PROVE  /\ B2 \in [Slot -> Byte]
         /\ \A i \in 1..n : B2[At(b, i - 1)] = B[At(b, i - 1)]
         /\ \A k \in 1..Len(data) : B2[At(b, (n + k) - 1)] = data[k]
  <1> DEFINE l == Len(data)
             d1 == SubSeq(data, 1, temp)
             d2 == SubSeq(data, temp + 1, l)
             B1 == MemCpy(B, e, d1)
  <1>1. N \in Int /\ N > 0 /\ b \in Int /\ 0 <= b /\ b < N /\ n \in Int /\ 0 <= n /\ n <= N BY WordOfBuffers, SlotIs
  <1>2. l \in Int /\ l >= 0 /\ n + l <= N /\ e \in Int /\ 0 <= e /\ e < N
        /\ e = IF b + n < N THEN b + n ELSE b + n - N
    BY <1>1 DEF At
  <1>9. l = Len(data) OBVIOUS
  <1> HIDE DEF l
  <1>3. temp \in Int /\ 0 <= temp /\ temp <= l /\ (temp = l \/ temp = N - e) /\ temp <= N - e
    <2>1. temp = Smaller(l, N - e) BY <1>9
    <2>2. N - e \in Int BY <1>1, <1>2
    <2>3. (l <= N - e => temp = l) /\ (N - e <= l => temp = N - e) BY <1>2, <2>1, <2>2, SmallerIs
    <2> QED BY <1>1, <1>2, <2>3
  <1>4. Len(d1) = temp /\ Len(d2) = l - temp /\ (\A j \in 1..temp : d1[j] = data[j])
        /\ (\A j \in 1..(l - temp) : d2[j] = data[temp + j]) /\ (\A j \in 1..l : data[j] \in Byte)
    <2>1. \A j \in 1..l : data[j] \in Byte BY <1>9, ElementOfSeq
    <2>2. Len(d1) = temp /\ \A j \in 1..temp : d1[j] = data[j]
      <3>1. 1 \in Int /\ temp \in Int /\ temp - 1 + 1 = temp /\ \A i \in 1..temp : i \in 1..l /\ 1 + i - 1 = i BY <1>2, <1>3
      <3>2. \A i \in 1..temp : data[i] \in Byte BY <2>1, <3>1
      <3> HIDE DEF d1, d2
      <3>3. /\ Len(SubSeq(data, 1, temp)) = (IF 1 <= temp THEN temp - 1 + 1 ELSE 0)
            /\ \A i \in 1..(temp - 1 + 1) : SubSeq(data, 1, temp)[i] = data[1 + i - 1] BY <3>1, <3>2, SubSeqProperties
      <3>4. ~(1 <= temp) => temp = 0 BY <1>3
      <3> QED BY <3>1, <3>3, <3>4 DEF d1
    <2>3. Len(d2) = l - temp /\ \A j \in 1..(l - temp) : d2[j] = data[temp + j]
      <3> DEFINE a == temp + 1
      <3>0. a \in Int /\ l \in Int /\ temp \in Int /\ temp <= l /\ a = temp + 1 /\ 1 <= a BY <1>2, <1>3
      <3> HIDE DEF a, d1, d2
      <3>1. /\ l - a + 1 = l - temp /\ (\A i \in a..l : i \in 1..l)
            /\ (\A i \in 1..(l - temp) : a + i - 1 = temp + i) /\ (~(a <= l) => l - temp = 0) BY ONLY <3>0
      <3>2. \A i \in a..l : data[i] \in Byte BY <2>1, <3>1
      <3>3. /\ Len(SubSeq(data, a, l)) = (IF a <= l THEN l - a + 1 ELSE 0)
            /\ \A i \in 1..(l - a + 1) : SubSeq(data, a, l)[i] = data[a + i - 1] BY ONLY <3>0, <3>2, SubSeqProperties
      <3>4. d2 = SubSeq(data, a, l) BY DEF a, d2
      <3>5. Len(d2) = l - temp BY <3>0, <3>1, <3>3, <3>4
      <3>6. ASSUME NEW j \in 1..(l - temp) PROVE d2[j] = data[temp + j]
        <4>1. j \in 1..(l - a + 1) /\ a + j - 1 = temp + j BY <3>1
        <4> QED BY <3>3, <3>4, <4>1
      <3> QED BY <3>5, <3>6
    <2> QED BY <2>1, <2>2, <2>3
  <1> HIDE DEF d1, d2
  <1>5. ASSUME NEW i \in Slot
        PROVE  B2[i] = (IF i < l - temp THEN data[temp + i + 1]
                        ELSE IF i >= e /\ i < e + temp THEN data[i - e + 1] ELSE B[i])
    <2>0. i \in Int /\ 0 <= i /\ i < N BY SlotIs
    <2>1. B1[i] = (IF i >= e /\ i < e + temp THEN d1[i - e + 1] ELSE B[i])
      <3>1. B1[i] = IF i \in e..(e + temp - 1) THEN d1[i - e + 1] ELSE B[i] BY <1>4 DEF MemCpy
      <3>2. i \in e..(e + temp - 1) <=> i >= e /\ i < e + temp BY <1>2, <1>3, <2>0
      <3> QED BY <3>1, <3>2
    <2>2. i >= e /\ i < e + temp => d1[i - e + 1] = data[i - e + 1]
      <3> SUFFICES ASSUME i >= e, i < e + temp PROVE d1[i - e + 1] = data[i - e + 1] OBVIOUS
      <3>1. i - e + 1 \in 1..temp BY <1>2, <1>3, <2>0
      <3> QED BY <1>4, <3>1
    <2> HIDE DEF B1
    <2>3. B2[i] = IF i \in 0..(0 + (l - temp) - 1) THEN d2[i - 0 + 1] ELSE B1[i] BY <1>4 DEF MemCpy, B1, d1, d2, l
    <2>4. (i \in 0..(0 + (l - temp) - 1) <=> i < l - temp) /\ i - 0 + 1 = i + 1 BY <1>2, <1>3, <2>0
    <2>5. i < l - temp => d2[i + 1] = data[temp + i + 1]
      <3> SUFFICES ASSUME i < l - temp PROVE d2[i + 1] = data[temp + i + 1] OBVIOUS
      <3>1. i + 1 \in 1..(l - temp) /\ temp + (i + 1) = temp + i + 1 BY <1>2, <1>3, <2>0
      <3> QED BY <1>4, <3>1
    <2> QED BY <2>1, <2>2, <2>3, <2>4, <2>5
  <1>6. B2 \in [Slot -> Byte]
    <2>1. \A i \in Slot : B2[i] \in Byte
      <3> SUFFICES ASSUME NEW i \in Slot PROVE B2[i] \in Byte OBVIOUS
      <3>0. i \in Int /\ 0 <= i /\ i < N BY SlotIs
      <3>1. CASE i < l - temp
        <4>1. temp + i + 1 \in 1..l BY <1>2, <1>3, <3>0, <3>1
        <4>2. data[temp + i + 1] \in Byte BY <1>4, <4>1
        <4>3. B2[i] = data[temp + i + 1] BY <1>5, <3>1
        <4> QED BY <4>2, <4>3
      <3>2. CASE ~(i < l - temp) /\ i >= e /\ i < e + temp
        <4>1. i - e + 1 \in 1..l
          <5>1. e \in Int /\ i \in Int /\ e <= i /\ i < e + temp /\ temp <= l /\ temp \in Int /\ l \in Int BY <1>2, <1>3, <3>0, <3>2
          <5> QED BY ONLY <5>1
        <4>2. data[i - e + 1] \in Byte BY <1>4, <4>1
        <4>3. B2[i] = data[i - e + 1] BY <1>5, <3>2
        <4> QED BY <4>2, <4>3
      <3>3. CASE ~(i < l - temp) /\ ~(i >= e /\ i < e + temp) BY <1>5, <3>3
      <3> QED BY <3>1, <3>2, <3>3
    <2> QED BY <2>1 DEF MemCpy
  <1>7. ASSUME NEW i \in 1..n PROVE B2[At(b, i - 1)] = B[At(b, i - 1)]
    <2> DEFINE a == At(b, i - 1)
    <2>1. a = IF b + (i - 1) < N THEN b + (i - 1) ELSE b + (i - 1) - N BY DEF At
    <2> HIDE DEF a
    <2>3. a \in Int /\ 0 <= a /\ a < N /\ ~(a < l - temp) /\ ~(a >= e /\ a < e + temp) BY <1>1, <1>2, <1>3, <2>1
    <2>4. a \in Slot BY <2>3, SlotIs
    <2>2. B2[a] = B[a] BY <1>5, <2>3, <2>4
    <2> QED BY <2>2 DEF a
  <1>8. ASSUME NEW k \in 1..l PROVE B2[At(b, (n + k) - 1)] = data[k]
    <2> DEFINE a == At(b, (n + k) - 1)
    <2>4. k \in Int /\ 1 <= k /\ k <= l BY <1>2
    <2> DEFINE ek == e + k - 1
    <2>1. a = (IF ek < N THEN ek ELSE ek - N)
      <3>1. a = IF b + ((n + k) - 1) < N THEN b + ((n + k) - 1) ELSE b + ((n + k) - 1) - N BY DEF At
      <3> HIDE DEF a
      <3>2. CASE b + n < N
        <4>1. e = b + n BY <1>2, <3>2
        <4> QED BY <1>1, <2>4, <3>1, <4>1
      <3>3. CASE ~(b + n < N)
        <4>1. e = b + n - N BY <1>2, <3>3
        <4>2. ~(b + ((n + k) - 1) < N) /\ ek < N BY <1>1, <1>2, <2>4, <3>3, <4>1
        <4>3. b + ((n + k) - 1) - N = ek BY <1>1, <2>4, <4>1
        <4> QED BY <3>1, <4>2, <4>3
      <3> QED BY <3>2, <3>3
    <2> HIDE DEF a
    <2>2. CASE k <= temp
      <3>1. a \in Int /\ 0 <= a /\ a < N /\ ~(a < l - temp) /\ a >= e /\ a < e + temp /\ a - e + 1 = k
        <4>1. ek < N /\ ek \in Int BY <1>1, <1>2, <1>3, <2>2, <2>4
        <4>2. a = e + k - 1 BY <2>1, <4>1
        <4>3. a < N /\ a \in Int BY <2>1, <4>1
        <4>4. e + k - 1 >= e /\ 0 <= e + k - 1 /\ e + k - 1 < e + temp /\ (e + k - 1) - e + 1 = k BY <1>2, <1>3, <2>2, <2>4
        <4>5. ~(e + k - 1 < l - temp) BY <1>1, <1>2, <1>3, <2>4
        <4> QED BY <4>2, <4>3, <4>4, <4>5
      <3>4. a \in Slot BY <3>1, SlotIs
      <3>2. B2[a] = data[k] BY <1>5, <3>1, <3>4
      <3> QED BY <3>2 DEF a
    <2>3. CASE ~(k <= temp)
      <3>1. temp = N - e BY <1>2, <1>3, <2>3
      <3>2. a \in Int /\ 0 <= a /\ a < N /\ a < l - temp /\ temp + a + 1 = k
        <4>1. ~(ek < N) /\ ek \in Int BY <1>1, <1>2, <1>3, <2>3, <2>4, <3>1
        <4>2. a = ek - N BY <2>1, <4>1
        <4>3. a = k - temp - 1
          <5>1. N \in Int /\ e \in Int /\ k \in Int /\ temp = N - e /\ a = (e + k - 1) - N BY <1>1, <1>2, <2>4, <3>1, <4>2
          <5> QED BY ONLY <5>1
        <4>4. N - e = temp /\ n + l <= N /\ l - temp <= N BY <1>1, <1>2, <1>3, <3>1
        <4>5. temp \in Int /\ l \in Int /\ 0 <= temp /\ ~(k <= temp) /\ k \in Int /\ k <= l BY <1>2, <1>3, <2>3, <2>4
        <4>6. N \in Int /\ n \in Int /\ 0 <= n BY <1>1
        <4> QED BY ONLY <4>3, <4>4, <4>5, <4>6
      <3>4. a \in Slot BY <3>2, SlotIs
      <3>3. B2[a] = data[k] BY <1>5, <3>2, <3>4
      <3> QED BY <3>3 DEF a
    <2> QED BY <2>2, <2>3
  <1> QED BY <1>6, <1>7, <1>8 DEF l

\* What is pushed, if there is room for it, comes behind what was there.
LEMMA PushAppends ==
  ASSUME NEW r, Ring(r), NEW data \in Seq(Byte), XGByteQueueSize(r) + Len(data) <= N
  PROVE  /\ Ring(XGByteQueuePush(r, data))
         /\ Contents(XGByteQueuePush(r, data)) = Contents(r) \o data
  <1> DEFINE n == XGByteQueueSize(r)
             x == r.StartIndex
             y == r.EndIndex
             l == Len(data)
             b == Mask(x)
             e == Mask(y)
             room == Minus(BQ_BUFFER_SIZE + x, y)
             temp == Smaller(l, N - e)
             B2 == MemCpy(MemCpy(r.Buffer, e, SubSeq(data, 1, temp)), 0, SubSeq(data, temp + 1, l))
             y2 == (y + l) % M
             r2 == XGByteQueuePush(r, data)
  <1>1. N \in Nat \ {0} /\ M \in Nat \ {0} /\ M > N BY WordOfBuffers
  <1>2. /\ r.Buffer \in [Slot -> Byte] /\ x \in 0..(M - 1) /\ y \in 0..(M - 1) /\ n \in 0..N /\ b \in Slot /\ e = At(b, n)
        /\ n = IF x <= y THEN y - x ELSE y - x + M
    BY Lies
  <1>3. l \in Nat /\ n + l <= N OBVIOUS
  <1>4. room = N - n
    <2> DEFINE d == (N + x) - y
               w == N - n
               k == IF x <= y THEN 0 ELSE 1
    <2> HIDE DEF n, x, y
    <2>1. w \in 0..(M - 1) /\ d \in Int /\ k \in Int BY <1>1, <1>2
    <2>2. d = k * M + w BY <1>1, <1>2
    <2> HIDE DEF d, w, k
    <2>3. d % M = w BY <1>1, <2>1, <2>2, Remainder
    <2>4. room = d % M BY DEF Minus, N, M, d, x, y
    <2> QED BY <2>3, <2>4 DEF w
  <1>13. n \in Int /\ 0 <= n /\ n <= N /\ l \in Int /\ 0 <= l /\ N \in Int BY <1>1, <1>2, <1>3
  <1>5. Smaller(l, room) = l
    <2> HIDE DEF room, n, l
    <2>1. room \in Int /\ l <= room BY <1>3, <1>4, <1>13
    <2> QED BY <1>13, <2>1, SmallerIs
  <1>6. r2 = [r EXCEPT !.Buffer = B2, !.EndIndex = y2] BY <1>5 DEF XGByteQueuePush, N, M
  <1>7. B2 \in [Slot -> Byte] /\ (\A i \in 1..n : B2[At(b, i - 1)] = r.Buffer[At(b, i - 1)])
        /\ \A k \in 1..l : B2[At(b, (n + k) - 1)] = data[k]
    <2> DEFINE B == r.Buffer
    <2>1. B2 = MemCpy(MemCpy(B, e, SubSeq(data, 1, temp)), 0, SubSeq(data, temp + 1, Len(data))) /\ temp = Smaller(Len(data), N - e)
      OBVIOUS
    <2>2. B \in [Slot -> Byte] /\ b \in Slot /\ n \in 0..N /\ e = At(b, n) /\ n + Len(data) <= N BY <1>2, <1>3
    <2> HIDE DEF B2, temp, e, b, n, B, l
    <2>3. /\ B2 \in [Slot -> Byte]
          /\ \A i \in 1..n : B2[At(b, i - 1)] = B[At(b, i - 1)]
          /\ \A k \in 1..Len(data) : B2[At(b, (n + k) - 1)] = data[k]
      BY <2>1, <2>2, CopyIn
    <2> QED BY <2>3 DEF B, l
  <1> HIDE DEF B2, temp, room
  <1>8. y2 \in 0..(M - 1) /\ y2 = IF y + l < M THEN y + l ELSE y + l - M
    <2>1. l \in 0..(M - 1) BY <1>1, <1>2, <1>3
    <2> HIDE DEF l, y
    <2>2. (y + l) % M = IF y + l < M THEN y + l ELSE y + l - M BY <1>2, <2>1, IndexOn
    <2> QED BY <1>1, <1>2, <2>1, <2>2
  <1> HIDE DEF y2
  <1>9. r2 \in ByteQueue(Byte) /\ r2.StartIndex = x /\ r2.EndIndex = y2 /\ r2.Buffer = B2
    <2>1. r \in ByteQueue(Byte) BY DEF Ring
    <2>2. y2 \in 0..(IndexMod - 1) BY <1>8 DEF M
    <2> QED BY <1>6, <1>7, <2>1, <2>2 DEF ByteQueue
  <1> HIDE DEF r2
  <1>10. XGByteQueueSize(r2) = n + l
    <2>1. Minus(y2, x) = IF x <= y2 THEN y2 - x ELSE y2 - x + M BY <1>2, <1>8, MinusIs
    <2>3. x \in Int /\ 0 <= x /\ x < M /\ y \in Int /\ 0 <= y /\ y < M /\ M \in Int /\ M > N /\ n = IF x <= y THEN y - x ELSE y - x + M
      BY <1>1, <1>2
    <2> HIDE DEF n, x, y, l
    <2>2. Minus(y2, x) = n + l BY <1>3, <1>8, <1>13, <2>1, <2>3
    <2> QED BY <1>9, <2>2 DEF XGByteQueueSize
  <1>11. Ring(r2) BY <1>3, <1>9, <1>10 DEF Ring
  <1>12. Contents(r2) = Contents(r) \o data
    <2> DEFINE c == Contents(r)
               c2 == Contents(r2)
    <2>1. c \in Seq(Byte) /\ Len(c) = n /\ \A i \in 1..n : c[i] = r.Buffer[At(b, i - 1)] BY ContentsIsSeq
    <2>2. c2 \in Seq(Byte) /\ Len(c2) = n + l /\ \A i \in 1..(n + l) : c2[i] = B2[At(b, i - 1)]
      BY <1>9, <1>10, <1>11, ContentsIsSeq
    <2> HIDE DEF c, c2, n, b
    <2>3. ASSUME NEW i \in 1..(n + l) PROVE c2[i] = IF i <= n THEN c[i] ELSE data[i - n]
      <3>1. CASE i <= n
        <4>1. i \in 1..n BY <1>13, <3>1
        <4> QED BY <1>7, <2>1, <2>2, <3>1, <4>1
      <3>2. CASE ~(i <= n)
        <4> DEFINE k == i - n
        <4>1. k \in 1..l /\ n + k = i BY <1>13, <3>2
        <4> HIDE DEF k
        <4>2. B2[At(b, (n + k) - 1)] = data[k] BY <1>7, <4>1
        <4> QED BY <2>2, <3>2, <4>1, <4>2 DEF k
      <3> QED BY <3>1, <3>2
    <2> DEFINE t == c \o data
    <2>4. t \in Seq(Byte) /\ Len(t) = n + l /\ \A i \in 1..(n + l) : t[i] = IF i <= n THEN c[i] ELSE data[i - n]
      BY <2>1, ConcatProperties
    <2> HIDE DEF t
    <2>7. c2 = t BY <2>2, <2>3, <2>4, SeqEqual
    <2> QED BY <2>7 DEF c, c2, t
  <1> QED BY <1>11, <1>12 DEF r2

\* A place k behind a slot, and then j behind that.
LEMMA AtAt ==
  ASSUME NEW b \in Slot, NEW k \in Int, NEW j \in Int, 0 <= k, 0 <= j, k + j < N
  PROVE  At(b, k) \in Slot /\ At(At(b, k), j) = At(b, k + j) /\ At(b, k + j) \in Slot
  <1>1. N \in Int /\ b \in Int /\ 0 <= b /\ b < N BY WordOfBuffers, SlotIs
  <1> DEFINE a == At(b, k)
             c == At(b, k + j)
  <1>2. a = IF b + k < N THEN b + k ELSE b + k - N BY DEF At
  <1>3. c = IF b + (k + j) < N THEN b + (k + j) ELSE b + (k + j) - N BY DEF At
  <1> HIDE DEF a, c
  <1>4. a \in Int /\ 0 <= a /\ a < N /\ c \in Int /\ 0 <= c /\ c < N BY <1>1, <1>2, <1>3
  <1>5. At(a, j) = IF a + j < N THEN a + j ELSE a + j - N BY DEF At
  <1>6. At(a, j) = c BY <1>1, <1>2, <1>3, <1>4, <1>5
  <1> QED BY <1>4, <1>6, SlotIs DEF a, c

\* Peering gives the first bytes.
LEMMA PeerIs ==
  ASSUME NEW r, Ring(r), NEW k \in Int, 0 <= k, k <= XGByteQueueSize(r)
  PROVE  XGByteQueuePeer(r, k) = SubSeq(Contents(r), 1, k)
  <1> DEFINE n == XGByteQueueSize(r)
             b == Mask(r.StartIndex)
             B == r.Buffer
             c == Contents(r)
             l == Smaller(k, N - b)
             s1 == [i \in 1..l |-> B[b + i - 1]]
             s2 == [i \in 1..(k - l) |-> B[i - 1]]
             t == SubSeq(c, 1, k)
  <1>1. N \in Int /\ N > 0 /\ b \in Slot /\ b \in Int /\ 0 <= b /\ b < N /\ n \in Int /\ 0 <= n /\ n <= N /\ B \in [Slot -> Byte]
    BY WordOfBuffers, Lies, SlotIs
  <1>2. c \in Seq(Byte) /\ Len(c) = n /\ \A i \in 1..n : c[i] = B[At(b, i - 1)] BY ContentsIsSeq
  <1> HIDE DEF n, b, c, B
  <1>3. k <= n BY DEF n
  <1>4. Smaller(k, n) = k BY <1>1, <1>3, SmallerIs
  <1>5. (k <= N - b => l = k) /\ (N - b <= k => l = N - b)
    <2>1. N - b \in Int BY <1>1
    <2> QED BY <2>1, SmallerIs
  <1>6. XGByteQueuePeer(r, k) = s1 \o s2 BY <1>4 DEF XGByteQueuePeer, N, b, n, B
  <1> HIDE DEF l
  <1>7. l \in Nat /\ k - l \in Nat /\ l <= N - b BY <1>1, <1>5
  <1>8. ASSUME NEW i \in 1..l PROVE s1[i] \in Byte /\ s1[i] = c[i]
    <2>1. At(b, i - 1) = b + i - 1 /\ i \in 1..n /\ b + i - 1 \in Int /\ 0 <= b + i - 1 /\ b + i - 1 < N BY <1>1, <1>3, <1>7 DEF At
    <2> QED BY <1>1, <1>2, <2>1, SlotIs
  <1>9. ASSUME NEW i \in 1..(k - l) PROVE s2[i] \in Byte /\ s2[i] = c[l + i]
    <2>1. l = N - b BY <1>1, <1>5, <1>7
    <2>2. At(b, (l + i) - 1) = i - 1 /\ l + i \in 1..n /\ i - 1 \in Int /\ 0 <= i - 1 /\ i - 1 < N BY <1>1, <1>3, <1>7, <2>1 DEF At
    <2> QED BY <1>1, <1>2, <2>2, SlotIs
  <1>10. s1 \in Seq(Byte) /\ Len(s1) = l BY <1>7, <1>8
  <1>11. s2 \in Seq(Byte) /\ Len(s2) = k - l BY <1>7, <1>9
  <1> HIDE DEF s1, s2
  <1>12. s1 \o s2 \in Seq(Byte) /\ Len(s1 \o s2) = k /\ \A i \in 1..k : (s1 \o s2)[i] = c[i]
    <2>1. /\ s1 \o s2 \in Seq(Byte) /\ Len(s1 \o s2) = l + (k - l)
          /\ \A i \in 1..(l + (k - l)) : (s1 \o s2)[i] = IF i <= l THEN s1[i] ELSE s2[i - l]
      BY <1>10, <1>11, ConcatProperties
    <2>2. l + (k - l) = k BY <1>7
    <2>3. ASSUME NEW i \in 1..k PROVE (s1 \o s2)[i] = c[i]
      <3>1. CASE i <= l
        <4>1. i \in 1..l BY <1>7, <3>1
        <4> QED BY <1>8, <2>1, <2>2, <3>1, <4>1
      <3>2. CASE ~(i <= l)
        <4>1. i - l \in 1..(k - l) /\ l + (i - l) = i BY <1>7, <3>2
        <4> QED BY <1>9, <2>1, <2>2, <3>2, <4>1
      <3> QED BY <3>1, <3>2
    <2> QED BY <2>1, <2>2, <2>3
  <1>13. t \in Seq(Byte) /\ Len(t) = k /\ \A i \in 1..k : t[i] = c[i] BY <1>1, <1>2, <1>3
  <1> HIDE DEF t
  <1>14. s1 \o s2 = t
    <2> DEFINE u == s1 \o s2
    <2>1. u \in Seq(Byte) /\ Len(u) = Len(t) /\ \A i \in 1..Len(u) : u[i] = t[i] BY <1>12, <1>13
    <2> HIDE DEF u
    <2>2. u = t BY <1>13, <2>1, SeqEqual
    <2> QED BY <2>2 DEF u
  <1> QED BY <1>6, <1>14 DEF t, c

\* Popping leaves the rest.
LEMMA PopIs ==
  ASSUME NEW r, Ring(r), NEW k \in Int, 0 <= k, k <= XGByteQueueSize(r)
  PROVE  Ring(XGByteQueuePop(r, k)) /\ Contents(XGByteQueuePop(r, k)) = SubSeq(Contents(r), k + 1, XGByteQueueSize(r))
  <1> DEFINE n == XGByteQueueSize(r)
             x == r.StartIndex
             y == r.EndIndex
             b == Mask(x)
             B == r.Buffer
             c == Contents(r)
             x2 == (x + k) % M
             r2 == [r EXCEPT !.StartIndex = x2]
             t == SubSeq(c, k + 1, n)
  <1>0. N \in Int /\ N > 0 /\ M \in Int /\ M > N BY WordOfBuffers
  <1>1. /\ B \in [Slot -> Byte] /\ x \in Int /\ 0 <= x /\ x < M /\ y \in Int /\ 0 <= y /\ y < M
        /\ n \in Int /\ 0 <= n /\ n <= N /\ b \in Slot /\ n = IF x <= y THEN y - x ELSE y - x + M
    BY <1>0, Lies
  <1>2. c \in Seq(Byte) /\ Len(c) = n /\ \A i \in 1..n : c[i] = B[At(b, i - 1)] BY ContentsIsSeq
  <1>3. Smaller(k, n) = k BY <1>1, SmallerIs
  <1>4. x2 \in 0..(M - 1) /\ Mask(x2) = At(b, k) /\ x2 = IF x + k < M THEN x + k ELSE x + k - M
    <2>1. x \in 0..(M - 1) /\ k \in 0..N /\ k \in 0..(M - 1) BY <1>0, <1>1
    <2> HIDE DEF x
    <2> QED BY <2>1, MaskOn, IndexOn
  <1> HIDE DEF x2
  <1>5. XGByteQueuePop(r, k) = IF r2.EndIndex = r2.StartIndex THEN XGByteQueueReSet(r2) ELSE r2
    BY <1>3 DEF XGByteQueuePop, M, x2
  <1>6. r \in ByteQueue(Byte) /\ x2 \in 0..(IndexMod - 1) /\ 0 \in 0..(IndexMod - 1) BY <1>0, <1>4 DEF Ring, M
  <1>7. r2 \in ByteQueue(Byte) /\ r2.StartIndex = x2 /\ r2.EndIndex = y /\ r2.Buffer = B BY <1>6 DEF ByteQueue
  <1> HIDE DEF r2, n, b, B, c
  <1>8. XGByteQueueSize(r2) = n - k
    <2>1. x2 \in 0..(M - 1) /\ y \in 0..(M - 1) BY <1>0, <1>1, <1>4
    <2>2. Minus(y, x2) = IF x2 <= y THEN y - x2 ELSE y - x2 + M BY <2>1, MinusIs
    <2>3. k <= n BY DEF n
    <2> HIDE DEF x, y
    <2>4. Minus(y, x2) = n - k
      <3>1. x2 \in Int /\ 0 <= x2 /\ x2 < M BY <1>0, <2>1
      <3> QED BY <1>0, <1>1, <1>4, <2>2, <2>3, <3>1
    <2> QED BY <1>7, <2>4 DEF XGByteQueueSize
  <1>14. k <= n BY DEF n
  <1>9. k <= n /\ n - k \in Int /\ 0 <= n - k /\ n - k <= N BY <1>0, <1>1, <1>14
  <1>10. Ring(r2) BY <1>7, <1>8, <1>9 DEF Ring
  <1>11. t \in Seq(Byte) /\ Len(t) = n - k /\ \A i \in 1..(n - k) : t[i] = c[k + i]
    <2>1. k + 1 \in Int /\ n \in Int /\ \A i \in (k + 1)..n : c[i] \in Byte BY <1>1, <1>2
    <2>2. /\ t \in Seq(Byte) /\ Len(t) = (IF k + 1 <= n THEN n - (k + 1) + 1 ELSE 0)
          /\ \A i \in 1..(n - (k + 1) + 1) : t[i] = c[(k + 1) + i - 1]
      BY <2>1, SubSeqProperties
    <2>3. n - (k + 1) + 1 = n - k /\ \A i \in 1..(n - k) : (k + 1) + i - 1 = k + i BY <1>1
    <2> QED BY <1>9, <2>2, <2>3
  <1> HIDE DEF t
  <1>12. CASE r2.EndIndex # r2.StartIndex
    <2> DEFINE c2 == Contents(r2)
    <2>1. XGByteQueuePop(r, k) = r2 BY <1>5, <1>12
    <2>2. c2 \in Seq(Byte) /\ Len(c2) = n - k /\ \A i \in 1..(n - k) : c2[i] = B[At(At(b, k), i - 1)]
      BY <1>4, <1>7, <1>8, <1>10, ContentsIsSeq
    <2> HIDE DEF c2
    <2>3. ASSUME NEW i \in 1..(n - k) PROVE c2[i] = t[i]
      <3>1. i - 1 \in Int /\ 0 <= i - 1 /\ k + (i - 1) < N /\ k + i \in 1..n /\ (k + i) - 1 = k + (i - 1) BY <1>0, <1>1, <1>9
      <3>2. At(At(b, k), i - 1) = At(b, k + (i - 1)) BY <1>1, <3>1, AtAt
      <3>3. c[k + i] = B[At(b, (k + i) - 1)] BY <1>2, <3>1
      <3> QED BY <1>11, <2>2, <3>1, <3>2, <3>3
    <2>4. c2 = t BY <1>11, <2>2, <2>3, SeqEqual
    <2> QED BY <1>10, <2>1, <2>4 DEF t, c, c2, n
  <1>13. CASE r2.EndIndex = r2.StartIndex
    <2> DEFINE r3 == XGByteQueueReSet(r2)
               c3 == Contents(r3)
    <2>1. XGByteQueuePop(r, k) = r3 BY <1>5, <1>13
    <2>2. r3 \in ByteQueue(Byte) /\ r3.StartIndex = 0 /\ r3.EndIndex = 0 BY <1>6, <1>7 DEF XGByteQueueReSet, ByteQueue
    <2>3. n - k = 0
      <3>1. Minus(y, y) = IF y <= y THEN y - y ELSE y - y + M
        <4>1. y \in 0..(M - 1) BY <1>0, <1>1
        <4> HIDE DEF y
        <4> QED BY <4>1, MinusIs
      <3>2. Minus(y, y) = 0 BY <1>1, <3>1
      <3> QED BY <1>7, <1>8, <1>13, <3>2 DEF XGByteQueueSize
    <2> HIDE DEF r3
    <2>4. XGByteQueueSize(r3) = 0
      <3>1. 0 \in 0..(M - 1) BY <1>0
      <3>2. Minus(0, 0) = 0 BY <3>1, MinusIs
      <3> QED BY <2>2, <3>2 DEF XGByteQueueSize
    <2>5. Ring(r3) BY <1>0, <2>2, <2>4 DEF Ring
    <2>6. c3 \in Seq(Byte) /\ Len(c3) = 0 BY <2>4, <2>5, ContentsIsSeq
    <2> HIDE DEF c3
    <2>7. c3 = t BY <1>11, <2>3, <2>6, SeqEqual
    <2> QED BY <2>1, <2>5, <2>7 DEF t, c, c3, n
  <1> QED BY <1>12, <1>13

-----------------------------------------------------------------------------
(* The stream *)

\* The bytes of st are the frames of fs, one behind the other; frame i ends at ends[i].
Carries(st, fs) ==
  \E ends \in [0..Len(fs) -> Nat] :
    /\ ends[0] = 0 /\ ends[Len(fs)] = Len(st)
    /\ \A i, j \in 0..Len(fs) : i <= j => ends[i] <= ends[j]
    /\ \A i \in 1..Len(fs) : /\ ends[i] = ends[i - 1] + Len(fs[i])
                             /\ \A j \in 1..Len(fs[i]) : st[ends[i - 1] + j] = fs[i][j]

LEMMA FrameIs ==
  ASSUME NEW f \in Frame
  PROVE  f \in Seq(Byte) /\ HeaderSize <= Len(f) /\ f[HeaderSize] + HeaderSize = Len(f)
  <1> USE RecvBufferAssumption
  <1>1. PICK b \in Bodies : f = Header(Len(b)) \o b BY DEF Frame
  <1>2. PICK n \in 0..MaxBody : b \in [1..n -> Content] BY DEF Bodies
  <1>3. b \in Seq(Byte) /\ Len(b) = n /\ n \in Nat
    <2>1. b \in [1..n -> Byte] /\ n \in Nat BY <1>2 DEF Byte
    <2> QED BY <2>1, SeqDef
  <1> DEFINE h == Header(n)
  <1>4. h \in Seq(Byte) /\ Len(h) = HeaderSize /\ h[HeaderSize] = n
    <2>1. \A i \in 1..HeaderSize : (IF i = HeaderSize THEN n ELSE 0) \in Byte BY <1>2 DEF Byte
    <2>2. h \in [1..HeaderSize -> Byte] /\ h[HeaderSize] = n BY <2>1 DEF Header
    <2> HIDE DEF h
    <2>3. h \in Seq(Byte) BY <2>2, SeqDef
    <2> QED BY <2>2, <2>3, LenProperties
  <1> HIDE DEF h
  <1>5. f = h \o b BY <1>1, <1>3 DEF h
  <1>6. /\ f \in Seq(Byte) /\ Len(f) = HeaderSize + n
        /\ \A i \in 1..(HeaderSize + n) : f[i] = IF i <= HeaderSize THEN h[i] ELSE b[i - HeaderSize]
    <2>1. /\ h \o b \in Seq(Byte) /\ Len(h \o b) = Len(h) + Len(b)
          /\ \A i \in 1..(Len(h) + Len(b)) : (h \o b)[i] = IF i <= Len(h) THEN h[i] ELSE b[i - Len(h)]
      <3> HIDE RecvBufferAssumption
      <3>1. h \in Seq(Byte) /\ b \in Seq(Byte) BY <1>3, <1>4
      <3> QED BY ONLY <3>1, ConcatProperties
    <2> QED BY <1>3, <1>4, <1>5, <2>1
  <1>7. f[HeaderSize] = n
    <2>1. HeaderSize \in 1..(HeaderSize + n) /\ HeaderSize <= HeaderSize BY <1>3
    <2> QED BY <1>4, <1>6, <2>1
  <1> QED BY <1>3, <1>6, <1>7

LEMMA CarriesNothing == Carries(<<>>, <<>>)
  <1> DEFINE ends == [i \in 0..0 |-> 0]
  <1>1. ends \in [0..Len(<<>>) -> Nat] /\ ends[0] = 0 /\ Len(<<>>) = 0 OBVIOUS
  <1>2. \A i, j \in 0..0 : ends[i] <= ends[j] OBVIOUS
  <1> HIDE DEF ends
  <1>3. Len(<<>>) = 0 BY EmptySeq
  <1>4. ~(1 <= 0) /\ \A i \in 1..0 : FALSE OBVIOUS
  <1>5. \E e \in [0..0 -> Nat] : /\ e[0] = 0 /\ e[0] = 0
                                 /\ \A i, j \in 0..0 : i <= j => e[i] <= e[j]
                                 /\ \A i \in 1..0 : /\ e[i] = e[i - 1] + Len(<<>>[i])
                                                   /\ \A j \in 1..Len(<<>>[i]) : <<>>[e[i - 1] + j] = <<>>[i][j]
    <2>1. ends \in [0..0 -> Nat] BY <1>1
    <2>2. \A i, j \in 0..0 : i <= j => ends[i] <= ends[j] BY <1>2
    <2>3. ends[0] = 0 BY <1>1
    <2> WITNESS ends \in [0..0 -> Nat]
    <2> QED BY <1>4, <2>2, <2>3
  <1> QED BY <1>3, <1>5 DEF Carries

LEMMA CarriesMore ==
  ASSUME NEW st \in Seq(Byte), NEW fs \in Seq(Frame), NEW f \in Frame, Carries(st, fs)
  PROVE  Carries(st \o f, Append(fs, f))
  <1> DEFINE n == Len(fs)
             l == Len(st)
             m == Len(f)
             st2 == st \o f
             fs2 == Append(fs, f)
  <1>1. PICK ends \in [0..n -> Nat] :
          /\ ends[0] = 0 /\ ends[n] = l
          /\ \A i, j \in 0..n : i <= j => ends[i] <= ends[j]
          /\ \A i \in 1..n : ends[i] = ends[i - 1] + Len(fs[i]) /\ \A j \in 1..Len(fs[i]) : st[ends[i - 1] + j] = fs[i][j]
    BY DEF Carries
  <1> DEFINE ends2 == [i \in 0..(n + 1) |-> IF i <= n THEN ends[i] ELSE l + m]
  <1>2. n \in Nat /\ l \in Nat /\ m \in Nat /\ f \in Seq(Byte) BY FrameIs
  <1>3. Len(fs2) = n + 1 /\ (\A i \in 1..n : fs2[i] = fs[i]) /\ fs2[n + 1] = f BY AppendProperties
  <1>4. Len(st2) = l + m /\ \A i \in 1..(l + m) : st2[i] = IF i <= l THEN st[i] ELSE f[i - l] BY <1>2, ConcatProperties
  <1> HIDE DEF st2, fs2, n, l, m
  <1>5. ends2 \in [0..(n + 1) -> Nat] BY <1>1, <1>2
  <1>6. (\A i \in 0..n : ends2[i] = ends[i]) /\ ends2[n + 1] = l + m /\ 0 \in 0..n /\ n \in 0..n BY <1>2
  <1> HIDE DEF ends2
  <1>7. ASSUME NEW i \in 0..(n + 1), NEW j \in 0..(n + 1), i <= j PROVE ends2[i] <= ends2[j]
    <2>1. CASE j <= n
      <3>1. i \in 0..n /\ j \in 0..n BY <1>2, <1>7, <2>1
      <3> QED BY <1>1, <1>6, <1>7, <3>1
    <2>2. CASE ~(j <= n) /\ i <= n
      <3>1. j = n + 1 /\ i \in 0..n BY <1>2, <2>2
      <3>2. ends[i] <= l /\ ends[i] \in Nat BY <1>1, <1>2, <1>6, <3>1
      <3> QED BY <1>2, <1>6, <3>1, <3>2
    <2>3. CASE ~(i <= n)
      <3>1. j = n + 1 /\ i = n + 1 BY <1>2, <1>7, <2>3
      <3> QED BY <1>2, <1>6, <3>1
    <2> QED BY <2>1, <2>2, <2>3
  <1>8. ASSUME NEW i \in 1..(n + 1)
        PROVE  ends2[i] = ends2[i - 1] + Len(fs2[i]) /\ \A j \in 1..Len(fs2[i]) : st2[ends2[i - 1] + j] = fs2[i][j]
    <2>1. CASE i <= n
      <3>1. i \in 1..n /\ i \in 0..n /\ i - 1 \in 0..n BY <1>2, <2>1
      <3>2. fs2[i] = fs[i] /\ ends2[i] = ends[i] /\ ends2[i - 1] = ends[i - 1] BY <1>3, <1>6, <3>1
      <3>3. ends[i] <= l /\ ends[i] \in Nat /\ ends[i - 1] \in Nat BY <1>1, <1>6, <1>2, <3>1
      <3>4. ends[i] = ends[i - 1] + Len(fs[i]) /\ \A j \in 1..Len(fs[i]) : st[ends[i - 1] + j] = fs[i][j] BY <1>1, <3>1
      <3>5. Len(fs[i]) \in Nat
        <4>1. fs[i] \in Frame BY <3>1 DEF n
        <4> QED BY <4>1, FrameIs
      <3>6. ASSUME NEW j \in 1..Len(fs[i]) PROVE st2[ends[i - 1] + j] = fs[i][j]
        <4> DEFINE k == ends[i - 1] + j
        <4>1. k \in 1..(l + m) /\ k <= l
          <5> DEFINE a == ends[i - 1]
                     b == ends[i]
                     c == Len(fs[i])
          <5>1. a \in Nat /\ b \in Nat /\ c \in Nat /\ b = a + c /\ b <= l BY <3>3, <3>4, <3>5
          <5>2. j \in Int /\ 1 <= j /\ j <= c BY <3>5
          <5> HIDE DEF a, b, c
          <5>3. a + j \in 1..(l + m) /\ a + j <= l BY <1>2, <5>1, <5>2
          <5> QED BY <5>3 DEF a
        <4>2. st[k] = fs[i][j] BY <3>4
        <4> HIDE DEF k
        <4>3. st2[k] = st[k] BY <1>4, <4>1
        <4> QED BY <4>2, <4>3 DEF k
      <3> QED BY <3>2, <3>4, <3>6
    <2>2. CASE ~(i <= n)
      <3>1. i = n + 1 /\ i - 1 = n BY <1>2, <2>2
      <3>2. fs2[i] = f /\ ends2[i] = l + m /\ ends2[i - 1] = l BY <1>1, <1>3, <1>6, <3>1
      <3>3. ASSUME NEW j \in 1..m PROVE st2[l + j] = f[j]
        <4>1. l + j \in 1..(l + m) /\ ~(l + j <= l) /\ (l + j) - l = j BY <1>2
        <4> QED BY <1>4, <4>1
      <3> QED BY <3>2, <3>3 DEF m
    <2> QED BY <2>1, <2>2
  <1>9. ends2[0] = 0 /\ ends2[n + 1] = l + m BY <1>1, <1>6
  <1>10. /\ ends2 \in [0..Len(fs2) -> Nat] /\ ends2[0] = 0 /\ ends2[Len(fs2)] = Len(st2)
         /\ \A i, j \in 0..Len(fs2) : i <= j => ends2[i] <= ends2[j]
         /\ \A i \in 1..Len(fs2) : ends2[i] = ends2[i - 1] + Len(fs2[i]) /\ \A j \in 1..Len(fs2[i]) : st2[ends2[i - 1] + j] = fs2[i][j]
    BY <1>3, <1>4, <1>5, <1>7, <1>8, <1>9
  <1>11. Carries(st2, fs2) BY <1>10 DEF Carries
  <1> QED BY <1>11 DEF st2, fs2

\* The first frame is at the front, and without it the others remain.
LEMMA CarriesFirst ==
  ASSUME NEW st \in Seq(Byte), NEW fs \in Seq(Frame), Carries(st, fs), st # <<>>
  PROVE  /\ fs # <<>> /\ fs[1] \in Frame /\ Len(fs[1]) <= Len(st) /\ \A j \in 1..Len(fs[1]) : st[j] = fs[1][j]
         /\ Carries(SubSeq(st, Len(fs[1]) + 1, Len(st)), Tail(fs))
  <1> DEFINE n == Len(fs)
             l == Len(st)
             m == Len(fs[1])
             st2 == SubSeq(st, m + 1, l)
             fs2 == Tail(fs)
  <1>1. PICK ends \in [0..n -> Nat] :
          /\ ends[0] = 0 /\ ends[n] = l
          /\ \A i, j \in 0..n : i <= j => ends[i] <= ends[j]
          /\ \A i \in 1..n : ends[i] = ends[i - 1] + Len(fs[i]) /\ \A j \in 1..Len(fs[i]) : st[ends[i - 1] + j] = fs[i][j]
    BY DEF Carries
  <1>2. n \in Nat /\ l \in Nat /\ l # 0 BY EmptySeq
  <1>3. n # 0 BY <1>1, <1>2
  <1>4. 1 \in 1..n /\ 1 \in 0..n /\ n \in 0..n /\ 0 \in 0..n BY <1>2, <1>3
  <1>5. fs # <<>> /\ fs[1] \in Frame BY <1>3, <1>4
  <1>6. m \in Nat BY <1>5, FrameIs
  <1>7. ends[1] = m
    <2>1. ends[1] = ends[1 - 1] + Len(fs[1]) /\ 1 - 1 = 0 BY <1>1, <1>4
    <2> QED BY <1>1, <1>6, <2>1
  <1>8. m <= l BY <1>1, <1>4, <1>7, <1>2
  <1>9. \A j \in 1..m : st[j] = fs[1][j]
    <2>1. \A j \in 1..m : st[ends[1 - 1] + j] = fs[1][j]
      <3> HIDE DEF st2, fs2, l
      <3> QED BY <1>1, <1>4, Zenon
    <2>2. ends[1 - 1] = 0 BY <1>1
    <2>3. \A j \in 1..m : 0 + j = j OBVIOUS
    <2> QED BY <2>1, <2>2, <2>3
  <1>10. Len(st2) = l - m /\ \A i \in 1..(l - m) : st2[i] = st[m + i]
    <2>1. m + 1 \in Int /\ l \in Int /\ \A i \in (m + 1)..l : st[i] \in Byte BY <1>2, <1>6
    <2> DEFINE a == m + 1
               cut == SubSeq(st, a, l)
    <2>2. a \in Int /\ l \in Int /\ \A i \in a..l : st[i] \in Byte BY <2>1
    <2>3. l - a + 1 = l - m /\ (a <= l => l - a + 1 = l - m) /\ (~(a <= l) => l - m = 0) /\ \A i \in 1..(l - m) : a + i - 1 = m + i
      BY <1>2, <1>6, <1>8
    <2> HIDE DEF a, n, l, m, fs2
    <2>4. /\ Len(cut) = (IF a <= l THEN l - a + 1 ELSE 0)
          /\ \A i \in 1..(l - a + 1) : cut[i] = st[a + i - 1]
      BY <2>2, SubSeqProperties
    <2>5. cut = st2 BY DEF a
    <2> HIDE DEF cut, st2
    <2>6. Len(st2) = l - m BY <2>3, <2>4, <2>5
    <2>7. ASSUME NEW i \in 1..(l - m) PROVE st2[i] = st[m + i]
      <3>1. i \in 1..(l - a + 1) /\ a + i - 1 = m + i BY <2>3
      <3> QED BY <2>4, <2>5, <3>1
    <2> QED BY <2>6, <2>7
  <1>11. Len(fs2) = n - 1 /\ \A i \in 1..(n - 1) : fs2[i] = fs[i + 1] BY <1>5, HeadTailProperties
  <1> DEFINE ends2 == [i \in 0..(n - 1) |-> ends[i + 1] - m]
  <1> HIDE DEF st2, fs2, n, l
  <1>12. ASSUME NEW i \in 0..(n - 1) PROVE i + 1 \in 0..n /\ ends[i + 1] \in Nat /\ m <= ends[i + 1] /\ ends[i + 1] <= l
    <2>1. i + 1 \in 0..n /\ 1 <= i + 1 BY <1>2
    <2> QED BY <1>1, <1>2, <1>4, <1>7, <2>1
  <1> HIDE DEF m
  <1>13. ends2 \in [0..(n - 1) -> Nat] BY <1>6, <1>12
  <1>14. \A i \in 0..(n - 1) : ends2[i] = ends[i + 1] - m OBVIOUS
  <1> HIDE DEF ends2
  <1>15. ends2[0] = 0 /\ ends2[n - 1] = l - m
    <2>1. 0 \in 0..(n - 1) /\ n - 1 \in 0..(n - 1) /\ 0 + 1 = 1 /\ (n - 1) + 1 = n BY <1>2, <1>3
    <2> QED BY <1>1, <1>6, <1>7, <1>14, <2>1
  <1>16. ASSUME NEW i \in 0..(n - 1), NEW j \in 0..(n - 1), i <= j PROVE ends2[i] <= ends2[j]
    <2>1. i + 1 <= j + 1 /\ i + 1 \in 0..n /\ j + 1 \in 0..n BY <1>2, <1>16
    <2>2. ends[i + 1] <= ends[j + 1] BY <1>1, <2>1
    <2> QED BY <1>6, <1>12, <1>14, <2>2
  <1>17. ASSUME NEW i \in 1..(n - 1)
         PROVE  ends2[i] = ends2[i - 1] + Len(fs2[i]) /\ \A j \in 1..Len(fs2[i]) : st2[ends2[i - 1] + j] = fs2[i][j]
    <2>1. i \in 0..(n - 1) /\ i - 1 \in 0..(n - 1) /\ (i - 1) + 1 = i /\ i + 1 \in 1..n /\ (i + 1) - 1 = i BY <1>2
    <2>2. fs2[i] = fs[i + 1] /\ ends2[i] = ends[i + 1] - m /\ ends2[i - 1] = ends[i] - m BY <1>11, <1>14, <2>1
    <2>3. ends[i + 1] = ends[i] + Len(fs[i + 1]) /\ \A j \in 1..Len(fs[i + 1]) : st[ends[i] + j] = fs[i + 1][j] BY <1>1, <2>1
    <2>4. Len(fs[i + 1]) \in Nat
      <3>1. fs[i + 1] \in Frame BY <2>1 DEF n
      <3> QED BY <3>1, FrameIs
    <2>5. ends[i] \in Nat /\ m <= ends[i] /\ ends[i + 1] \in Nat /\ ends[i + 1] <= l
      <3>1. ends[(i - 1) + 1] \in Nat /\ m <= ends[(i - 1) + 1] BY <1>12, <2>1
      <3> QED BY <1>12, <2>1, <3>1
    <2>6. ASSUME NEW j \in 1..Len(fs2[i]) PROVE st2[ends2[i - 1] + j] = fs2[i][j]
      <3> DEFINE k == ends2[i - 1] + j
      <3>1. k \in 1..(l - m) /\ m + k = ends[i] + j
        <4> DEFINE a == ends[i]
                   b == ends[i + 1]
                   c == Len(fs[i + 1])
        <4>1. a \in Nat /\ b \in Nat /\ c \in Nat /\ b = a + c /\ m <= a /\ b <= l BY <2>3, <2>4, <2>5
        <4>2. j \in Int /\ 1 <= j /\ j <= c BY <2>2, <2>4
        <4>3. k = a - m + j BY <2>2
        <4> HIDE DEF a, b, c, k
        <4>4. (a - m) + j \in 1..(l - m) /\ m + ((a - m) + j) = a + j BY <1>2, <1>6, <4>1, <4>2
        <4>5. k = (a - m) + j BY <1>6, <4>1, <4>2, <4>3
        <4> QED BY <4>4, <4>5 DEF a
      <3>2. st[ends[i] + j] = fs[i + 1][j] BY <2>2, <2>3
      <3> HIDE DEF k
      <3>3. st2[k] = st[m + k] BY <1>10, <3>1
      <3> QED BY <2>2, <3>1, <3>2, <3>3 DEF k
    <2>7. ends2[i] = ends2[i - 1] + Len(fs2[i]) BY <1>6, <2>2, <2>3, <2>4, <2>5
    <2> QED BY <2>6, <2>7
  <1>18. /\ ends2 \in [0..Len(fs2) -> Nat] /\ ends2[0] = 0 /\ ends2[Len(fs2)] = Len(st2)
         /\ \A i, j \in 0..Len(fs2) : i <= j => ends2[i] <= ends2[j]
         /\ \A i \in 1..Len(fs2) : ends2[i] = ends2[i - 1] + Len(fs2[i]) /\ \A j \in 1..Len(fs2[i]) : st2[ends2[i - 1] + j] = fs2[i][j]
    BY <1>10, <1>11, <1>13, <1>15, <1>16, <1>17
  <1>19. Carries(st2, fs2) BY <1>18 DEF Carries
  <1> QED BY <1>5, <1>8, <1>9, <1>19 DEF st2, fs2, m, l

\* Cutting n bytes off the front of c cuts them off the front of c \o w.
LEMMA CutFront ==
  ASSUME NEW c \in Seq(Byte), NEW w \in Seq(Byte), NEW n \in Nat, n <= Len(c)
  PROVE  SubSeq(c \o w, n + 1, Len(c \o w)) = SubSeq(c, n + 1, Len(c)) \o w
  <1> DEFINE l == Len(c)
             m == Len(w)
             st == c \o w
             a == n + 1
             cut == SubSeq(c, a, l)
             stcut == SubSeq(st, a, l + m)
             both == cut \o w
  <1>1. l \in Nat /\ m \in Nat BY LenProperties
  <1>2. st \in Seq(Byte) /\ Len(st) = l + m /\ \A i \in 1..(l + m) : st[i] = IF i <= l THEN c[i] ELSE w[i - l]
    BY ConcatProperties
  <1>3. /\ a \in Int /\ l \in Int /\ l + m \in Int /\ a \in 1..(l + 1)
        /\ (\A i \in a..l : i \in 1..l) /\ (\A i \in a..(l + m) : i \in 1..(l + m)) BY <1>1
  <1>4. (\A i \in 1..l : c[i] \in Byte) /\ (\A i \in 1..(l + m) : st[i] \in Byte)
    <2>1. \A i \in 1..l : c[i] \in Byte BY ElementOfSeq
    <2> HIDE DEF l, st
    <2>2. \A i \in 1..(l + m) : st[i] \in Byte BY <1>2, ElementOfSeq
    <2> QED BY <2>1, <2>2
  <1>5. l - a + 1 = l - n /\ (l + m) - a + 1 = (l + m) - n /\ (~(a <= l) => l - n = 0) /\ (~(a <= l + m) => (l + m) - n = 0)
    BY <1>1
  <1>6. /\ cut \in Seq(Byte) /\ Len(cut) = (IF a <= l THEN l - a + 1 ELSE 0)
        /\ \A i \in 1..(l - a + 1) : cut[i] = c[a + i - 1]
    <2> HIDE DEF a, l
    <2> QED BY <1>3, <1>4, SubSeqProperties
  <1>7. /\ stcut \in Seq(Byte) /\ Len(stcut) = (IF a <= l + m THEN (l + m) - a + 1 ELSE 0)
        /\ \A i \in 1..((l + m) - a + 1) : stcut[i] = st[a + i - 1]
    <2> DEFINE k == l + m
    <2>1. a \in Int /\ k \in Int /\ \A i \in a..k : st[i] \in Byte BY <1>3, <1>4
    <2> HIDE DEF a, st, k
    <2>2. /\ SubSeq(st, a, k) \in Seq(Byte) /\ Len(SubSeq(st, a, k)) = (IF a <= k THEN k - a + 1 ELSE 0)
          /\ \A i \in 1..(k - a + 1) : SubSeq(st, a, k)[i] = st[a + i - 1] BY <2>1, SubSeqProperties
    <2> QED BY <2>2 DEF k
  <1> HIDE DEF cut, stcut, st
  <1>8. Len(cut) = l - n /\ \A i \in 1..(l - n) : cut[i] = c[n + i]
    <2>1. Len(cut) = l - n BY ZenonT(60), <1>5, <1>6
    <2>2. ASSUME NEW i \in 1..(l - n) PROVE cut[i] = c[n + i]
      <3>1. i \in 1..(l - a + 1) /\ a + i - 1 = n + i BY <1>1
      <3> HIDE DEF a
      <3> QED BY <1>6, <3>1
    <2> QED BY <2>1, <2>2
  <1>9. Len(stcut) = (l + m) - n /\ \A i \in 1..((l + m) - n) : stcut[i] = st[n + i]
    <2>1. Len(stcut) = (l + m) - n BY <1>5, <1>7
    <2>2. ASSUME NEW i \in 1..((l + m) - n) PROVE stcut[i] = st[n + i]
      <3>1. i \in 1..((l + m) - a + 1) /\ a + i - 1 = n + i BY <1>1
      <3> HIDE DEF a
      <3> QED BY <1>7, <3>1
    <2> QED BY <2>1, <2>2
  <1>10. /\ both \in Seq(Byte) /\ Len(both) = Len(cut) + m
         /\ \A i \in 1..(Len(cut) + m) : both[i] = IF i <= Len(cut) THEN cut[i] ELSE w[i - Len(cut)]
    BY <1>6, ConcatProperties
  <1> HIDE DEF both
  <1> HIDE DEF l, m, a
  <1>11. n <= l BY DEF l
  <1>12. ASSUME NEW i \in 1..((l + m) - n) PROVE stcut[i] = both[i]
    <2>1. n + i \in 1..(l + m) /\ i \in 1..((l - n) + m) /\ i \in Int BY <1>1, <1>11
    <2>2. stcut[i] = st[n + i] BY <1>9
    <2>3. both[i] = IF i <= l - n THEN cut[i] ELSE w[i - (l - n)] BY <1>8, <1>10, <2>1
    <2>4. st[n + i] = IF n + i <= l THEN c[n + i] ELSE w[(n + i) - l] BY <1>2, <2>1
    <2>5. (i <= l - n) = (n + i <= l) /\ (n + i) - l = i - (l - n) /\ (i <= l - n => i \in 1..(l - n)) BY <1>1, <1>11, <2>1
    <2> QED BY <1>8, <2>2, <2>3, <2>4, <2>5
  <1>13. Len(stcut) = Len(both) BY <1>1, <1>8, <1>9, <1>10, <1>11
  <1>14. stcut = both BY <1>7, <1>9, <1>10, <1>12, <1>13, SeqEqual
  <1> QED BY <1>2, <1>14 DEF stcut, both, cut, st, a, l, m

\* A frame more to send is a frame more at the end of those outstanding.
LEMMA RestAppended ==
  ASSUME NEW s \in Seq(Frame), NEW f \in Frame, NEW g \in Nat, g <= Len(s)
  PROVE  SubSeq(Append(s, f), g + 1, Len(Append(s, f))) = Append(SubSeq(s, g + 1, Len(s)), f)
  <1> DEFINE l == Len(s)
             s2 == Append(s, f)
             a == g + 1
             r == SubSeq(s, a, l)
             r2 == SubSeq(s2, a, l + 1)
             longer == Append(r, f)
  <1>1. l \in Nat BY LenProperties
  <1>2. s2 \in Seq(Frame) /\ Len(s2) = l + 1 /\ (\A i \in 1..l : s2[i] = s[i]) /\ s2[l + 1] = f BY AppendProperties
  <1>3. \A i \in 1..l : s[i] \in Frame BY ElementOfSeq
  <1> HIDE DEF s2, l
  <1>4. l + 1 \in Nat /\ a \in Int /\ l \in Int /\ (\A i \in a..l : i \in 1..l) /\ (\A i \in a..(l + 1) : i \in 1..(l + 1)) BY <1>1
  <1>5. \A i \in 1..(l + 1) : s2[i] \in Frame BY <1>2, ElementOfSeq
  <1>6. /\ r \in Seq(Frame) /\ Len(r) = (IF a <= l THEN l - a + 1 ELSE 0)
        /\ \A i \in 1..(l - a + 1) : r[i] = s[a + i - 1]
    <2> HIDE DEF a
    <2> QED BY <1>3, <1>4, SubSeqProperties
  <1>7. /\ r2 \in Seq(Frame) /\ Len(r2) = (IF a <= l + 1 THEN (l + 1) - a + 1 ELSE 0)
        /\ \A i \in 1..((l + 1) - a + 1) : r2[i] = s2[a + i - 1]
    <2> DEFINE k == l + 1
    <2>1. a \in Int /\ k \in Int /\ \A i \in a..k : s2[i] \in Frame BY <1>4, <1>5
    <2> HIDE DEF a, k
    <2>2. /\ SubSeq(s2, a, k) \in Seq(Frame) /\ Len(SubSeq(s2, a, k)) = (IF a <= k THEN k - a + 1 ELSE 0)
          /\ \A i \in 1..(k - a + 1) : SubSeq(s2, a, k)[i] = s2[a + i - 1] BY <2>1, SubSeqProperties
    <2> QED BY <2>2 DEF k
  <1> HIDE DEF r, r2
  <1>8. g <= l BY DEF l
  <1>9. Len(r) = l - g /\ Len(r2) = (l - g) + 1 BY <1>1, <1>6, <1>7, <1>8
  <1>10. longer \in Seq(Frame) /\ Len(longer) = Len(r) + 1 /\ (\A i \in 1..Len(r) : longer[i] = r[i]) /\ longer[Len(r) + 1] = f
    BY <1>6, AppendProperties
  <1> HIDE DEF longer
  <1>11. ASSUME NEW i \in 1..((l - g) + 1) PROVE r2[i] = longer[i]
    <2>1. i \in 1..((l + 1) - a + 1) /\ a + i - 1 = g + i /\ g + i \in 1..(l + 1) /\ i \in Int BY <1>1, <1>8
    <2>2. r2[i] = s2[g + i]
      <3> HIDE DEF a
      <3> QED BY <1>7, <2>1
    <2>3. CASE i <= l - g
      <3>1. g + i \in 1..l /\ i \in 1..(l - g) /\ i \in 1..(l - a + 1) BY <1>1, <1>8, <2>1, <2>3
      <3>2. r[i] = s[g + i]
        <4> HIDE DEF a
        <4> QED BY <1>6, <2>1, <3>1
      <3> QED BY <1>2, <1>9, <1>10, <2>2, <3>1, <3>2
    <2>4. CASE ~(i <= l - g)
      <3>1. i = (l - g) + 1 /\ g + i = l + 1 BY <1>1, <1>8, <2>1, <2>4
      <3> QED BY <1>2, <1>9, <1>10, <2>2, <3>1
    <2> QED BY <2>3, <2>4
  <1>12. Len(r2) = Len(longer) BY <1>9, <1>10
  <1>13. r2 = longer BY <1>7, <1>9, <1>10, <1>11, <1>12, SeqEqual
  <1> QED BY <1>2, <1>13 DEF r2, longer, r, s2, a, l

-----------------------------------------------------------------------------
(* The invariant *)

\* The frames sent and not yet taken out.
Outstanding == SubSeq(sent, Len(got) + 1, Len(sent))

\* What is in the buffer and on the wire, in that order, is the outstanding frames.
StreamInv == Carries(Contents(q) \o wire, Outstanding)

RecvInv ==
  /\ Ring(q) /\ wire \in Seq(Byte)
  /\ sent \in Seq(Frame) /\ got \in Seq(Seq(Byte)) /\ Len(got) <= Len(sent)
  /\ StreamInv

LEMMA RecvStart == Init => RecvInv
  <1> SUFFICES ASSUME Init PROVE RecvInv OBVIOUS
  <1>1. N \in Nat \ {0} /\ M \in Nat \ {0} /\ M > N BY WordOfBuffers
  <1>2. q \in ByteQueue(Byte) /\ q.StartIndex = 0 /\ q.EndIndex = 0
    <2>1. 0 \in Byte BY RecvBufferAssumption DEF Byte
    <2>2. [i \in Slot |-> 0] \in [Slot -> Byte] /\ 0 \in 0..(IndexMod - 1) BY <1>1, <2>1 DEF M
    <2> QED BY <2>2 DEF Init, XGByteQueueInit, ByteQueue
  <1>3. XGByteQueueSize(q) = 0
    <2>1. 0 \in 0..(M - 1) BY <1>1
    <2>2. Minus(0, 0) = 0 BY <2>1, MinusIs
    <2> QED BY <1>2, <2>2 DEF XGByteQueueSize
  <1>4. Ring(q) BY <1>1, <1>2, <1>3 DEF Ring
  <1>5. Contents(q) = <<>>
    <2>1. Contents(q) \in Seq(Byte) /\ Len(Contents(q)) = 0 BY <1>3, <1>4, ContentsIsSeq
    <2> QED BY <2>1, EmptySeq
  <1>6. wire = <<>> /\ sent = <<>> /\ got = <<>> BY DEF Init
  <1>7. Contents(q) \o wire = <<>> BY <1>5, <1>6, ConcatEmptySeq, EmptySeq
  <1>8. Outstanding = <<>>
    <2>1. Len(sent) = 0 /\ Len(got) = 0 BY <1>6, EmptySeq
    <2>2. 0 + 1 \in Int /\ 0 \in Int /\ 0 < 0 + 1 OBVIOUS
    <2>3. SubSeq(sent, 0 + 1, 0) = <<>> BY <2>2, SubSeqEmpty
    <2> QED BY <2>1, <2>3 DEF Outstanding
  <1>9. StreamInv BY <1>7, <1>8, CarriesNothing DEF StreamInv
  <1>10. /\ wire \in Seq(Byte) /\ sent \in Seq(Frame) /\ got \in Seq(Seq(Byte)) /\ Len(got) <= Len(sent)
    BY <1>6, EmptySeq
  <1> QED BY <1>4, <1>9, <1>10 DEF RecvInv

LEMMA SendKeeps ==
  ASSUME RecvInv, PeerSend
  PROVE  RecvInv' /\ Channel!Send
  <1>1. PICK f \in Frame : wire' = wire \o f /\ sent' = Append(sent, f) BY DEF PeerSend
  <1>2. UNCHANGED <<q, got>> BY DEF PeerSend
  <1>3. Ring(q) /\ wire \in Seq(Byte) /\ sent \in Seq(Frame) /\ got \in Seq(Seq(Byte)) /\ Len(got) <= Len(sent) /\ StreamInv
    BY DEF RecvInv
  <1> DEFINE c == Contents(q)
  <1>4. c \in Seq(Byte) /\ f \in Seq(Byte) BY <1>3, ContentsIsSeq, FrameIs
  <1>5. c' = c
    <2>1. q' = q BY <1>2
    <2> QED BY <2>1 DEF Contents, XGByteQueueSize, Minus
  <1> HIDE DEF c
  <1>6. wire' \in Seq(Byte) /\ c \o wire \in Seq(Byte) BY <1>1, <1>3, <1>4, ConcatProperties
  <1>7. c' \o wire' = (c \o wire) \o f
    <2>1. (c \o wire) \o f = c \o (wire \o f) BY <1>3, <1>4, ConcatAssociative
    <2> QED BY <1>1, <1>5, <2>1
  <1>8. sent' \in Seq(Frame) /\ Len(sent') = Len(sent) + 1 BY <1>1, <1>3, AppendProperties
  <1>9. Len(got) \in Nat /\ Len(sent) \in Nat BY <1>3, LenProperties
  <1>10. Outstanding' = Append(Outstanding, f)
    <2> DEFINE g == Len(got)
    <2>1. g \in Nat /\ g <= Len(sent) BY <1>3, <1>9
    <2> HIDE DEF g
    <2>2. SubSeq(Append(sent, f), g + 1, Len(Append(sent, f))) = Append(SubSeq(sent, g + 1, Len(sent)), f)
      BY <1>3, <2>1, RestAppended
    <2> QED BY <1>1, <1>2, <2>2 DEF Outstanding, g
  <1>11. Outstanding \in Seq(Frame)
    <2>1. \A i \in (Len(got) + 1)..Len(sent) : sent[i] \in Frame
      <3>1. \A i \in (Len(got) + 1)..Len(sent) : i \in 1..Len(sent) BY <1>9
      <3> QED BY <1>3, <3>1, ElementOfSeq
    <2>2. Len(got) + 1 \in Int /\ Len(sent) \in Int BY <1>9
    <2> QED BY <2>1, <2>2, SubSeqProperties DEF Outstanding
  <1>12. Carries((c \o wire) \o f, Append(Outstanding, f))
    <2>1. Carries(c \o wire, Outstanding) BY <1>3 DEF StreamInv, c
    <2> QED BY <1>6, <1>11, <2>1, CarriesMore
  <1>13. StreamInv' BY <1>7, <1>10, <1>12 DEF StreamInv, c
  <1>14. Ring(q)' /\ (got \in Seq(Seq(Byte)))' /\ (Len(got) <= Len(sent))'
    <2>1. Ring(q)' BY <1>2, <1>3 DEF Ring, XGByteQueueSize, Minus
    <2> QED BY <1>2, <1>3, <1>8, <1>9, <2>1
  <1>15. RecvInv' BY <1>6, <1>8, <1>13, <1>14 DEF RecvInv
  <1> QED BY <1>1, <1>2, <1>15 DEF Channel!Send

LEMMA RecvKeeps ==
  ASSUME RecvInv, XGRecvConnect
  PROVE  RecvInv' /\ UNCHANGED <<sent, got>>
  <1>1. UNCHANGED <<sent, got>> BY DEF XGRecvConnect
  <1>2. Ring(q) /\ wire \in Seq(Byte) /\ sent \in Seq(Frame) /\ got \in Seq(Seq(Byte)) /\ Len(got) <= Len(sent) /\ StreamInv
    BY DEF RecvInv
  <1>3. Outstanding' = Outstanding BY <1>1 DEF Outstanding
  <1> DEFINE room == BQ_BUFFER_SIZE - XGByteQueueSize(q)
  <1>4. CASE UNCHANGED <<q, wire>>
    <2>1. Contents(q)' = Contents(q) /\ Ring(q)' BY <1>2, <1>4 DEF Contents, Ring, XGByteQueueSize, Minus
    <2>2. StreamInv' BY <1>2, <1>3, <1>4, <2>1 DEF StreamInv
    <2> QED BY <1>1, <1>2, <1>4, <2>1, <2>2 DEF RecvInv
  <1>5. CASE \E n \in 1..Smaller(Len(wire), room) :
               q' = XGByteQueuePush(q, SubSeq(wire, 1, n)) /\ wire' = SubSeq(wire, n + 1, Len(wire))
    <2> DEFINE l == Len(wire)
    <2>1. PICK n \in 1..Smaller(l, room) : q' = XGByteQueuePush(q, SubSeq(wire, 1, n)) /\ wire' = SubSeq(wire, n + 1, l) BY <1>5
    <2>2. l \in Nat /\ XGByteQueueSize(q) \in 0..N /\ N \in Nat BY <1>2, LenProperties, Lies, WordOfBuffers
    <2>3. n \in Int /\ 1 <= n /\ n <= l /\ n + XGByteQueueSize(q) <= N
      <3>1. room \in Int /\ room + XGByteQueueSize(q) = N BY <2>2 DEF N
      <3> HIDE DEF room, l
      <3>2. Smaller(l, room) <= l /\ Smaller(l, room) <= room /\ Smaller(l, room) \in Int BY <2>2, <3>1, SmallerIs
      <3> QED BY <2>2, <3>1, <3>2
    <2> HIDE DEF room
    <2> DEFINE data == SubSeq(wire, 1, n)
               rest == SubSeq(wire, n + 1, l)
    <2>4. data \in Seq(Byte) /\ Len(data) = n
      <3>1. \A i \in 1..n : i \in 1..Len(wire) BY <2>2, <2>3
      <3>2. \A i \in 1..n : wire[i] \in Byte BY <1>2, <3>1, ElementOfSeq
      <3>3. 1 \in Int /\ n \in Int /\ n - 1 + 1 = n BY <2>3
      <3>4. data \in Seq(Byte) /\ Len(data) = (IF 1 <= n THEN n - 1 + 1 ELSE 0) BY <3>2, <3>3, SubSeqProperties
      <3> HIDE DEF data
      <3> QED BY <2>3, <3>3, <3>4
    <2>5. rest \in Seq(Byte)
      <3>1. \A i \in (n + 1)..l : i \in 1..Len(wire) BY <2>2, <2>3
      <3>2. \A i \in (n + 1)..l : wire[i] \in Byte BY <1>2, <3>1, ElementOfSeq
      <3>3. n + 1 \in Int /\ l \in Int BY <2>2, <2>3
      <3> QED BY <3>2, <3>3, SubSeqProperties
    <2>6. data \o rest = wire
      <3>1. 1 \in 1..(Len(wire) + 1) /\ n \in (1 - 1)..Len(wire) /\ l \in n..Len(wire) BY <2>2, <2>3
      <3>2. SubSeq(wire, 1, n) \o SubSeq(wire, n + 1, l) = SubSeq(wire, 1, l) BY <1>2, <3>1, ConcatAdjacentSubSeq
      <3>3. SubSeq(wire, 1, l) = wire BY <1>2, SubSeqFull
      <3> QED BY ZenonT(60), <3>2, <3>3
    <2> HIDE DEF data, rest, l
    <2>7. q' = XGByteQueuePush(q, data) /\ wire' = rest BY <2>1 DEF data, rest
    <2>8. Ring(XGByteQueuePush(q, data)) /\ Contents(XGByteQueuePush(q, data)) = Contents(q) \o data
      <3>1. XGByteQueueSize(q) + Len(data) <= N BY <2>2, <2>3, <2>4
      <3> QED BY <1>2, <2>4, <3>1, PushAppends
    <2>9. Ring(q') /\ Contents(q') = Contents(q) \o data BY <2>7, <2>8
    <2>10. Contents(q) \in Seq(Byte) BY <1>2, ContentsIsSeq
    <2>11. (Contents(q) \o data) \o rest = Contents(q) \o (data \o rest) BY <2>4, <2>5, <2>10, ConcatAssociative
    <2>12. Contents(q') \o wire' = Contents(q) \o wire BY <2>6, <2>7, <2>9, <2>11
    <2>13. StreamInv'
      <3>1. Carries(Contents(q') \o wire', Outstanding') BY <1>2, <1>3, <2>12 DEF StreamInv
      <3> QED BY <3>1 DEF StreamInv, Contents, XGByteQueueSize, Minus
    <2>14. Ring(q)' BY <2>9 DEF Ring, XGByteQueueSize, Minus
    <2>15. (wire \in Seq(Byte))' BY <2>5, <2>7
    <2> QED BY <1>1, <1>2, <2>13, <2>14, <2>15 DEF RecvInv
  <1> QED BY <1>1, <1>4, <1>5 DEF XGRecvConnect

LEMMA ProtocolKeeps ==
  ASSUME RecvInv, Protocol
  PROVE  RecvInv' /\ (Channel!Deliver \/ UNCHANGED <<sent, got>>)
  <1>1. UNCHANGED <<wire, sent>> BY DEF Protocol
  <1>2. Ring(q) /\ wire \in Seq(Byte) /\ sent \in Seq(Frame) /\ got \in Seq(Seq(Byte)) /\ Len(got) <= Len(sent) /\ StreamInv
    BY DEF RecvInv
  <1>3. CASE ~Complete
    <2>1. UNCHANGED <<q, got>> BY <1>3 DEF Protocol
    <2>2. Contents(q)' = Contents(q) /\ Ring(q)' BY <1>2, <2>1 DEF Contents, Ring, XGByteQueueSize, Minus
    <2>3. Outstanding' = Outstanding BY <1>1, <2>1 DEF Outstanding
    <2>4. StreamInv' BY <1>1, <1>2, <2>2, <2>3 DEF StreamInv
    <2> QED BY <1>1, <1>2, <2>1, <2>2, <2>4 DEF RecvInv
  <1>4. CASE Complete
    <2> DEFINE n == XGByteQueuePeer(q, HeaderSize)[HeaderSize] + HeaderSize
               c == Contents(q)
               k == XGByteQueueSize(q)
               st == c \o wire
               fs == Outstanding
               f == fs[1]
    <2>1. HeaderSize <= k /\ n <= k BY <1>4 DEF Complete
    <2>2. got' = Append(got, XGByteQueuePeer(q, n)) /\ q' = XGByteQueuePop(q, n) BY <1>4 DEF Protocol
    <2>3. HeaderSize \in Nat /\ 2 <= HeaderSize BY RecvBufferAssumption
    <2>4. c \in Seq(Byte) /\ Len(c) = k /\ k \in Nat
      <3>1. k \in 0..N /\ N \in Nat BY <1>2, Lies, WordOfBuffers
      <3> QED BY <1>2, <3>1, ContentsIsSeq
    <2>5. Len(got) \in Nat /\ Len(sent) \in Nat BY <1>2, LenProperties
    <2>6. fs \in Seq(Frame)
      <3>1. \A i \in (Len(got) + 1)..Len(sent) : sent[i] \in Frame
        <4>1. \A i \in (Len(got) + 1)..Len(sent) : i \in 1..Len(sent) BY <2>5
        <4> QED BY <1>2, <4>1, ElementOfSeq
      <3>2. Len(got) + 1 \in Int /\ Len(sent) \in Int BY <2>5
      <3> QED BY <3>1, <3>2, SubSeqProperties DEF Outstanding
    <2>7. XGByteQueuePeer(q, HeaderSize) = SubSeq(c, 1, HeaderSize)
      <3>1. HeaderSize \in Int /\ 0 <= HeaderSize BY <2>3
      <3> QED BY <1>2, <2>1, <3>1, PeerIs
    <2>8. n = SubSeq(c, 1, HeaderSize)[HeaderSize] + HeaderSize BY <2>7
    <2> HIDE DEF n, k, c, fs
    <2>9. Carries(st, fs) BY <1>2 DEF StreamInv, c, fs
    <2>10. /\ st \in Seq(Byte) /\ Len(st) = k + Len(wire)
           /\ \A i \in 1..(k + Len(wire)) : st[i] = IF i <= k THEN c[i] ELSE wire[i - k]
      BY <1>2, <2>4, ConcatProperties
    <2>11. Len(wire) \in Nat BY <1>2, LenProperties
    <2> HIDE DEF st
    <2>12. \A i \in 1..k : st[i] = c[i] /\ i \in 1..(k + Len(wire)) BY <2>4, <2>10, <2>11
    <2>13. st # <<>>
      <3>1. Len(st) # 0 BY <2>1, <2>3, <2>4, <2>10, <2>11
      <3> QED BY <3>1, EmptySeq
    <2>14. /\ fs # <<>> /\ f \in Frame /\ Len(f) <= Len(st) /\ \A j \in 1..Len(f) : st[j] = f[j]
           /\ Carries(SubSeq(st, Len(f) + 1, Len(st)), Tail(fs))
      <3>1. /\ fs # <<>> /\ fs[1] \in Frame /\ Len(fs[1]) <= Len(st) /\ \A j \in 1..Len(fs[1]) : st[j] = fs[1][j]
            /\ Carries(SubSeq(st, Len(fs[1]) + 1, Len(st)), Tail(fs))
        BY <2>6, <2>9, <2>10, <2>13, CarriesFirst
      <3> QED BY <3>1
    <2> HIDE DEF f
    <2>15. f \in Seq(Byte) /\ HeaderSize <= Len(f) /\ f[HeaderSize] + HeaderSize = Len(f) /\ Len(f) \in Nat
      BY <2>14, FrameIs, LenProperties
    <2>16. n = Len(f)
      <3>1. HeaderSize \in 1..k /\ HeaderSize \in 1..Len(f) /\ HeaderSize \in Int BY <2>1, <2>3, <2>4, <2>15
      <3>2. SubSeq(c, 1, HeaderSize)[HeaderSize] = c[HeaderSize]
        <4>1. \A i \in 1..HeaderSize : c[i] \in Byte
          <5>1. \A i \in 1..HeaderSize : i \in 1..Len(c) BY <2>1, <2>3, <2>4
          <5> QED BY <2>4, <5>1, ElementOfSeq
        <4>2. HeaderSize \in Int /\ 1 \in Int /\ HeaderSize \in 1..(HeaderSize - 1 + 1) /\ 1 + HeaderSize - 1 = HeaderSize BY <2>3
        <4>3. \A i \in 1..(HeaderSize - 1 + 1) : SubSeq(c, 1, HeaderSize)[i] = c[1 + i - 1] BY <4>1, <4>2, SubSeqProperties
        <4> QED BY <4>2, <4>3
      <3>3. c[HeaderSize] = f[HeaderSize] BY <2>12, <2>14, <3>1
      <3> QED BY <2>8, <2>15, <3>2, <3>3
    <2>17. n \in Nat /\ n \in Int /\ 0 <= n /\ n <= k BY <2>1, <2>15, <2>16
    <2>18. XGByteQueuePeer(q, n) = SubSeq(c, 1, n) BY <1>2, <2>17, PeerIs DEF c, k
    <2>19. SubSeq(c, 1, n) = f
      <3> DEFINE p == SubSeq(c, 1, n)
      <3>1. \A i \in 1..n : i \in 1..k /\ c[i] \in Byte
        <4>1. \A i \in 1..n : i \in 1..k BY <2>4, <2>17
        <4> QED BY <2>4, <4>1, ElementOfSeq
      <3>2. 1 \in Int /\ n \in Int /\ n - 1 + 1 = n /\ 1 <= n /\ \A i \in 1..n : 1 + i - 1 = i BY <2>3, <2>15, <2>16, <2>17
      <3>3. p \in Seq(Byte) /\ Len(p) = (IF 1 <= n THEN n - 1 + 1 ELSE 0) /\ \A i \in 1..(n - 1 + 1) : p[i] = c[1 + i - 1]
        BY <3>1, <3>2, SubSeqProperties
      <3> HIDE DEF p
      <3>4. Len(p) = n BY <3>2, <3>3
      <3>5. ASSUME NEW i \in 1..n PROVE p[i] = f[i]
        <4>1. p[i] = c[i] BY <3>2, <3>3
        <4>2. c[i] = st[i] BY <2>12, <3>1
        <4>3. st[i] = f[i] BY <2>14, <2>16
        <4> QED BY <4>1, <4>2, <4>3
      <3>6. p = f BY <2>15, <2>16, <3>3, <3>4, <3>5, SeqEqual
      <3> QED BY <3>6 DEF p
    <2>20. Ring(q') /\ Contents(q') = SubSeq(c, n + 1, k) BY <1>2, <2>2, <2>17, PopIs DEF c, k
    <2>21. Contents(q') \o wire' = SubSeq(st, n + 1, Len(st))
      <3>1. SubSeq(c \o wire, n + 1, Len(c \o wire)) = SubSeq(c, n + 1, Len(c)) \o wire BY <1>2, <2>4, <2>17, CutFront
      <3> QED BY <1>1, <2>4, <2>20, <3>1 DEF st
    <2>22. got' = Append(got, f) /\ got' \in Seq(Seq(Byte)) /\ Len(got') = Len(got) + 1
      <3>1. got' = Append(got, f) BY <2>2, <2>18, <2>19
      <3> QED BY <1>2, <2>15, <3>1, AppendProperties
    <2>23. Len(got) < Len(sent)
      <3>1. CASE Len(sent) < Len(got) + 1
        <4>1. Len(got) + 1 \in Int /\ Len(sent) \in Int BY <2>5
        <4>2. fs = <<>> BY <3>1, <4>1, SubSeqEmpty DEF fs, Outstanding
        <4> QED BY <2>14, <4>2
      <3> QED BY <2>5, <3>1
    <2> DEFINE g == Len(got) + 1
               l == Len(sent)
    <2>24. Head(fs) = sent[g] /\ Tail(fs) = SubSeq(sent, g + 1, l)
      <3>1. g \in 1..Len(sent) /\ l \in g..Len(sent) BY <2>5, <2>23
      <3>2. fs = SubSeq(sent, g, l) BY DEF fs, Outstanding
      <3> HIDE DEF g, l
      <3> QED BY <1>2, <3>1, <3>2, HeadTailOfSubSeq
    <2>25. f = sent[g]
      <3>1. Head(fs) = fs[1] BY <2>6, <2>14
      <3> QED BY <2>24, <3>1 DEF f
    <2>26. Outstanding' = Tail(fs) BY <1>1, <2>22, <2>24 DEF Outstanding
    <2>27. StreamInv'
      <3>1. Carries(Contents(q') \o wire', Outstanding') BY <2>14, <2>16, <2>21, <2>26
      <3> QED BY <3>1 DEF StreamInv, Contents, XGByteQueueSize, Minus
    <2>28. Ring(q)' BY <2>20 DEF Ring, XGByteQueueSize, Minus
    <2>29. (Len(got) <= Len(sent))' BY <1>1, <2>5, <2>22, <2>23
    <2>30. RecvInv' BY <1>1, <1>2, <2>22, <2>27, <2>28, <2>29 DEF RecvInv
    <2>31. Channel!Deliver BY <1>1, <2>22, <2>23, <2>25 DEF Channel!Deliver
    <2> QED BY <2>30, <2>31
  <1> QED BY <1>3, <1>4

LEMMA RecvStep == RecvInv /\ [Next]_vars => RecvInv' /\ [Channel!Next]_<<sent, got>>
  <1> SUFFICES ASSUME RecvInv, [Next]_vars PROVE RecvInv' /\ [Channel!Next]_<<sent, got>> OBVIOUS
  <1>1. CASE PeerSend BY <1>1, SendKeeps DEF Channel!Next
  <1>2. CASE Protocol BY <1>2, ProtocolKeeps DEF Channel!Next
  <1>3. CASE XGRecvConnect BY <1>3, RecvKeeps
  <1>4. CASE UNCHANGED <<q, wire, sent, got>>
    <2>1. Contents(q)' = Contents(q) /\ Ring(q)' = Ring(q) BY <1>4 DEF Contents, Ring, XGByteQueueSize, Minus
    <2>2. Outstanding' = Outstanding BY <1>4 DEF Outstanding
    <2>3. StreamInv' BY <1>4, <2>1, <2>2 DEF StreamInv, RecvInv
    <2>4. RecvInv' BY <1>4, <2>1, <2>3 DEF RecvInv
    <2> QED BY <1>4, <2>4
  <1> QED BY <1>1, <1>2, <1>3, <1>4 DEF Next, NotReadable, vars

\* However recv() cuts the stream and wherever the ring buffer and its indices wrap, the frames that
\* XGProtocolClient and XGProtocolServer take out are the frames sent, each whole, once and in order
\* (XGByteQueue.c, xlinkgateway.c).
THEOREM FramesWholeInOrder == Spec => ImplementsFrameChannel
  <1>1. Init => Channel!Init BY DEF Init, Channel!Init
  <1> QED BY <1>1, RecvStart, RecvStep, PTL DEF Spec, ImplementsFrameChannel, Channel!Spec

-----------------------------------------------------------------------------
(* The file: what is read after write_profile_string                       *)

Labels == {"config", "gatewayid", "Xlink.v4sdk.cofnig", ""}
Line == [kind : {"section", "entry", "other"}, name : Labels, value : Seq(Nat)]

\* Line i is below a header of the section and above the next header.
Inside(f, s, i) ==
  \E j \in 1..i : f[j].kind = "section" /\ f[j].name = s /\ \A m \in j + 1..i : f[m].kind # "section"

LEMMA LeastNatural ==
  ASSUME NEW T \in SUBSET Nat, T # {}
  PROVE  \E x \in T : \A y \in T : x <= y
  <1> DEFINE Less == OpToRel(<, Nat)
  <1>1. IsWellFoundedOn(Less, Nat) BY NatLessThanWellFounded
  <1>2. \A x \in Nat, y \in Nat : y < x => <<y, x>> \in Less BY DEF OpToRel
  <1> HIDE DEF Less
  <1>3. PICK x \in T : \A y \in T : ~(<<y, x>> \in Less) BY <1>1, WFMin
  <1>4. ASSUME NEW y \in T PROVE x <= y
    <2>1. x \in Nat /\ y \in Nat /\ ~(y < x) BY <1>2, <1>3
    <2> QED BY <2>1
  <1> QED BY <1>4

LEMMA LeastIs ==
  ASSUME NEW T \in SUBSET Nat, T # {}
  PROVE  Min(T) \in T /\ \A y \in T : Min(T) <= y
  <1>1. PICK n \in T : \A y \in T : n <= y
    BY LeastNatural
  <1> QED BY <1>1 DEF Min

LEMMA GreatestIs ==
  ASSUME NEW n \in Nat, NEW T \in SUBSET 1..n, T # {}
  PROVE  Max(T) \in T /\ \A y \in T : y <= Max(T)
  <1>1. PICK S : S = {n - x : x \in T}
    OBVIOUS
  <1>2. S \in SUBSET Nat /\ S # {}
    <2>1. \A x \in T : n - x \in Nat
      OBVIOUS
    <2>2. S \subseteq Nat
      BY <1>1, <2>1
    <2>3. PICK x : x \in T
      OBVIOUS
    <2>4. n - x \in S
      BY <1>1, <2>3
    <2> QED BY <2>2, <2>4
  <1>3. PICK z \in S : \A y \in S : z <= y
    BY <1>2, LeastNatural
  <1>4. PICK x \in T : z = n - x
    BY <1>1
  <1>5. ASSUME NEW y \in T PROVE y <= x
    <2>1. n - y \in S
      BY <1>1
    <2>2. n - x <= n - y
      BY <1>3, <1>4, <2>1
    <2> QED BY <2>2
  <1>6. \A y \in T : x >= y
    BY <1>5
  <1> QED BY <1>4, <1>6 DEF Max

LEMMA LastHeader ==
  ASSUME NEW f \in Seq(Line), NEW s, NEW i \in DOMAIN f
  PROVE  (Above(f, i) # {} /\ Max(Above(f, i)) \in Headers(f, s)) <=> Inside(f, s, i)
  <1>1. i \in Nat /\ i <= Len(f) /\ Above(f, i) \subseteq 1..i /\ i >= 1
    BY DEF Above
  <1>2. ASSUME Above(f, i) # {}, Max(Above(f, i)) \in Headers(f, s)
        PROVE  Inside(f, s, i)
    <2>1. PICK j : j = Max(Above(f, i))
      OBVIOUS
    <2>2. j \in Above(f, i) /\ \A y \in Above(f, i) : y <= j
      BY <1>1, <1>2, <2>1, GreatestIs
    <2>3. j \in 1..i /\ f[j].kind = "section" /\ f[j].name = s
      BY <1>2, <2>1, <2>2 DEF Above, Headers
    <2>4. \A m \in j + 1..i : f[m].kind # "section"
      BY <1>1, <2>2, <2>3 DEF Above
    <2> QED BY <2>3, <2>4 DEF Inside
  <1>3. ASSUME Inside(f, s, i)
        PROVE  Above(f, i) # {} /\ Max(Above(f, i)) \in Headers(f, s)
    <2>1. PICK j \in 1..i : f[j].kind = "section" /\ f[j].name = s /\ \A m \in j + 1..i : f[m].kind # "section"
      BY <1>3 DEF Inside
    <2>2. j \in Above(f, i)
      BY <2>1 DEF Above
    <2>3. PICK k : k = Max(Above(f, i))
      OBVIOUS
    <2>4. k \in Above(f, i) /\ \A y \in Above(f, i) : y <= k
      BY <1>1, <2>2, <2>3, GreatestIs
    <2>5. k = j
      BY <1>1, <2>1, <2>2, <2>4 DEF Above
    <2>6. j \in DOMAIN f
      BY <1>1
    <2> QED BY <2>1, <2>2, <2>3, <2>5, <2>6 DEF Headers
  <1> QED BY <1>2, <1>3

LEMMA EntriesAre ==
  ASSUME NEW f \in Seq(Line), NEW s, NEW k
  PROVE  Entries(f, s, k) = {i \in DOMAIN f : f[i].kind = "entry" /\ f[i].name = k /\ Inside(f, s, i)}
  BY LastHeader DEF Entries

\* What is read: the value of the first entry.
LEMMA ReadsFirst ==
  ASSUME NEW f \in Seq(Line), NEW s, NEW k, NEW d, NEW i \in Entries(f, s, k), \A j \in Entries(f, s, k) : i <= j
  PROVE  read_profile_string(s, k, d, f) = f[i].value /\ parse_file(s, k, f).key = i
  <1>1. Entries(f, s, k) \subseteq Nat /\ Entries(f, s, k) # {} /\ i \in Nat /\ i # 0
    BY DEF Entries
  <1>2. Min(Entries(f, s, k)) = i
    <2>1. PICK n : n = Min(Entries(f, s, k))
      OBVIOUS
    <2>2. n \in Entries(f, s, k) /\ n <= i
      BY <1>1, <2>1, LeastIs
    <2>3. i <= n /\ n \in Nat
      BY <1>1, <2>2
    <2> QED BY <1>1, <2>1, <2>2, <2>3
  <1>3. parse_file(s, k, f).key = i
    BY <1>1, <1>2 DEF parse_file
  <1> QED BY <1>1, <1>3 DEF read_profile_string

LEMMA ReadsNothing ==
  ASSUME NEW f, NEW s, NEW k, NEW d, Entries(f, s, k) = {}
  PROVE  read_profile_string(s, k, d, f) = d /\ parse_file(s, k, f).key = 0
         /\ parse_file(s, k, f).sec = IF Headers(f, s) = {} THEN 0 ELSE Max(Headers(f, s))
  <1>1. parse_file(s, k, f).key = 0
    BY DEF parse_file
  <1>2. parse_file(s, k, f).sec = IF Headers(f, s) = {} THEN 0 ELSE Max(Headers(f, s))
    BY DEF parse_file
  <1> QED BY <1>1, <1>2 DEF read_profile_string

LEMMA SkipsSpace ==
  ASSUME NEW f \in Seq(Line), NEW sec \in 1..Len(f), NEW rest,
         rest = SelectInSeq(SubSeq(f, sec + 1, Len(f)), LAMBDA l : l # EmptyLine)
  PROVE  /\ rest = 0 => \A n \in sec + 1..Len(f) : f[n] = EmptyLine
         /\ rest # 0 => /\ rest \in 1..Len(f) - sec
                        /\ \A n \in sec + 1..sec + rest - 1 : f[n] = EmptyLine
  <1>1. PICK g : g = SubSeq(f, sec + 1, Len(f))
    OBVIOUS
  <1>2. g \in Seq(Line) /\ Len(g) = Len(f) - sec /\ \A i \in 1..Len(f) - sec : g[i] = f[sec + i]
    BY <1>1
  <1>3. PICK I : I = {i \in 1..Len(g) : g[i] # EmptyLine}
    OBVIOUS
  <1>4. rest = IF I # {} THEN Min(I) ELSE 0
    BY <1>1, <1>3 DEF SelectInSeq
  <1>5. I \in SUBSET Nat /\ Len(f) \in Nat
    BY <1>2, <1>3
  <1>6. CASE I = {}
    <2>1. rest = 0 /\ \A i \in 1..Len(f) - sec : f[sec + i] = EmptyLine
      BY <1>2, <1>3, <1>4, <1>6
    <2>2. ASSUME NEW n \in sec + 1..Len(f) PROVE f[n] = EmptyLine
      <3>1. n - sec \in 1..Len(f) - sec /\ sec + (n - sec) = n
        BY <1>5
      <3> QED BY <2>1, <3>1
    <2> QED BY <2>1, <2>2
  <1>7. CASE I # {}
    <2>1. rest \in I /\ \A i \in I : rest <= i
      <3>1. I \in SUBSET Nat /\ I # {}
        BY <1>3, <1>5, <1>7
      <3>2. Min(I) \in I /\ \A i \in I : Min(I) <= i
        BY ONLY <3>1, LeastIs
      <3> QED BY ONLY <1>4, <1>7, <3>2
    <2>2. rest \in 1..Len(f) - sec
      BY <1>2, <1>3, <2>1
    <2>3. ASSUME NEW n \in sec + 1..sec + rest - 1 PROVE f[n] = EmptyLine
      <3>1. n - sec \in 1..Len(f) - sec /\ sec + (n - sec) = n /\ n - sec < rest
        BY <1>5, <2>2
      <3>2. n - sec \notin I
        <4>1. rest \in Nat
          BY <1>5, <2>2
        <4>2. n - sec \in I => rest <= n - sec
          BY <2>1
        <4> QED BY <1>5, <3>1, <4>1, <4>2
      <3> QED BY <1>2, <1>3, <3>1, <3>2
    <2>4. rest # 0
      BY <1>5, <2>2
    <2> QED BY <2>2, <2>3, <2>4
  <1> QED BY <1>6, <1>7

LEMMA Joined ==
  ASSUME NEW S, NEW a \in Seq(S), NEW b \in Seq(S), NEW c, c = a \o b
  PROVE  /\ c \in Seq(S) /\ Len(c) = Len(a) + Len(b)
         /\ \A i \in 1..Len(a) : c[i] = a[i]
         /\ \A i \in 1..Len(b) : c[Len(a) + i] = b[i]
  OBVIOUS

LEMMA Inserted ==
  ASSUME NEW f \in Seq(Line), NEW pos \in 1..Len(f) + 1, NEW e \in Line, NEW w, w = InsertAt(f, pos, e)
  PROVE  /\ w \in Seq(Line) /\ Len(w) = Len(f) + 1 /\ w[pos] = e
         /\ \A i \in 1..pos - 1 : w[i] = f[i]
         /\ \A i \in pos..Len(f) : w[i + 1] = f[i]
  <1>1. PICK a, b, c : a = SubSeq(f, 1, pos - 1) /\ b = <<e>> /\ c = SubSeq(f, pos, Len(f))
    OBVIOUS
  <1>2. a \in Seq(Line) /\ Len(a) = pos - 1 /\ \A i \in 1..pos - 1 : a[i] = f[i]
    BY <1>1
  <1>3. b \in Seq(Line) /\ Len(b) = 1 /\ b[1] = e
    BY <1>1
  <1>4. c \in Seq(Line) /\ Len(c) = Len(f) - pos + 1 /\ \A i \in 1..Len(f) - pos + 1 : c[i] = f[pos + i - 1]
    BY <1>1
  <1>5. w = (a \o b) \o c
    BY <1>1 DEF InsertAt
  <1>6. PICK x : x = a \o b
    OBVIOUS
  <1>7. x \in Seq(Line) /\ Len(x) = pos /\ x[pos] = e /\ \A i \in 1..pos - 1 : x[i] = f[i]
    <2>1. x \in Seq(Line) /\ Len(x) = Len(a) + Len(b) /\ x[Len(a) + 1] = b[1] /\ \A i \in 1..Len(a) : x[i] = a[i]
      <3>0. a \in Seq(Line) /\ b \in Seq(Line)
        BY <1>2, <1>3
      <3>1. x \in Seq(Line) /\ Len(x) = Len(a) + Len(b) /\ \A i \in 1..Len(a) : x[i] = a[i]
        BY ONLY <3>0, <1>6, Joined
      <3>2. \A i \in 1..Len(b) : x[Len(a) + i] = b[i]
        BY ONLY <3>0, <1>6, Joined
      <3>3. 1 \in 1..Len(b)
        BY <1>3
      <3> QED BY <3>1, <3>2, <3>3
    <2> QED BY <1>2, <1>3, <2>1
  <1>8. w = x \o c
    BY <1>5, <1>6
  <1>9. w \in Seq(Line) /\ Len(w) = Len(f) + 1
    <2>1. w \in Seq(Line) /\ Len(w) = Len(x) + Len(c)
      BY <1>4, <1>7, <1>8, Joined
    <2> QED BY <1>4, <1>7, <2>1
  <1>10. \A i \in 1..pos : w[i] = x[i]
    BY <1>4, <1>7, <1>8, Joined
  <1>11. ASSUME NEW i \in pos..Len(f) PROVE w[i + 1] = f[i]
    <2>1. i + 1 - pos \in 1..Len(c) /\ (i + 1) = Len(x) + (i + 1 - pos) /\ pos + (i + 1 - pos) - 1 = i
      BY <1>4, <1>7
    <2>2. w[i + 1] = c[i + 1 - pos]
      BY <1>4, <1>7, <1>8, <2>1, Joined
    <2>3. c[i + 1 - pos] = f[pos + (i + 1 - pos) - 1]
      BY <1>4, <2>1
    <2> QED BY <2>1, <2>2, <2>3
  <1> QED BY <1>7, <1>9, <1>10, <1>11

\* The entries of a key are found anew, one line further down.
LEMMA InsertKeeps ==
  ASSUME NEW f \in Seq(Line), NEW pos \in 1..Len(f) + 1, NEW e \in Line, e.kind = "entry",
         NEW w, w = InsertAt(f, pos, e), NEW s, NEW k, k # e.name, NEW d
  PROVE  read_profile_string(s, k, d, w) = read_profile_string(s, k, d, f)
  <1>1. /\ w \in Seq(Line) /\ Len(w) = Len(f) + 1 /\ w[pos] = e /\ Len(f) \in Nat
        /\ \A i \in 1..pos - 1 : w[i] = f[i]
        /\ \A i \in pos..Len(f) : w[i + 1] = f[i]
    BY Inserted
  <1> DEFINE Shifted(i) == IF i < pos THEN i ELSE i + 1
  <1>2. \A i \in 1..Len(f) : Shifted(i) \in 1..Len(w) /\ w[Shifted(i)] = f[i] /\ Shifted(i) # pos
    BY <1>1
  <1>3. \A n \in 1..Len(w) : n # pos => \E i \in 1..Len(f) : n = Shifted(i)
    <2>1. ASSUME NEW n \in 1..Len(w), n # pos PROVE \E i \in 1..Len(f) : n = Shifted(i)
      <3>1. CASE n < pos
        <4>1. n \in 1..Len(f) /\ n = Shifted(n)
          BY <1>1, <3>1
        <4> QED BY <4>1
      <3>2. CASE n > pos
        <4>1. n - 1 \in 1..Len(f) /\ n = Shifted(n - 1)
          BY <1>1, <3>2
        <4> QED BY <4>1
      <3> QED BY <1>1, <2>1, <3>1, <3>2
    <2> QED BY <2>1
  <1>4. \A i, j \in 1..Len(f) : i <= j <=> Shifted(i) <= Shifted(j)
    BY <1>1
  <1> HIDE DEF Shifted
  <1>5. ASSUME NEW i \in 1..Len(f) PROVE Inside(f, s, i) <=> Inside(w, s, Shifted(i))
    <2>1. ASSUME Inside(f, s, i) PROVE Inside(w, s, Shifted(i))
      <3>1. PICK j \in 1..i : f[j].kind = "section" /\ f[j].name = s /\ \A m \in j + 1..i : f[m].kind # "section"
        BY <2>1 DEF Inside
      <3>2. j \in 1..Len(f) /\ Shifted(j) \in 1..Shifted(i)
        BY <1>1, <1>2, <1>4
      <3>3. ASSUME NEW n \in Shifted(j) + 1..Shifted(i) PROVE w[n].kind # "section"
        <4>1. n \in 1..Len(w)
          BY <1>1, <1>2, <3>2
        <4>2. CASE n = pos
          BY <1>1, <4>2
        <4>3. CASE n # pos
          <5>1. PICK m \in 1..Len(f) : n = Shifted(m)
            BY <1>3, <4>1, <4>3
          <5>2. m <= i /\ ~(m <= j)
            BY <1>2, <1>4, <3>2, <3>3, <5>1
          <5>3. m \in j + 1..i
            BY <1>1, <3>2, <5>2
          <5> QED BY <1>2, <3>1, <5>1, <5>3
        <4> QED BY <4>2, <4>3
      <3>4. w[Shifted(j)].kind = "section" /\ w[Shifted(j)].name = s
        BY <1>2, <3>1, <3>2
      <3> QED BY <3>2, <3>3, <3>4 DEF Inside
    <2>2. ASSUME Inside(w, s, Shifted(i)) PROVE Inside(f, s, i)
      <3>1. PICK n \in 1..Shifted(i) : w[n].kind = "section" /\ w[n].name = s /\ \A m \in n + 1..Shifted(i) : w[m].kind # "section"
        BY <2>2 DEF Inside
      <3>2. n \in 1..Len(w) /\ n # pos
        BY <1>1, <1>2, <3>1
      <3>3. PICK j \in 1..Len(f) : n = Shifted(j)
        BY <1>3, <3>2
      <3>4. j \in 1..i
        BY <1>1, <1>2, <1>4, <3>3
      <3>5. ASSUME NEW m \in j + 1..i PROVE f[m].kind # "section"
        <4>1. m \in 1..Len(f) /\ m <= i /\ ~(m <= j)
          BY <1>1, <3>3
        <4>2. Shifted(m) <= Shifted(i) /\ ~(Shifted(m) <= Shifted(j))
          BY <1>4, <4>1
        <4>3. Shifted(m) \in n + 1..Shifted(i)
          BY <1>2, <3>3, <4>1, <4>2
        <4> QED BY <1>2, <3>1, <4>1, <4>3
      <3> QED BY <1>2, <3>1, <3>3, <3>4, <3>5 DEF Inside
    <2> QED BY <2>1, <2>2
  <1>6. \A i \in 1..Len(f) : i \in Entries(f, s, k) <=> Shifted(i) \in Entries(w, s, k)
    BY <1>1, <1>2, <1>5, EntriesAre
  <1>7. pos \notin Entries(w, s, k)
    BY <1>1, EntriesAre
  <1>8. Entries(f, s, k) \in SUBSET Nat /\ Entries(f, s, k) \subseteq 1..Len(f) /\ Entries(w, s, k) \subseteq 1..Len(w)
    BY <1>1 DEF Entries
  <1>9. CASE Entries(f, s, k) = {}
    <2>1. Entries(w, s, k) = {}
      BY <1>3, <1>6, <1>7, <1>8, <1>9
    <2> QED BY <1>9, <2>1, ReadsNothing
  <1>10. CASE Entries(f, s, k) # {}
    <2>1. PICK i \in Entries(f, s, k) : \A j \in Entries(f, s, k) : i <= j
      BY <1>8, <1>10, LeastNatural
    <2>2. Shifted(i) \in Entries(w, s, k) /\ w[Shifted(i)] = f[i] /\ i \in 1..Len(f)
      BY <1>2, <1>6, <1>8, <2>1
    <2>3. ASSUME NEW n \in Entries(w, s, k) PROVE Shifted(i) <= n
      <3>1. PICK j \in 1..Len(f) : n = Shifted(j)
        BY <1>3, <1>7, <1>8
      <3>2. i <= j
        BY <1>6, <2>1, <3>1
      <3> QED BY <1>4, <2>2, <3>1, <3>2
    <2>4. read_profile_string(s, k, d, w) = w[Shifted(i)].value
      <3>1. PICK n \in Entries(w, s, k) : n = Shifted(i)
        BY <2>2
      <3>2. read_profile_string(s, k, d, w) = w[n].value
        BY <1>1, <2>3, <3>1, ReadsFirst
      <3> QED BY <3>1, <3>2
    <2>5. read_profile_string(s, k, d, f) = f[i].value
      BY <2>1, ReadsFirst
    <2> QED BY <2>2, <2>4, <2>5
  <1> QED BY <1>9, <1>10

NoHeader(f, s) == Headers(f, s) = {}
NoEntry(f, s, k) == Entries(f, s, k) = {}
\* Between the header and a position there are only empty lines.
Below(f, s, sec, pos) ==
  sec \in 1..pos - 1 /\ f[sec].kind = "section" /\ f[sec].name = s /\ \A i \in sec + 1..pos - 1 : f[i] = EmptyLine
First(f, s, k, i) == i \in Entries(f, s, k) /\ \A j \in Entries(f, s, k) : i <= j
Replaced(f, i, v) == [f EXCEPT ![i].value = v]
Appended(f, a, s, e) == f \o a \o <<SectionLine(s), e>>
Updated(f, w, s, k, v) ==
  /\ w \in Seq(Line) /\ \A d : read_profile_string(s, k, d, w) = v
  /\ \A k2 : k2 # k => \A d : read_profile_string(s, k2, d, w) = read_profile_string(s, k2, d, f)

\* A new entry right below its header is read.
LEMMA InsertUpdates ==
  ASSUME NEW f \in Seq(Line), NEW pos \in 1..Len(f) + 1, NEW s, NEW k \in Labels, NEW v \in Seq(Nat), NoEntry(f, s, k),
         NEW sec, Below(f, s, sec, pos), NEW e, e = EntryLine(k, v), NEW w, w = InsertAt(f, pos, e)
  PROVE  Updated(f, w, s, k, v)
  <1>1. e \in Line /\ e.kind = "entry" /\ e.name = k /\ e.value = v
    BY DEF EntryLine, Line
  <1>5. /\ sec \in 1..pos - 1 /\ f[sec].kind = "section" /\ f[sec].name = s
        /\ \A i \in sec + 1..pos - 1 : f[i] = EmptyLine
    BY DEF Below
  <1>6. /\ w \in Seq(Line) /\ Len(w) = Len(f) + 1 /\ w[pos] = e /\ Len(f) \in Nat
        /\ \A i \in 1..pos - 1 : w[i] = f[i]
        /\ \A i \in pos..Len(f) : w[i + 1] = f[i]
    BY <1>1, Inserted, SMTT(40)
  <1>2. Inside(w, s, pos)
    <2>1. sec \in 1..pos /\ w[sec].kind = "section" /\ w[sec].name = s
      BY <1>5, <1>6
    <2>2. ASSUME NEW i \in sec + 1..pos PROVE w[i].kind # "section"
      <3>1. CASE i = pos
        BY <1>1, <1>6, <3>1
      <3>2. CASE i # pos
        <4>1. i \in sec + 1..pos - 1 /\ i \in 1..pos - 1
          BY <1>5, <1>6, <3>2
        <4>2. w[i] = EmptyLine
          BY <1>5, <1>6, <4>1
        <4>3. EmptyLine.kind = "other"
          BY ONLY DEF EmptyLine
        <4> QED BY ONLY <4>2, <4>3
      <3> QED BY <3>1, <3>2
    <2> QED BY <2>1, <2>2 DEF Inside
  <1>3. pos \in Entries(w, s, k)
    BY <1>1, <1>6, <1>2, EntriesAre
  <1>4. ASSUME NEW n \in Entries(w, s, k) PROVE pos <= n
    <2>1. n \in 1..Len(w) /\ w[n].kind = "entry" /\ w[n].name = k /\ Inside(w, s, n)
      BY <1>5, <1>6, EntriesAre
    <2>2. SUFFICES ASSUME n < pos PROVE FALSE
      BY <1>5, <1>6, <2>1
    <2>3. n \in 1..pos - 1 /\ n \in 1..Len(f) /\ w[n] = f[n]
      BY <1>5, <1>6, <2>1, <2>2
    <2>4. PICK j \in 1..n : w[j].kind = "section" /\ w[j].name = s /\ \A m \in j + 1..n : w[m].kind # "section"
      BY <2>1 DEF Inside
    <2>5. f[j].kind = "section" /\ f[j].name = s /\ \A m \in j + 1..n : f[m].kind # "section"
      <3>1. \A m \in 1..n : m \in 1..pos - 1
        BY <2>3
      <3>2. \A m \in j + 1..n : m \in 1..n
        BY <2>3
      <3> QED BY <1>5, <1>6, <2>4, <3>1, <3>2
    <2>6. Inside(f, s, n)
      BY <2>5 DEF Inside
    <2>7. n \in Entries(f, s, k)
      BY ONLY <2>1, <2>3, <2>6, EntriesAre, f \in Seq(Line)
    <2> QED BY <2>7 DEF NoEntry
  <1>7. ASSUME NEW d PROVE read_profile_string(s, k, d, w) = v
    <2>1. read_profile_string(s, k, d, w) = w[pos].value
      BY ONLY <1>3, <1>4, <1>6, ReadsFirst
    <2> QED BY <1>1, <1>6, <2>1
  <1>8. ASSUME NEW d, NEW k2, k2 # k PROVE read_profile_string(s, k2, d, w) = read_profile_string(s, k2, d, f)
    BY <1>1, <1>8, InsertKeeps, SMTT(40)
  <1> QED BY <1>6, <1>7, <1>8 DEF Updated

\* An entry with a new value.
LEMMA ReplaceUpdates ==
  ASSUME NEW f \in Seq(Line), NEW s, NEW k, NEW i, First(f, s, k, i), NEW v \in Seq(Nat), NEW w, w = Replaced(f, i, v)
  PROVE  Updated(f, w, s, k, v)
  <1>0. i \in Entries(f, s, k) /\ \A j \in Entries(f, s, k) : i <= j
    BY DEF First
  <1>1. i \in 1..Len(f) /\ f[i].kind = "entry" /\ f[i].name = k /\ f[i] \in Line /\ Len(f) \in Nat
    BY <1>0, EntriesAre
  <1>2. PICK e : e = [f[i] EXCEPT !.value = v]
    OBVIOUS
  <1>3. e \in Line /\ e.kind = f[i].kind /\ e.name = f[i].name /\ e.value = v
    BY <1>1, <1>2 DEF Line
  <1>4. w = [f EXCEPT ![i] = e]
    BY <1>2 DEF Replaced
  <1>5. w \in Seq(Line) /\ Len(w) = Len(f) /\ w[i] = e /\ \A n \in 1..Len(f) : n # i => w[n] = f[n]
    BY ONLY <1>1, <1>3, <1>4, f \in Seq(Line)
  <1>6. \A n \in 1..Len(f) : w[n].kind = f[n].kind /\ w[n].name = f[n].name
    BY <1>3, <1>5
  <1>7. ASSUME NEW n \in 1..Len(f) PROVE Inside(w, s, n) <=> Inside(f, s, n)
    <2>1. \A m \in 1..n : m \in 1..Len(f)
      BY <1>1
    <2>2. \A j \in 1..n : \A m \in j + 1..n : m \in 1..Len(f)
      BY <1>1
    <2> QED BY ZenonT(60), <1>6, <2>1, <2>2 DEF Inside
  <1>8. ASSUME NEW x PROVE Entries(w, s, x) = Entries(f, s, x)
    <2>1. Entries(w, s, x) = {n \in 1..Len(f) : w[n].kind = "entry" /\ w[n].name = x /\ Inside(w, s, n)}
      BY ONLY <1>5, EntriesAre
    <2>2. Entries(f, s, x) = {n \in 1..Len(f) : f[n].kind = "entry" /\ f[n].name = x /\ Inside(f, s, n)}
      BY ONLY EntriesAre, f \in Seq(Line)
    <2> QED BY ONLY <1>6, <1>7, <2>1, <2>2
  <1>9. ASSUME NEW d PROVE read_profile_string(s, k, d, w) = v
    <2>1. i \in Entries(w, s, k) /\ \A j \in Entries(w, s, k) : i <= j
      BY ONLY <1>0, <1>8
    <2>2. read_profile_string(s, k, d, w) = w[i].value
      BY ONLY <1>5, <2>1, ReadsFirst
    <2> QED BY ONLY <1>3, <1>5, <2>2
  <1>10. ASSUME NEW d, NEW k2, k2 # k PROVE read_profile_string(s, k2, d, w) = read_profile_string(s, k2, d, f)
    <2>1. CASE Entries(f, s, k2) = {}
      BY ONLY <1>8, <2>1, ReadsNothing
    <2>2. CASE Entries(f, s, k2) # {}
      <3>1. Entries(f, s, k2) \in SUBSET Nat
        BY DEF Entries
      <3>2. PICK n \in Entries(f, s, k2) : \A j \in Entries(f, s, k2) : n <= j
        BY <2>2, <3>1, LeastNatural
      <3>3. n \in 1..Len(f) /\ n # i
        BY <1>1, <1>10, EntriesAre
      <3>4. read_profile_string(s, k2, d, f) = f[n].value
        BY <3>2, ReadsFirst
      <3>5. n \in Entries(w, s, k2) /\ \A j \in Entries(w, s, k2) : n <= j
        BY <1>8, <3>2
      <3>6. read_profile_string(s, k2, d, w) = w[n].value
        BY ONLY <1>5, <3>5, ReadsFirst
      <3> QED BY <1>5, <3>3, <3>4, <3>6
    <2> QED BY <2>1, <2>2
  <1> QED BY <1>5, <1>9, <1>10 DEF Updated

\* A section of its own behind all that is there.
LEMMA AppendUpdates ==
  ASSUME NEW f \in Seq(Line), NEW s \in Labels, NoHeader(f, s), NEW a \in Seq(Line), a \in {<<>>, <<EmptyLine>>},
         NEW k \in Labels, NEW v \in Seq(Nat), NEW e, e = EntryLine(k, v), NEW w, w = Appended(f, a, s, e)
  PROVE  Updated(f, w, s, k, v)
  <1>0. /\ Headers(f, s) = {} /\ (a = <<>> \/ a = <<EmptyLine>>)
        /\ e \in Line /\ e.kind = "entry" /\ e.name = k /\ e.value = v
    BY DEF EntryLine, Line, NoHeader
  <1>1. PICK h : h = f \o a
    OBVIOUS
  <1>2. /\ h \in Seq(Line) /\ Len(h) \in Nat
        /\ \A i \in 1..Len(h) : h[i] = EmptyLine \/ (i \in 1..Len(f) /\ h[i] = f[i])
    <2>1. CASE a = <<>>
      <3>1. h = f
        BY <1>1, <2>1
      <3> QED BY <3>1
    <2>2. CASE a = <<EmptyLine>>
      <3>1. Len(a) = 1 /\ a[1] = EmptyLine
        BY <2>2
      <3>2. h \in Seq(Line) /\ Len(h) = Len(f) + Len(a) /\ \A i \in 1..Len(f) : h[i] = f[i]
        BY <1>1, Joined
      <3>3. \A i \in 1..Len(a) : h[Len(f) + i] = a[i]
        BY <1>1, Joined
      <3>4. h[Len(f) + 1] = EmptyLine
        BY <3>1, <3>3
      <3> QED BY <3>1, <3>2, <3>4
    <2> QED BY <1>0, <2>1, <2>2
  <1>3. PICK c : c = <<SectionLine(s), e>>
    OBVIOUS
  <1>4. c \in Seq(Line) /\ Len(c) = 2 /\ c[1] = SectionLine(s) /\ c[2] = e
    <2>1. <<>> \in Seq(Nat)
      OBVIOUS
    <2>2. SectionLine(s) \in Line
      BY <2>1 DEF SectionLine, Line
    <2> QED BY <1>0, <1>3, <2>2
  <1>5. w = h \o c
    BY <1>1, <1>3 DEF Appended
  <1>6. /\ w \in Seq(Line) /\ Len(w) = Len(h) + 2 /\ w[Len(h) + 1] = SectionLine(s) /\ w[Len(h) + 2] = e
        /\ \A i \in 1..Len(h) : w[i] = h[i]
    <2>0. h \in Seq(Line) /\ c \in Seq(Line)
      BY <1>2, <1>4
    <2>1. w \in Seq(Line) /\ Len(w) = Len(h) + Len(c) /\ \A i \in 1..Len(h) : w[i] = h[i]
      BY ONLY <2>0, <1>5, Joined
    <2>2. \A i \in 1..Len(c) : w[Len(h) + i] = c[i]
      BY ONLY <2>0, <1>5, Joined
    <2>3. 1 \in 1..Len(c) /\ 2 \in 1..Len(c)
      BY <1>4
    <2> QED BY <1>4, <2>1, <2>2, <2>3
  <1>7. ASSUME NEW i \in 1..Len(h) PROVE ~(w[i].kind = "section" /\ w[i].name = s)
    <2>1. CASE h[i] = EmptyLine
      <3>1. EmptyLine.kind = "other"
        BY ONLY DEF EmptyLine
      <3> QED BY ONLY <1>6, <2>1, <3>1
    <2>2. CASE i \in 1..Len(f) /\ h[i] = f[i]
      BY <1>0, <1>6, <2>2 DEF Headers
    <2> QED BY <1>2, <2>1, <2>2
  <1>8. ASSUME NEW i \in 1..Len(w), NEW any, i \in Entries(w, s, any) PROVE i = Len(h) + 2
    <2>1. Inside(w, s, i) /\ w[i].kind = "entry"
      BY ONLY <1>6, <1>8, EntriesAre
    <2>2. PICK j \in 1..i : w[j].kind = "section" /\ w[j].name = s
      BY <2>1 DEF Inside
    <2>3. j \notin 1..Len(h)
      BY <1>7, <2>2
    <2>4. i # Len(h) + 1
      BY <1>6, <2>1 DEF SectionLine
    <2> QED BY <1>2, <1>6, <2>3, <2>4
  <1>9. Inside(w, s, Len(h) + 2)
    <2>1. Len(h) + 1 \in 1..Len(h) + 2
      BY <1>2
    <2>2. w[Len(h) + 1].kind = "section" /\ w[Len(h) + 1].name = s
      BY <1>6 DEF SectionLine
    <2>3. \A m \in Len(h) + 1 + 1..Len(h) + 2 : w[m].kind # "section"
      BY <1>0, <1>2, <1>6
    <2> QED BY <2>1, <2>2, <2>3 DEF Inside
  <1>10. Len(h) + 2 \in Entries(w, s, k)
    <2>1. Len(h) + 2 \in DOMAIN w
      BY ONLY <1>2, <1>6
    <2>2. PICK n \in DOMAIN w : n = Len(h) + 2
      BY <2>1
    <2>3. w[n] = e /\ Inside(w, s, n) /\ w \in Seq(Line)
      BY ONLY <1>6, <1>9, <2>2
    <2>4. n \in Entries(w, s, k)
      BY ONLY <2>2, <2>3, EntriesAre, <1>0
    <2> QED BY <2>2, <2>4
  <1>11. ASSUME NEW d PROVE read_profile_string(s, k, d, w) = v
    <2>1. \A i \in Entries(w, s, k) : i \in 1..Len(w)
      BY <1>6 DEF Entries
    <2>2. PICK n \in Entries(w, s, k) : n = Len(h) + 2
      BY <1>10
    <2>3. \A i \in Entries(w, s, k) : n <= i
      BY ONLY <1>2, <1>8, <2>1, <2>2
    <2>4. read_profile_string(s, k, d, w) = w[n].value
      BY ONLY <1>6, <2>2, <2>3, ReadsFirst
    <2> QED BY <1>0, <1>6, <2>2, <2>4
  <1>12. ASSUME NEW d, NEW k2, k2 # k PROVE read_profile_string(s, k2, d, w) = read_profile_string(s, k2, d, f)
    <2>1. Entries(f, s, k2) = {}
      <3>1. \A i \in 1..Len(f) : ~Inside(f, s, i)
        BY <1>0 DEF Inside, Headers
      <3>2. f \in Seq(Line) /\ DOMAIN f = 1..Len(f)
        OBVIOUS
      <3>3. Entries(f, s, k2) = {i \in DOMAIN f : f[i].kind = "entry" /\ f[i].name = k2 /\ Inside(f, s, i)}
        BY ONLY <3>2, EntriesAre
      <3> QED BY ONLY <3>1, <3>2, <3>3
    <2>2. Entries(w, s, k2) = {}
      <3>1. ASSUME NEW i \in Entries(w, s, k2) PROVE FALSE
        <4>1. i \in 1..Len(w) /\ w[i].name = k2
          BY <1>6 DEF Entries
        <4>2. i = Len(h) + 2
          BY <1>8, <4>1
        <4> QED BY <1>0, <1>6, <1>12, <4>1, <4>2
      <3> QED BY <3>1
    <2> QED BY <2>1, <2>2, ReadsNothing
  <1> QED BY <1>6, <1>11, <1>12 DEF Updated

\* What was written is read, and what other keys have stays.
LEMMA ReadAfterWrite ==
  ASSUME NEW f \in Seq(Line), NEW s \in Labels, NEW k \in Labels, NEW v \in Seq(Nat)
  PROVE  Updated(f, write_profile_string(s, k, v, f), s, k, v)
<1>1. PICK e : e = EntryLine(k, v)
  OBVIOUS
<1>3. PICK at : at = parse_file(s, k, f)
  OBVIOUS
<1>4. PICK rest : rest = SelectInSeq(SubSeq(f, at.sec + 1, Len(f)), LAMBDA l : l # EmptyLine)
  OBVIOUS
<1>5. PICK pos : pos = IF rest = 0 THEN Len(f) + 1 ELSE at.sec + rest
  OBVIOUS
<1>2. PICK a : a = IF f = <<>> THEN <<>> ELSE <<EmptyLine>>
  OBVIOUS
<1>10. PICK w : w = write_profile_string(s, k, v, f)
  OBVIOUS
<1>6. w = IF at.sec = 0 THEN Appended(f, a, s, e)
          ELSE IF at.key = 0 THEN InsertAt(f, pos, e)
          ELSE Replaced(f, at.key, v)
  BY <1>1, <1>2, <1>3, <1>4, <1>5, <1>10 DEF write_profile_string, Appended, Replaced
<1>7. Headers(f, s) \in SUBSET Nat /\ Headers(f, s) \in SUBSET 1..Len(f) /\ Len(f) \in Nat
  BY DEF Headers
<1>8. CASE Entries(f, s, k) = {}
  <2>1. at.key = 0 /\ at.sec = IF Headers(f, s) = {} THEN 0 ELSE Max(Headers(f, s))
    BY ONLY <1>3, <1>8, ReadsNothing
  <2>2. CASE Headers(f, s) = {}
    <3>1. NoHeader(f, s)
      BY <2>2 DEF NoHeader
    <3>2. a \in {<<>>, <<EmptyLine>>}
      BY ONLY <1>2
    <3>3. a \in Seq(Line)
      <4>1. EmptyLine \in Line
        <5>1. <<>> \in Seq(Nat)
          OBVIOUS
        <5> QED BY ONLY <5>1 DEF EmptyLine, Line, Labels
      <4>2. <<>> \in Seq(Line) /\ <<EmptyLine>> \in Seq(Line)
        BY ONLY <4>1
      <4> QED BY ONLY <3>2, <4>2
    <3>4. w = Appended(f, a, s, e)
      BY ONLY <1>6, <2>1, <2>2
    <3>5. Updated(f, w, s, k, v)
      BY <1>1, <3>1, <3>2, <3>3, <3>4, AppendUpdates
    <3> QED BY <1>10, <3>5
  <2>3. CASE Headers(f, s) # {}
    <3>1. PICK sec : sec = at.sec
      OBVIOUS
    <3>2. sec \in Headers(f, s)
      BY ONLY <1>7, <2>1, <2>3, <3>1, GreatestIs
    <3>3. sec \in 1..Len(f) /\ f[sec].kind = "section" /\ f[sec].name = s /\ sec # 0
      BY ONLY <1>7, <3>2 DEF Headers
    <3>4. /\ rest = 0 => \A n \in sec + 1..Len(f) : f[n] = EmptyLine
          /\ rest # 0 => /\ rest \in 1..Len(f) - sec
                         /\ \A n \in sec + 1..sec + rest - 1 : f[n] = EmptyLine
      BY <1>4, <3>1, <3>3, SkipsSpace
    <3>5. pos \in 1..Len(f) + 1 /\ Below(f, s, sec, pos)
      <4>1. CASE rest = 0
        <5>1. pos = Len(f) + 1 /\ pos - 1 = Len(f)
          BY ONLY <1>5, <1>7, <4>1
        <5> QED BY ONLY <1>7, <3>3, <3>4, <4>1, <5>1 DEF Below
      <4>2. CASE rest # 0
        <5>1. pos = sec + rest
          BY ONLY <1>5, <3>1, <4>2
        <5> QED BY ONLY <1>7, <3>3, <3>4, <4>2, <5>1 DEF Below
      <4> QED BY <4>1, <4>2
    <3>6. w = InsertAt(f, pos, e)
      BY ONLY <1>6, <2>1, <3>1, <3>3
    <3>7. NoEntry(f, s, k)
      BY <1>8 DEF NoEntry
    <3>8. Updated(f, w, s, k, v)
      BY <1>1, <3>5, <3>6, <3>7, InsertUpdates
    <3> QED BY <1>10, <3>8
  <2> QED BY <2>2, <2>3
<1>9. CASE Entries(f, s, k) # {}
  <2>1. Entries(f, s, k) \in SUBSET Nat
    BY DEF Entries
  <2>2. PICK i \in Entries(f, s, k) : \A j \in Entries(f, s, k) : i <= j
    BY ONLY <1>9, <2>1, LeastNatural
  <2>3. at.key = i /\ i # 0
    <3>1. at.key = i
      BY ONLY ZenonT(60), <1>3, <2>2, ReadsFirst, f \in Seq(Line)
    <3>2. i \in DOMAIN f
      BY <2>2 DEF Entries
    <3> QED BY <1>7, <3>1, <3>2
  <2>4. at.sec # 0
    <3>1. at.sec = Max(Above(f, i))
      BY <1>3, <2>3 DEF parse_file
    <3>2. Max(Above(f, i)) \in Headers(f, s)
      BY <2>2 DEF Entries
    <3> QED BY <1>7, <3>1, <3>2
  <2>5. w = Replaced(f, i, v)
    BY ONLY <1>6, <2>3, <2>4
  <2>6. First(f, s, k, i)
    BY <2>2 DEF First
  <2>7. Updated(f, w, s, k, v)
    BY <2>5, <2>6, ReplaceUpdates
  <2> QED BY <1>10, <2>7
<1> QED BY <1>8, <1>9

-----------------------------------------------------------------------------
(* The conversions: xor and base64                                         *)

\* The bits of a byte make it up again.
LEMMA BitsMake ==
  ASSUME NEW x \in 0..255
  PROVE  /\ x = Bit(x, 1) + 2 * Bit(x, 2) + 4 * Bit(x, 4) + 8 * Bit(x, 8) + 16 * Bit(x, 16)
                + 32 * Bit(x, 32) + 64 * Bit(x, 64) + 128 * Bit(x, 128)
         /\ \A w \in {1, 2, 4, 8, 16, 32, 64, 128} : Bit(x, w) \in 0..1
  BY DEF Bit

LEMMA BitsOf ==
  ASSUME NEW a \in 0..1, NEW b \in 0..1, NEW c \in 0..1, NEW d \in 0..1,
         NEW e \in 0..1, NEW f \in 0..1, NEW g \in 0..1, NEW h \in 0..1, NEW x,
         x = a + 2 * b + 4 * c + 8 * d + 16 * e + 32 * f + 64 * g + 128 * h
  PROVE  /\ x \in 0..255
         /\ Bit(x, 1) = a /\ Bit(x, 2) = b /\ Bit(x, 4) = c /\ Bit(x, 8) = d
         /\ Bit(x, 16) = e /\ Bit(x, 32) = f /\ Bit(x, 64) = g /\ Bit(x, 128) = h
  BY DEF Bit

Sum2(a, b) == (a + b) % 2

LEMMA XorIsOwnInverse ==
  ASSUME NEW x \in 0..255, NEW y \in 0..255
  PROVE  Xor(x, y) \in 0..255 /\ Xor(Xor(x, y), y) = x
<1> DEFINE s(w) == Sum2(Bit(x, w), Bit(y, w))
<1> PICK z : z = Xor(x, y)
  OBVIOUS
<1>2. \A w \in {1, 2, 4, 8, 16, 32, 64, 128} : Bit(x, w) \in 0..1 /\ Bit(y, w) \in 0..1
  BY SMTT(30), BitsMake
<1>1. z = s(1) + 2 * s(2) + 4 * s(4) + 8 * s(8) + 16 * s(16) + 32 * s(32) + 64 * s(64) + 128 * s(128)
  <2>1. \A w \in {1, 2, 4, 8, 16, 32, 64, 128} : Bit(x, w) \in Int /\ Bit(y, w) \in Int
    BY <1>2
  <2> QED BY <2>1 DEF Xor, Sum2
<1>3. \A w \in {1, 2, 4, 8, 16, 32, 64, 128} : s(w) \in 0..1
  BY <1>2 DEF Sum2
<1>4. \A w \in {1, 2, 4, 8, 16, 32, 64, 128} : Sum2(s(w), Bit(y, w)) = Bit(x, w)
  BY <1>2 DEF Sum2
<1> HIDE DEF s
<1>5. z \in 0..255 /\ \A w \in {1, 2, 4, 8, 16, 32, 64, 128} : Bit(z, w) = s(w)
  <2>1. s(1) \in 0..1 /\ s(2) \in 0..1 /\ s(4) \in 0..1 /\ s(8) \in 0..1
        /\ s(16) \in 0..1 /\ s(32) \in 0..1 /\ s(64) \in 0..1 /\ s(128) \in 0..1
    BY ONLY <1>3
  <2>2. /\ z \in 0..255
        /\ Bit(z, 1) = s(1) /\ Bit(z, 2) = s(2) /\ Bit(z, 4) = s(4) /\ Bit(z, 8) = s(8)
        /\ Bit(z, 16) = s(16) /\ Bit(z, 32) = s(32) /\ Bit(z, 64) = s(64) /\ Bit(z, 128) = s(128)
    BY ONLY <1>1, <2>1, BitsOf
  <2> QED BY ONLY <2>2
<1>6. Xor(z, y) = Sum2(s(1), Bit(y, 1)) + 2 * Sum2(s(2), Bit(y, 2)) + 4 * Sum2(s(4), Bit(y, 4))
        + 8 * Sum2(s(8), Bit(y, 8)) + 16 * Sum2(s(16), Bit(y, 16)) + 32 * Sum2(s(32), Bit(y, 32))
        + 64 * Sum2(s(64), Bit(y, 64)) + 128 * Sum2(s(128), Bit(y, 128))
  <2>1. \A w \in {1, 2, 4, 8, 16, 32, 64, 128} : Bit(z, w) \in Int /\ Bit(y, w) \in Int
    BY ONLY <1>2, <1>3, <1>5
  <2>2. Xor(z, y) = Sum2(Bit(z, 1), Bit(y, 1)) + 2 * Sum2(Bit(z, 2), Bit(y, 2)) + 4 * Sum2(Bit(z, 4), Bit(y, 4))
        + 8 * Sum2(Bit(z, 8), Bit(y, 8)) + 16 * Sum2(Bit(z, 16), Bit(y, 16)) + 32 * Sum2(Bit(z, 32), Bit(y, 32))
        + 64 * Sum2(Bit(z, 64), Bit(y, 64)) + 128 * Sum2(Bit(z, 128), Bit(y, 128))
    BY ONLY <2>1 DEF Xor, Sum2
  <2>3. Bit(z, 1) = s(1) /\ Bit(z, 2) = s(2) /\ Bit(z, 4) = s(4) /\ Bit(z, 8) = s(8)
        /\ Bit(z, 16) = s(16) /\ Bit(z, 32) = s(32) /\ Bit(z, 64) = s(64) /\ Bit(z, 128) = s(128)
    BY ONLY <1>5
  <2> QED BY ONLY <2>2, <2>3
<1>7. Xor(z, y) = x
  BY SMTT(30), <1>2, <1>4, <1>6, BitsMake
<1> QED BY <1>5, <1>7

LEMMA Encoded ==
  ASSUME NEW b \in [1..9 -> 0..255], NEW e, e = base64_encode(b)
  PROVE  /\ e = [j \in 1..12 |-> e[j]]
         /\ e[1] = b[1] \div 4 /\ e[2] = (b[1] % 4) * 16 + (b[2] \div 16)
         /\ e[3] = (b[2] % 16) * 4 + (b[3] \div 64) /\ e[4] = b[3] % 64
         /\ e[5] = b[4] \div 4 /\ e[6] = (b[4] % 4) * 16 + (b[5] \div 16)
         /\ e[7] = (b[5] % 16) * 4 + (b[6] \div 64) /\ e[8] = b[6] % 64
         /\ e[9] = b[7] \div 4 /\ e[10] = (b[7] % 4) * 16 + (b[8] \div 16)
         /\ e[11] = (b[8] % 16) * 4 + (b[9] \div 64) /\ e[12] = b[9] % 64
<1>1. Len(b) = 9 /\ DOMAIN b = 1..9
  BY LenProperties
<1> DEFINE n == 9
           c(i) == IF i < n THEN b[i + 1] ELSE 0
           E(j) == LET i == 3 * ((j - 1) \div 4)
                   IN  CASE j % 4 = 1 -> c(i) \div 4
                         [] j % 4 = 2 -> (c(i) % 4) * 16 + (c(i + 1) \div 16)
                         [] j % 4 = 3 -> IF i + 1 >= n THEN Pad ELSE (c(i + 1) % 16) * 4 + (c(i + 2) \div 64)
                         [] OTHER     -> IF i + 2 >= n THEN Pad ELSE c(i + 2) % 64
<1>2. e = [j \in 1..12 |-> E(j)]
  <2>1. 4 * ((9 + 2) \div 3) = 12
    OBVIOUS
  <2> QED BY <1>1, <2>1 DEF base64_encode
<1>3. c(0) = b[1] /\ c(1) = b[2] /\ c(2) = b[3] /\ c(3) = b[4] /\ c(4) = b[5] /\ c(5) = b[6]
      /\ c(6) = b[7] /\ c(7) = b[8] /\ c(8) = b[9]
  OBVIOUS
<1> HIDE DEF c
<1>4. E(1) = c(0) \div 4 /\ E(2) = (c(0) % 4) * 16 + (c(1) \div 16)
      /\ E(3) = (c(1) % 16) * 4 + (c(2) \div 64) /\ E(4) = c(2) % 64
  OBVIOUS
<1>5. E(5) = c(3) \div 4 /\ E(6) = (c(3) % 4) * 16 + (c(4) \div 16)
      /\ E(7) = (c(4) % 16) * 4 + (c(5) \div 64) /\ E(8) = c(5) % 64
  OBVIOUS
<1>6. E(9) = c(6) \div 4 /\ E(10) = (c(6) % 4) * 16 + (c(7) \div 16)
      /\ E(11) = (c(7) % 16) * 4 + (c(8) \div 64) /\ E(12) = c(8) % 64
  OBVIOUS
<1> HIDE DEF E
<1>7. \A j \in 1..12 : e[j] = E(j)
  BY <1>2
<1> QED BY <1>2, <1>3, <1>4, <1>5, <1>6, <1>7

LEMMA Base64Restores ==
  ASSUME NEW b \in [1..9 -> 0..255]
  PROVE  /\ base64_encode(b) \in Seq(Nat) /\ base64_encode(b) \in [1..12 -> 0..63]
         /\ base64_decode(base64_encode(b)) = b
<1> PICK e : e = base64_encode(b)
  OBVIOUS
<1>1. e = [j \in 1..12 |-> e[j]]
      /\ e[1] = b[1] \div 4 /\ e[2] = (b[1] % 4) * 16 + (b[2] \div 16)
      /\ e[3] = (b[2] % 16) * 4 + (b[3] \div 64) /\ e[4] = b[3] % 64
      /\ e[5] = b[4] \div 4 /\ e[6] = (b[4] % 4) * 16 + (b[5] \div 16)
      /\ e[7] = (b[5] % 16) * 4 + (b[6] \div 64) /\ e[8] = b[6] % 64
      /\ e[9] = b[7] \div 4 /\ e[10] = (b[7] % 4) * 16 + (b[8] \div 16)
      /\ e[11] = (b[8] % 16) * 4 + (b[9] \div 64) /\ e[12] = b[9] % 64
  BY Encoded
<1>2. \A j \in 1..9 : b[j] \in 0..255
  OBVIOUS
<1>3. \A j \in 1..12 : e[j] \in 0..63
  <2>1. \A x \in 0..255 : x \div 4 \in 0..63 /\ x % 64 \in 0..63
    OBVIOUS
  <2>2. \A x \in 0..255, y \in 0..255 : (x % 4) * 16 + (y \div 16) \in 0..63 /\ (x % 16) * 4 + (y \div 64) \in 0..63
    OBVIOUS
  <2>3. e[1] \in 0..63 /\ e[2] \in 0..63 /\ e[3] \in 0..63 /\ e[4] \in 0..63
    <3>1. b[1] \in 0..255 /\ b[2] \in 0..255 /\ b[3] \in 0..255
      BY ONLY <1>2
    <3>2. b[1] \div 4 \in 0..63 /\ b[3] % 64 \in 0..63
      BY ONLY <2>1, <3>1
    <3>3. (b[1] % 4) * 16 + (b[2] \div 16) \in 0..63 /\ (b[2] % 16) * 4 + (b[3] \div 64) \in 0..63
      BY ONLY ZenonT(60), <2>2, <3>1
    <3> QED BY ONLY <1>1, <3>2, <3>3
  <2>4. e[5] \in 0..63 /\ e[6] \in 0..63 /\ e[7] \in 0..63 /\ e[8] \in 0..63
    <3>1. b[4] \in 0..255 /\ b[5] \in 0..255 /\ b[6] \in 0..255
      BY ONLY <1>2
    <3>2. b[4] \div 4 \in 0..63 /\ b[6] % 64 \in 0..63
      BY ONLY <2>1, <3>1
    <3>3. (b[4] % 4) * 16 + (b[5] \div 16) \in 0..63 /\ (b[5] % 16) * 4 + (b[6] \div 64) \in 0..63
      BY ONLY ZenonT(60), <2>2, <3>1
    <3> QED BY ONLY <1>1, <3>2, <3>3
  <2>5. e[9] \in 0..63 /\ e[10] \in 0..63 /\ e[11] \in 0..63 /\ e[12] \in 0..63
    <3>1. b[7] \in 0..255 /\ b[8] \in 0..255 /\ b[9] \in 0..255
      BY ONLY <1>2
    <3>2. b[7] \div 4 \in 0..63 /\ b[9] % 64 \in 0..63
      BY ONLY <2>1, <3>1
    <3>3. (b[7] % 4) * 16 + (b[8] \div 16) \in 0..63 /\ (b[8] % 16) * 4 + (b[9] \div 64) \in 0..63
      BY ONLY ZenonT(60), <2>2, <3>1
    <3> QED BY ONLY <1>1, <3>2, <3>3
  <2> QED BY <2>3, <2>4, <2>5
<1>4. e \in [1..12 -> 0..63]
  BY <1>1, <1>3
<1>5. e \in Seq(Nat)
  <2>1. e \in [1..12 -> Nat]
    BY <1>4
  <2>2. 12 \in Nat
    OBVIOUS
  <2>3. [1..12 -> Nat] \in {[1..n -> Nat] : n \in Nat}
    BY ONLY <2>2
  <2>4. e \in UNION {[1..n -> Nat] : n \in Nat}
    BY ONLY <2>1, <2>3, Zenon
  <2>5. Seq(Nat) = UNION {[1..n -> Nat] : n \in Nat}
    BY ONLY SeqDef, Zenon
  <2> QED BY ONLY <2>4, <2>5, Zenon
<1>6. DOMAIN e = 1..12 /\ Len(e) = 12
  BY <1>4, <1>5, LenProperties
<1> DEFINE c(m, i) == e[4 * ((m - 1) \div 3) + i]
           D(m) == CASE m % 3 = 1 -> ((c(m, 1) * 4) % 256) + (c(m, 2) \div 16)
                     [] m % 3 = 2 -> (c(m, 2) % 16) * 16 + (c(m, 3) \div 4)
                     [] OTHER     -> (c(m, 3) % 4) * 64 + c(m, 4)
<1>7. base64_decode(e) = [m \in 1..9 |-> D(m)]
  <2>1. {j \in DOMAIN e : e[j] = Pad} = {}
    BY <1>3, <1>6 DEF Pad
  <2>2. 3 * (12 \div 4) = 9
    OBVIOUS
  <2> QED BY <1>6, <2>1, <2>2 DEF base64_decode
<1>9. D(1) = b[1] /\ D(2) = b[2] /\ D(3) = b[3]
  <2>1. D(1) = ((e[1] * 4) % 256) + (e[2] \div 16) /\ D(2) = (e[2] % 16) * 16 + (e[3] \div 4)
        /\ D(3) = (e[3] % 4) * 64 + e[4]
    OBVIOUS
  <2> HIDE DEF D
  <2>2. PICK x, y, z : x = b[1] /\ y = b[2] /\ z = b[3]
    OBVIOUS
  <2>3. x \in 0..255 /\ y \in 0..255 /\ z \in 0..255
    BY ONLY <1>2, <2>2
  <2>4. e[1] = x \div 4 /\ e[2] = (x % 4) * 16 + (y \div 16)
        /\ e[3] = (y % 16) * 4 + (z \div 64) /\ e[4] = z % 64
    BY ONLY <1>1, <2>2
  <2>6. /\ (((x \div 4) * 4) % 256) + (((x % 4) * 16 + (y \div 16)) \div 16) = x
        /\ (((x % 4) * 16 + (y \div 16)) % 16) * 16 + (((y % 16) * 4 + (z \div 64)) \div 4) = y
        /\ (((y % 16) * 4 + (z \div 64)) % 4) * 64 + (z % 64) = z
    BY ONLY <2>3
  <2>5. ((e[1] * 4) % 256) + (e[2] \div 16) = x /\ (e[2] % 16) * 16 + (e[3] \div 4) = y
        /\ (e[3] % 4) * 64 + e[4] = z
    BY ONLY <2>4, <2>6, Zenon
  <2> QED BY ONLY <2>1, <2>2, <2>5
<1>10. D(4) = b[4] /\ D(5) = b[5] /\ D(6) = b[6]
  <2>1. D(4) = ((e[5] * 4) % 256) + (e[6] \div 16) /\ D(5) = (e[6] % 16) * 16 + (e[7] \div 4)
        /\ D(6) = (e[7] % 4) * 64 + e[8]
    OBVIOUS
  <2> HIDE DEF D
  <2>2. PICK x, y, z : x = b[4] /\ y = b[5] /\ z = b[6]
    OBVIOUS
  <2>3. x \in 0..255 /\ y \in 0..255 /\ z \in 0..255
    BY ONLY <1>2, <2>2
  <2>4. e[5] = x \div 4 /\ e[6] = (x % 4) * 16 + (y \div 16)
        /\ e[7] = (y % 16) * 4 + (z \div 64) /\ e[8] = z % 64
    BY ONLY <1>1, <2>2
  <2>6. /\ (((x \div 4) * 4) % 256) + (((x % 4) * 16 + (y \div 16)) \div 16) = x
        /\ (((x % 4) * 16 + (y \div 16)) % 16) * 16 + (((y % 16) * 4 + (z \div 64)) \div 4) = y
        /\ (((y % 16) * 4 + (z \div 64)) % 4) * 64 + (z % 64) = z
    BY ONLY <2>3
  <2>5. ((e[5] * 4) % 256) + (e[6] \div 16) = x /\ (e[6] % 16) * 16 + (e[7] \div 4) = y
        /\ (e[7] % 4) * 64 + e[8] = z
    BY ONLY <2>4, <2>6, Zenon
  <2> QED BY ONLY <2>1, <2>2, <2>5
<1>11. D(7) = b[7] /\ D(8) = b[8] /\ D(9) = b[9]
  <2>1. D(7) = ((e[9] * 4) % 256) + (e[10] \div 16) /\ D(8) = (e[10] % 16) * 16 + (e[11] \div 4)
        /\ D(9) = (e[11] % 4) * 64 + e[12]
    OBVIOUS
  <2> HIDE DEF D
  <2>2. PICK x, y, z : x = b[7] /\ y = b[8] /\ z = b[9]
    OBVIOUS
  <2>3. x \in 0..255 /\ y \in 0..255 /\ z \in 0..255
    BY ONLY <1>2, <2>2
  <2>4. e[9] = x \div 4 /\ e[10] = (x % 4) * 16 + (y \div 16)
        /\ e[11] = (y % 16) * 4 + (z \div 64) /\ e[12] = z % 64
    BY ONLY <1>1, <2>2
  <2>6. /\ (((x \div 4) * 4) % 256) + (((x % 4) * 16 + (y \div 16)) \div 16) = x
        /\ (((x % 4) * 16 + (y \div 16)) % 16) * 16 + (((y % 16) * 4 + (z \div 64)) \div 4) = y
        /\ (((y % 16) * 4 + (z \div 64)) % 4) * 64 + (z % 64) = z
    BY ONLY <2>3
  <2>5. ((e[9] * 4) % 256) + (e[10] \div 16) = x /\ (e[10] % 16) * 16 + (e[11] \div 4) = y
        /\ (e[11] % 4) * 64 + e[12] = z
    BY ONLY <2>4, <2>6, Zenon
  <2> QED BY ONLY <2>1, <2>2, <2>5
<1>12. \A m \in 1..9 : D(m) = b[m]
  <2> HIDE DEF D
  <2> QED BY <1>9, <1>10, <1>11
<1>13. base64_decode(e) = [m \in 1..9 |-> b[m]]
  <2> HIDE DEF D
  <2> QED BY <1>7, <1>12
<1> QED BY <1>4, <1>5, <1>13

Flags == [act : 0..1, upg : 0..1, app : 0..1, id : 0..255, ver : 0..255]
Flash == [sdk : Flags, name : 0..255, auth : 0..255, check : 0..255, key : 0..255, sub : 0..255, domain : 0..255]

LEMMA KeyBytes ==
  /\ DOMAIN m_key = 1..9
  /\ \A i \in 1..9 : m_key[i] \in 0..255
  /\ m_key[6] = 53
BY DEF m_key

LEMMA XoredTwice ==
  ASSUME NEW u \in [1..9 -> 0..255]
  PROVE  Xored(u) \in [1..9 -> 0..255] /\ Xored(Xored(u)) = u
<1> PICK v : v = Xored(u)
  OBVIOUS
<1>1. v = [i \in 1..9 |-> Xor(u[i], m_key[i])]
  BY KeyBytes DEF Xored
<1>2. \A i \in 1..9 : Xor(u[i], m_key[i]) \in 0..255 /\ Xor(Xor(u[i], m_key[i]), m_key[i]) = u[i]
  <2> TAKE i \in 1..9
  <2>1. u[i] \in 0..255 /\ m_key[i] \in 0..255
    BY KeyBytes
  <2> QED BY ZenonT(60), <2>1, XorIsOwnInverse
<1>3. v \in [1..9 -> 0..255]
  BY ZenonT(60), <1>1, <1>2
<1>4. Xored(v) = [i \in 1..9 |-> Xor(v[i], m_key[i])]
  BY <1>3, KeyBytes DEF Xored
<1>5. \A i \in 1..9 : Xor(v[i], m_key[i]) = u[i]
  BY <1>1, <1>2
<1>6. Xored(v) = [i \in 1..9 |-> u[i]]
  BY <1>4, <1>5
<1> QED BY <1>3, <1>6

LEMMA PackRestores ==
  ASSUME NEW x \in Flash
  PROVE  Pack(x) \in [1..9 -> 0..255] /\ Unpack(Pack(x)) = x
<1>1. PICK a : a = x.sdk.act + 2 * x.sdk.upg + 8 * x.sdk.app
  OBVIOUS
<1>2. /\ x.sdk \in Flags /\ x.name \in 0..255 /\ x.auth \in 0..255 /\ x.check \in 0..255 /\ x.key \in 0..255
      /\ x.sub \in 0..255 /\ x.domain \in 0..255
  BY DEF Flash
<1>3. /\ x.sdk.act \in 0..1 /\ x.sdk.upg \in 0..1 /\ x.sdk.app \in 0..1
      /\ x.sdk.id \in 0..255 /\ x.sdk.ver \in 0..255
  BY <1>2 DEF Flags
<1>4. a \in 0..255 /\ a % 2 = x.sdk.act /\ (a \div 2) % 2 = x.sdk.upg /\ (a \div 8) % 2 = x.sdk.app
  <2>1. PICK c, u, p : c = x.sdk.act /\ u = x.sdk.upg /\ p = x.sdk.app
    OBVIOUS
  <2>2. c \in 0..1 /\ u \in 0..1 /\ p \in 0..1 /\ a = c + 2 * u + 8 * p
    BY ONLY <1>1, <1>3, <2>1
  <2>3. a \in 0..255 /\ a % 2 = c /\ (a \div 2) % 2 = u /\ (a \div 8) % 2 = p
    BY ONLY <2>2
  <2> QED BY ONLY <2>1, <2>3
<1>5. PICK u : u = <<a, x.sdk.id, x.sdk.ver, x.name, x.auth, x.check, x.key, x.sub, x.domain>>
  OBVIOUS
<1>6. u \in [1..9 -> 0..255]
  <2>1. PICK v : v = <<x.sdk.id, x.sdk.ver, x.name, x.auth, x.check, x.key, x.sub, x.domain>>
    OBVIOUS
  <2>2. v[1] \in 0..255 /\ v[2] \in 0..255 /\ v[3] \in 0..255 /\ v[4] \in 0..255 /\ v[5] \in 0..255
        /\ v[6] \in 0..255 /\ v[7] \in 0..255 /\ v[8] \in 0..255
    BY ONLY <1>2, <1>3, <2>1
  <2>3. u = <<a, v[1], v[2], v[3], v[4], v[5], v[6], v[7], v[8]>>
    BY ONLY <1>5, <2>1
  <2>4. a \in 0..255
    BY <1>4
  <2> QED BY ONLY <2>2, <2>3, <2>4
<1>7. Pack(x) = Xored(u)
  BY <1>1, <1>5 DEF Pack
<1>8. Xored(Pack(x)) = u
  BY <1>6, <1>7, XoredTwice
<1>9. Unpack(Pack(x)) =
        [sdk    |-> [act |-> x.sdk.act, upg |-> x.sdk.upg, app |-> x.sdk.app, id |-> x.sdk.id, ver |-> x.sdk.ver],
         name   |-> x.name, auth |-> x.auth, check |-> x.check, key |-> x.key, sub |-> x.sub, domain |-> x.domain]
  <2>1. /\ u[1] = a /\ u[2] = x.sdk.id /\ u[3] = x.sdk.ver /\ u[4] = x.name /\ u[5] = x.auth /\ u[6] = x.check
        /\ u[7] = x.key /\ u[8] = x.sub /\ u[9] = x.domain
    BY ONLY <1>5
  <2> QED BY <1>4, <1>8, <2>1 DEF Unpack
<1>10. x.sdk = [act |-> x.sdk.act, upg |-> x.sdk.upg, app |-> x.sdk.app, id |-> x.sdk.id, ver |-> x.sdk.ver]
  BY <1>2 DEF Flags
<1>11. x = [sdk |-> x.sdk, name |-> x.name, auth |-> x.auth, check |-> x.check, key |-> x.key, sub |-> x.sub,
            domain |-> x.domain]
  BY DEF Flash
<1> QED BY <1>6, <1>7, <1>9, <1>10, <1>11, XoredTwice

LEMMA DefaultIsForeign ==
  Unpack(base64_decode(Default)).check # Check
<1>1. PICK d : d = base64_decode(Default)
  OBVIOUS
<1>2. DOMAIN Default = 1..4 /\ Len(Default) = 4 /\ \A j \in 1..4 : Default[j] # Pad
  BY DEF Default, Pad
<1>3. {j \in DOMAIN Default : Default[j] = Pad} = {} /\ 3 * (4 \div 4) = 3
  BY <1>2
<1>4. DOMAIN d = 1..3
  BY <1>1, <1>2, <1>3 DEF base64_decode
<1>5. Xored(d)[6] = 53
  BY <1>4, KeyBytes DEF Xored
<1> QED BY <1>1, <1>5 DEF Unpack, Check

-----------------------------------------------------------------------------
(* What a start finds in a file                                            *)

\* What config.ini may hold under the key of the settings, and under that of the gateway's id.
SdkText(f)  == read_profile_string(Section, SdkKey, Default, f)
GateText(f) == read_profile_string(Section, "gatewayid", NotFound, f)
Text(x)     == base64_encode(Pack(x))
Texts       == {Default} \cup {Text(x) : x \in Flash}
Numbers     == {<<n>> : n \in Nat}
Files       == {f \in Seq(Line) : SdkText(f) \in Texts /\ GateText(f) \in Numbers \cup {NotFound}}

LEMMA ErasedIsFlash == Erased \in Flash /\ Zeroed \in Flash /\ NoFlags \in Flags /\ Erased.check = Check
<1>1. NoFlags \in Flags
  BY DEF NoFlags, Flags
<1>2. Zeroed \in Flash
  BY ONLY <1>1 DEF Flash, Zeroed
<1>3. \A x \in Flash : [x EXCEPT !.key = 255] \in Flash /\ [x EXCEPT !.sub = 255] \in Flash
        /\ [x EXCEPT !.check = 77] \in Flash /\ [x EXCEPT !.check = 77].check = 77
  BY DEF Flash
<1>4. Erased = [[[Zeroed EXCEPT !.key = 255] EXCEPT !.sub = 255] EXCEPT !.check = 77]
  BY DEF Erased, NoNumber, Check
<1>5. Erased \in Flash /\ Erased.check = 77
  BY ZenonT(60), <1>2, <1>3, <1>4
<1> QED BY <1>1, <1>2, <1>5 DEF Check

LEMMA TextRestores ==
  ASSUME NEW x \in Flash
  PROVE  Text(x) \in Seq(Nat) /\ Unpack(base64_decode(Text(x))) = x
  BY PackRestores, Base64Restores DEF Text

LEMMA SavedIs ==
  ASSUME NEW f PROVE Saved(f) = Unpack(base64_decode(SdkText(f)))
  BY DEF Saved, SdkText, XDReadBase64Decode

LEMMA KeptIsFlash ==
  ASSUME NEW f \in Files
  PROVE  Kept(f) \in Flash /\ Kept(f).check = Check
<1>1. CASE SdkText(f) = Default
  BY <1>1, SavedIs, DefaultIsForeign, ErasedIsFlash DEF Kept
<1>2. CASE \E x \in Flash : SdkText(f) = Text(x)
  <2>1. PICK x \in Flash : SdkText(f) = Text(x)
    BY <1>2
  <2>2. Saved(f) = x
    BY <2>1, SavedIs, TextRestores
  <2> QED BY <2>2, ErasedIsFlash DEF Kept
<1> QED BY <1>1, <1>2 DEF Files, Texts

LEMMA GateIdIs ==
  ASSUME NEW f \in Files
  PROVE  /\ GateId(f) \in Nat
         /\ XDReadString("gatewayid", f) = GateText(f)
         /\ GateText(f) = NotFound => GateId(f) = 0
         /\ GateText(f) # NotFound => GateId(f) = GateText(f)[1]
<1>1. XDReadString("gatewayid", f) = GateText(f)
  BY DEF XDReadString, GateText
<1>2. CASE GateText(f) = NotFound
  BY <1>1, <1>2 DEF GateId
<1>3. CASE GateText(f) # NotFound
  <2>1. PICK n \in Nat : GateText(f) = <<n>>
    BY <1>3 DEF Files, Numbers
  <2> QED BY <1>1, <1>3, <2>1 DEF GateId
<1> QED BY <1>1, <1>2, <1>3

\* The settings that are saved are the ones a start finds, and the gateway's id stays.
LEMMA SettingsWritten ==
  ASSUME NEW f \in Files, NEW x \in Flash, x.check = Check,
         NEW w, w = write_profile_string(Section, SdkKey, Text(x), f)
  PROVE  w \in Files /\ Kept(w) = x /\ GateId(w) = GateId(f)
<1>1. f \in Seq(Line) /\ GateText(f) \in Numbers \cup {NotFound}
  BY DEF Files
<1>2. Section \in Labels /\ SdkKey \in Labels /\ "gatewayid" \in Labels /\ SdkKey # "gatewayid"
  BY DEF Section, SdkKey, Labels
<1>3. PICK v : v = Text(x)
  OBVIOUS
<1>4. v \in Seq(Nat)
  BY <1>3, TextRestores
<1>5. Updated(f, write_profile_string(Section, SdkKey, v, f), Section, SdkKey, v)
  BY ONLY <1>1, <1>2, <1>4, ReadAfterWrite
<1>6. w \in Seq(Line) /\ SdkText(w) = Text(x) /\ GateText(w) = GateText(f)
  BY <1>2, <1>3, <1>5 DEF Updated, SdkText, GateText
<1>7. w \in Files
  BY <1>1, <1>6 DEF Files, Texts
<1>8. Saved(w) = x
  BY <1>6, SavedIs, TextRestores
<1>9. GateId(w) = GateId(f)
  BY <1>6 DEF GateId, GateText, XDReadString
<1> QED BY <1>7, <1>8, <1>9 DEF Kept

LEMMA GateIdWritten ==
  ASSUME NEW f \in Files, NEW n \in Nat, NEW w, w = write_profile_string(Section, "gatewayid", <<n>>, f)
  PROVE  w \in Files /\ Kept(w) = Kept(f) /\ GateId(w) = n
<1>1. f \in Seq(Line) /\ SdkText(f) \in Texts
  BY DEF Files
<1>2. Section \in Labels /\ SdkKey \in Labels /\ "gatewayid" \in Labels /\ SdkKey # "gatewayid"
  BY DEF Section, SdkKey, Labels
<1>3. PICK v : v = <<n>>
  OBVIOUS
<1>4. v \in Seq(Nat) /\ v[1] = n
  BY <1>3
<1>5. Updated(f, write_profile_string(Section, "gatewayid", v, f), Section, "gatewayid", v)
  BY ONLY <1>1, <1>2, <1>4, ReadAfterWrite
<1>6. w \in Seq(Line) /\ SdkText(w) = SdkText(f) /\ GateText(w) = <<n>>
  BY <1>2, <1>3, <1>5 DEF Updated, SdkText, GateText
<1>7. w \in Files
  BY <1>1, <1>6 DEF Files, Numbers
<1>8. Saved(w) = Saved(f)
  BY <1>6, SavedIs
<1>9. GateText(w) # NotFound
  <2>1. GateText(w)[1] = n /\ NotFound[1] = -1
    BY <1>6 DEF NotFound
  <2> QED BY <2>1
<1>10. GateId(w) = n
  BY <1>6, <1>7, <1>9, GateIdIs
<1> QED BY <1>7, <1>8, <1>10 DEF Kept

\* The files a gateway starts with.
LEMMA FirstFiles ==
  ASSUME NEW f \in {<<>>, <<SectionLine(Section)>>, <<EmptyLine, SectionLine(Section), EntryLine("gatewayid", << 9 >>)>>}
  PROVE  f \in Files /\ Kept(f) = Erased
<1>1. PICK h : h = SectionLine(Section)
  OBVIOUS
<1>2. PICK o : o = EmptyLine
  OBVIOUS
<1>3. PICK g : g = EntryLine("gatewayid", << 9 >>)
  OBVIOUS
<1>4. /\ h.kind = "section" /\ o.kind = "other" /\ g.kind = "entry" /\ g.name = "gatewayid" /\ g.value = << 9 >>
      /\ h \in Line /\ o \in Line /\ g \in Line
  <2>1. <<>> \in Seq(Nat) /\ << 9 >> \in Seq(Nat)
    OBVIOUS
  <2>2. h \in Line /\ o \in Line /\ g \in Line
    BY ONLY <1>1, <1>2, <1>3, <2>1 DEF SectionLine, EmptyLine, EntryLine, Line, Labels, Section
  <2> QED BY ONLY <1>1, <1>2, <1>3, <2>2 DEF SectionLine, EmptyLine, EntryLine
<1>10. f \in {<<>>, <<h>>, <<o, h, g>>}
  BY ONLY f \in {<<>>, <<SectionLine(Section)>>, <<EmptyLine, SectionLine(Section), EntryLine("gatewayid", << 9 >>)>>},
     <1>1, <1>2, <1>3
<1>11. f \in Seq(Line)
  <2>1. PICK L : L = Line
    OBVIOUS
  <2>2. <<>> \in Seq(L) /\ <<h>> \in Seq(L) /\ <<o, h, g>> \in Seq(L)
    BY ONLY <1>4, <2>1
  <2> QED BY ONLY <1>10, <2>1, <2>2
<1>12. \A i \in DOMAIN f : f[i] \in {h, o, g}
  BY ONLY <1>10
<1>13. Entries(f, Section, SdkKey) = {}
  <2>1. \A i \in DOMAIN f : ~(f[i].kind = "entry" /\ f[i].name = SdkKey)
    <3>1. SdkKey # "gatewayid"
      BY DEF SdkKey
    <3>2. \A l \in {h, o, g} : ~(l.kind = "entry" /\ l.name = SdkKey)
      BY ONLY <1>4, <3>1
    <3> QED BY ONLY <1>12, <3>2
  <2> QED BY ONLY <2>1 DEF Entries
<1>14. SdkText(f) = Default
  <2>1. read_profile_string(Section, SdkKey, Default, f) = Default
    BY ONLY <1>13, ReadsNothing
  <2> QED BY ONLY <2>1 DEF SdkText
<1>15. GateText(f) \in Numbers \cup {NotFound}
  <2>1. CASE Entries(f, Section, "gatewayid") = {}
    <3>1. read_profile_string(Section, "gatewayid", NotFound, f) = NotFound
      BY ONLY <2>1, ReadsNothing
    <3> QED BY ONLY <3>1 DEF GateText
  <2>2. CASE Entries(f, Section, "gatewayid") # {}
    <3>1. PICK T : T = Entries(f, Section, "gatewayid")
      OBVIOUS
    <3>2. T \in SUBSET Nat /\ T # {}
      BY ONLY <1>11, <2>2, <3>1 DEF Entries
    <3>3. PICK i \in T : \A j \in T : i <= j
      BY <3>2, LeastNatural
    <3>4. read_profile_string(Section, "gatewayid", NotFound, f) = f[i].value
      BY ONLY <1>11, <3>1, <3>3, ReadsFirst
    <3>5. i \in DOMAIN f /\ f[i].kind = "entry"
      BY ONLY <3>1, <3>3 DEF Entries
    <3>6. f[i].value = << 9 >>
      BY ONLY <1>4, <1>12, <3>5
    <3>7. 9 \in Nat
      OBVIOUS
    <3> QED BY ONLY <3>4, <3>6, <3>7 DEF Numbers, GateText
  <2> QED BY <2>1, <2>2
<1>7. f \in Files
  BY ONLY <1>11, <1>14, <1>15 DEF Files, Texts
<1> QED BY <1>14, <1>7, SavedIs, DefaultIsForeign DEF Kept

-----------------------------------------------------------------------------
(* What has been told, once a promise is kept                              *)

Told == [gid : Nat, key : Nat, name : Nat, id : Nat, upg : Nat, domain : Nat]
Promises ==
  {<<>>} \cup {[name |-> n] : n \in Nat} \cup {[key |-> k] : k \in Nat} \cup {[id |-> i] : i \in Nat}
  \cup {[upg |-> u] : u \in Nat} \cup {[domain |-> d] : d \in Nat} \cup {[key |-> 0, id |-> 0]}

LEMMA Merged ==
  ASSUME NEW t \in Told
  PROVE  /\ Tells(<<>>, t) = t
         /\ \A n \in Nat : Tells([name |-> n], t) = [t EXCEPT !.name = n]
         /\ \A n \in Nat : Tells([key |-> n], t) = [t EXCEPT !.key = n]
         /\ \A n \in Nat : Tells([id |-> n], t) = [t EXCEPT !.id = n]
         /\ \A n \in Nat : Tells([upg |-> n], t) = [t EXCEPT !.upg = n]
         /\ \A n \in Nat : Tells([domain |-> n], t) = [t EXCEPT !.domain = n]
         /\ Tells([key |-> 0, id |-> 0], t) = [t EXCEPT !.key = 0, !.id = 0]
<1>1. DOMAIN t = {"gid", "key", "name", "id", "upg", "domain"}
  BY DEF Told
<1>2. Tells(<<>>, t) = t
  <2>1. DOMAIN <<>> = {} /\ t = [x \in DOMAIN t |-> t[x]]
    BY <1>1 DEF Told
  <2> QED BY <2>1 DEF Tells
<1>3. ASSUME NEW n \in Nat PROVE Tells([name |-> n], t) = [t EXCEPT !.name = n]
  BY <1>1 DEF Tells, Told
<1>4. ASSUME NEW n \in Nat PROVE Tells([key |-> n], t) = [t EXCEPT !.key = n]
  BY <1>1 DEF Tells, Told
<1>5. ASSUME NEW n \in Nat PROVE Tells([id |-> n], t) = [t EXCEPT !.id = n]
  BY <1>1 DEF Tells, Told
<1>6. ASSUME NEW n \in Nat PROVE Tells([upg |-> n], t) = [t EXCEPT !.upg = n]
  BY <1>1 DEF Tells, Told
<1>7. ASSUME NEW n \in Nat PROVE Tells([domain |-> n], t) = [t EXCEPT !.domain = n]
  BY <1>1 DEF Tells, Told
<1>8. Tells([key |-> 0, id |-> 0], t) = [t EXCEPT !.key = 0, !.id = 0]
  <2>1. PICK p : p = [key |-> 0, id |-> 0]
    OBVIOUS
  <2>2. DOMAIN p = {"key", "id"} /\ p["key"] = 0 /\ p["id"] = 0
    BY <2>1
  <2>3. PICK u : u = [t EXCEPT !.key = 0]
    OBVIOUS
  <2>4. PICK w : w = [u EXCEPT !.id = 0]
    OBVIOUS
  <2>5. w = [f \in DOMAIN t |-> IF f \in {"key", "id"} THEN 0 ELSE t[f]]
    BY <1>1, <2>3, <2>4 DEF Told
  <2>6. Tells(p, t) = [f \in DOMAIN t |-> IF f \in {"key", "id"} THEN 0 ELSE t[f]]
    BY <2>2 DEF Tells
  <2> QED BY <2>1, <2>3, <2>4, <2>5, <2>6
<1> QED BY <1>2, <1>3, <1>4, <1>5, <1>6, <1>7, <1>8

-----------------------------------------------------------------------------
(* The invariant of the settings                                           *)

\* What was told fits settings and a gateway id; a name that is not the first one is told with the flag
\* that keeps it over a start.
Fits(t, k, g) ==
  /\ t.gid \in {0, g} /\ t.key \in {0, k.key} /\ t.name \in {0, k.name}
  /\ t.id = k.sdk.act * k.sdk.id /\ t.upg = k.sdk.upg /\ t.domain = k.domain
  /\ k.sdk.app = 1 \/ t.name \in {0, FirstName}

Kinds ==
  {Idle} \cup {[pc |-> "load", k |-> SdkKey, v |-> Text(x), promise |-> p] : x \in {y \in Flash : y.check = Check}, p \in Promises}
  \cup {[pc |-> "load", k |-> "gatewayid", v |-> <<n>>, promise |-> <<>>] : n \in Nat}
  \cup [pc : {"open", "write"}, file : Files, promise : Promises]

Boots == {"id", "sdk", "data", "name", "threads", "running"}

TypeInv ==
  /\ ini \in Files /\ flash \in Flash /\ info \in Flags /\ gid \in Nat
  /\ th \in [Thread -> Kinds]
  /\ boot \in Boots /\ told \in Told /\ excused \in BOOLEAN /\ starts \in 1..MaxStarts

StageInv ==
  /\ boot # "running" => th["udp"] = Idle /\ th["tcp"] = Idle
  /\ boot \in {"id", "name", "running"} => th["main"] = Idle
  /\ boot \in {"name", "threads", "running"} => info = flash.sdk
  /\ boot \in {"threads", "running"} => info.app = 1 \/ flash.name = FirstName
  /\ boot \notin {"id", "sdk"} => flash.check = Check
  /\ Busy("tcp") => th["tcp"].promise = [domain |-> 0]

\* The file there will be once the thread has written, and what has been told by then.
Future(t) == IF th[t].pc = "load" THEN write_profile_string(Section, th[t].k, th[t].v, ini) ELSE th[t].file
Right(f, t) ==
  /\ Fits(t, Kept(f), GateId(f))
  /\ boot # "id" => GateId(f) = gid
  /\ boot \notin {"id", "sdk"} => Kept(f) = flash

DiskInv == ~excused =>
  /\ \A t, u \in Thread : Busy(t) /\ Busy(u) => t = u
  /\ (\A t \in Thread : th[t].pc # "write") => Fits(told, Kept(ini), GateId(ini))
  /\ \A t \in Thread : Busy(t) => Right(Future(t), Tells(th[t].promise, told))
  /\ (\A t \in Thread : ~Busy(t)) => Right(ini, told)
  /\ th["tcp"].pc \in {"load", "open"} => flash = [Kept(ini) EXCEPT !.domain = 0]

ConfigInv == TypeInv /\ StageInv /\ DiskInv

-----------------------------------------------------------------------------
LEMMA TellsTyped ==
  ASSUME NEW t \in Told, NEW p \in Promises
  PROVE  Tells(p, t) \in Told
<1>1. /\ \A n \in Nat : [t EXCEPT !.name = n] \in Told /\ [t EXCEPT !.key = n] \in Told /\ [t EXCEPT !.id = n] \in Told
      /\ \A n \in Nat : [t EXCEPT !.upg = n] \in Told /\ [t EXCEPT !.domain = n] \in Told
  BY DEF Told
<1>2. [t EXCEPT !.key = 0, !.id = 0] \in Told
  BY DEF Told
<1>3. CASE p = <<>>
  BY <1>3, Merged
<1>4. ASSUME NEW n \in Nat, p = [name |-> n] PROVE Tells(p, t) \in Told
  <2>1. Tells([name |-> n], t) = [t EXCEPT !.name = n]
    BY Merged
  <2>2. [t EXCEPT !.name = n] \in Told
    BY <1>1
  <2> QED BY <1>4, <2>1, <2>2
<1>5. ASSUME NEW n \in Nat, p = [key |-> n] PROVE Tells(p, t) \in Told
  <2>1. Tells([key |-> n], t) = [t EXCEPT !.key = n]
    BY Merged
  <2>2. [t EXCEPT !.key = n] \in Told
    BY <1>1
  <2> QED BY <1>5, <2>1, <2>2
<1>7. ASSUME NEW n \in Nat, p = [id |-> n] PROVE Tells(p, t) \in Told
  <2>1. Tells([id |-> n], t) = [t EXCEPT !.id = n]
    BY Merged
  <2>2. [t EXCEPT !.id = n] \in Told
    BY <1>1
  <2> QED BY <1>7, <2>1, <2>2
<1>8. ASSUME NEW n \in Nat, p = [upg |-> n] PROVE Tells(p, t) \in Told
  <2>1. Tells([upg |-> n], t) = [t EXCEPT !.upg = n]
    BY Merged
  <2>2. [t EXCEPT !.upg = n] \in Told
    BY <1>1
  <2> QED BY <1>8, <2>1, <2>2
<1>9. ASSUME NEW n \in Nat, p = [domain |-> n] PROVE Tells(p, t) \in Told
  <2>1. Tells([domain |-> n], t) = [t EXCEPT !.domain = n]
    BY Merged
  <2>2. [t EXCEPT !.domain = n] \in Told
    BY <1>1
  <2> QED BY <1>9, <2>1, <2>2
<1>6. CASE p = [key |-> 0, id |-> 0]
  BY <1>2, <1>6, Merged
<1> QED BY <1>3, <1>4, <1>5, <1>6, <1>7, <1>8, <1>9 DEF Promises

\* The states of a thread.
LEMMA KindsAre ==
  ASSUME NEW s \in Kinds
  PROVE  \/ s = Idle /\ s.pc = "idle"
         \/ /\ s.pc = "load" /\ s.promise \in Promises
            /\ \/ s.k = SdkKey /\ \E x \in Flash : x.check = Check /\ s.v = Text(x)
               \/ s.k = "gatewayid" /\ \E n \in Nat : s.v = <<n>>
         \/ s.pc \in {"open", "write"} /\ s.file \in Files /\ s.promise \in Promises
<1>1. CASE s = Idle
  BY <1>1 DEF Idle
<1>2. CASE \E x \in Flash, p \in Promises : x.check = Check /\ s = [pc |-> "load", k |-> SdkKey, v |-> Text(x), promise |-> p]
  BY <1>2
<1>3. CASE \E n \in Nat : s = [pc |-> "load", k |-> "gatewayid", v |-> <<n>>, promise |-> <<>>]
  <2>1. PICK n \in Nat : s = [pc |-> "load", k |-> "gatewayid", v |-> <<n>>, promise |-> <<>>]
    BY <1>3
  <2>2. <<>> \in Promises
    BY DEF Promises
  <2>3. PICK v : v = <<n>>
    OBVIOUS
  <2>4. s.pc = "load" /\ s.k = "gatewayid" /\ s.v = v /\ s.promise = <<>>
    BY <2>1, <2>3
  <2> QED BY <2>2, <2>3, <2>4
<1>4. CASE s \in [pc : {"open", "write"}, file : Files, promise : Promises]
  BY <1>4
<1> QED BY <1>1, <1>2, <1>3, <1>4 DEF Kinds

\* What a thread is about to write is a file the gateway can read.
LEMMA FutureIsFile ==
  ASSUME TypeInv, NEW t \in Thread, Busy(t)
  PROVE  Future(t) \in Files /\ th[t].promise \in Promises
<1>1. th[t] \in Kinds /\ ini \in Files /\ th[t].pc # "idle"
  BY DEF TypeInv, Busy
<1>2. CASE th[t].pc = "load" /\ \E x \in Flash : x.check = Check /\ th[t].k = SdkKey /\ th[t].v = Text(x)
  BY <1>1, <1>2, KindsAre, SettingsWritten DEF Future
<1>3. CASE th[t].pc = "load" /\ \E n \in Nat : th[t].k = "gatewayid" /\ th[t].v = <<n>>
  BY <1>1, <1>3, KindsAre, GateIdWritten DEF Future
<1>4. CASE th[t].pc \in {"open", "write"}
  BY <1>1, <1>4, KindsAre DEF Future
<1> QED BY <1>1, <1>2, <1>3, <1>4, KindsAre

LEMMA FilesTyped ==
  ASSUME NEW f \in Files PROVE Kept(f) \in Flash /\ Kept(f).check = Check /\ GateId(f) \in Nat
  BY KeptIsFlash, GateIdIs

LEMMA EmptyIsFile == <<>> \in Files
  BY FirstFiles

-----------------------------------------------------------------------------
(* The steps of a write                                                    *)

\* A thread's state, and those of the others, after an assignment to it.
LEMMA ThreadSet ==
  ASSUME th \in [Thread -> Kinds], NEW t \in Thread, NEW s \in Kinds, th' = [th EXCEPT ![t] = s]
  PROVE  th' \in [Thread -> Kinds] /\ th'[t] = s /\ \A u \in Thread \ {t} : th'[u] = th[u]
  OBVIOUS

LEMMA IdleIs == Idle \in Kinds /\ Idle.pc = "idle"
  BY DEF Idle, Kinds

LEMMA LoadKeeps ==
  ASSUME ConfigInv, NEW t \in Thread, load_ini_file(t)
  PROVE  ConfigInv'
<1> USE DEF ConfigInv
<1>1. PICK s : s = [pc |-> "open", file |-> Future(t), promise |-> th[t].promise]
  OBVIOUS
<1>2. th[t].pc = "load" /\ Busy(t) /\ th' = [th EXCEPT ![t] = s]
      /\ UNCHANGED <<ini, flash, info, gid, boot, told, excused, ops, starts, fails>>
  BY <1>1 DEF load_ini_file, Busy, Future
<1>3. s.pc = "open" /\ s.file = Future(t) /\ s.promise = th[t].promise
  BY <1>1
<1>4. s \in Kinds
  BY <1>1, <1>2, FutureIsFile DEF Kinds
<1>5. th' \in [Thread -> Kinds] /\ th'[t] = s /\ \A u \in Thread \ {t} : th'[u] = th[u]
  BY <1>2, <1>4, ThreadSet DEF TypeInv
<1>6. TypeInv'
  BY <1>2, <1>5 DEF TypeInv
<1>7. \A u \in Thread : /\ Busy(u)' <=> Busy(u)
                        /\ th'[u].promise = th[u].promise \/ ~Busy(u)
                        /\ th'[u].pc = "write" <=> th[u].pc = "write"
                        /\ th'[u].pc \in {"load", "open"} <=> th[u].pc \in {"load", "open"}
                        /\ Future(u)' = Future(u)
                        /\ th[u] = Idle <=> th'[u] = Idle
  BY <1>2, <1>3, <1>5, IdleIs DEF Busy, Future
<1>8. "main" \in Thread /\ "tcp" \in Thread /\ "udp" \in Thread
  BY DEF Thread
<1>9. StageInv'
  BY <1>2, <1>7, <1>8 DEF StageInv
<1>10. DiskInv'
  BY <1>2, <1>7, <1>8 DEF DiskInv, Right
<1> QED BY <1>6, <1>9, <1>10

LEMMA OpenKeeps ==
  ASSUME ConfigInv, NEW t \in Thread, fopen(t)
  PROVE  ConfigInv'
<1> USE DEF ConfigInv
<1>1. PICK s : s = [th[t] EXCEPT !.pc = "write"]
  OBVIOUS
<1>2. th[t].pc = "open" /\ Busy(t) /\ ini' = <<>> /\ th' = [th EXCEPT ![t] = s]
      /\ UNCHANGED <<flash, info, gid, boot, told, excused, ops, starts, fails>>
  BY <1>1 DEF fopen, Busy, TypeInv
<1>3. th[t] \in [pc : {"open", "write"}, file : Files, promise : Promises]
  <2>1. th[t] \in Kinds
    BY DEF TypeInv
  <2> QED BY <1>2, <2>1 DEF Kinds, Idle
<1>4. s \in [pc : {"open", "write"}, file : Files, promise : Promises]
      /\ s.pc = "write" /\ s.file = th[t].file /\ s.promise = th[t].promise
  BY <1>1, <1>3
<1>5. s \in Kinds
  BY <1>4 DEF Kinds
<1>6. th' \in [Thread -> Kinds] /\ th'[t] = s /\ \A u \in Thread \ {t} : th'[u] = th[u]
  BY <1>2, <1>5, ThreadSet DEF TypeInv
<1>7. TypeInv'
  BY <1>2, <1>6, EmptyIsFile DEF TypeInv
<1>8. "main" \in Thread /\ "tcp" \in Thread /\ "udp" \in Thread
  BY DEF Thread
<1>9. \A u \in Thread : (Busy(u)' <=> Busy(u)) /\ (th[u] = Idle <=> th'[u] = Idle)
  BY <1>2, <1>4, <1>6, IdleIs DEF Busy
<1>10. Busy("tcp") => th'["tcp"].promise = th["tcp"].promise
  BY <1>4, <1>6, <1>8
<1>11. StageInv'
  BY <1>2, <1>8, <1>9, <1>10 DEF StageInv
<1>12. DiskInv'
  <2>1. SUFFICES ASSUME ~excused PROVE DiskInv'
    BY <1>2 DEF DiskInv
  <2>2. \A u \in Thread : Busy(u) => u = t
    BY <1>2, <2>1 DEF DiskInv
  <2>3. Future(t)' = Future(t) /\ th'[t].promise = th[t].promise /\ th'[t].pc = "write"
    BY <1>2, <1>4, <1>6 DEF Future
  <2>4. Right(Future(t), Tells(th[t].promise, told))
    BY <1>2, <2>1 DEF DiskInv
  <2>5. Right(Future(t), Tells(th[t].promise, told))'
    BY <1>2, <2>3, <2>4 DEF Right
  <2>6. ~(th'["tcp"].pc \in {"load", "open"})
    BY <1>6, <1>8, <1>9, <2>2, <2>3 DEF Busy
  <2> QED BY <1>2, <1>9, <2>2, <2>3, <2>5, <2>6 DEF DiskInv
<1> QED BY <1>7, <1>11, <1>12

LEMMA FailedOpenKeeps ==
  ASSUME ConfigInv, NEW t \in Thread, fopenFails(t)
  PROVE  ConfigInv'
<1> USE DEF ConfigInv
<1>1. th[t].pc = "open" /\ Busy(t) /\ th' = [th EXCEPT ![t] = Idle] /\ told' = Tells(th[t].promise, told)
      /\ excused' = TRUE /\ UNCHANGED <<ini, flash, info, gid, boot, starts>>
  BY DEF fopenFails, Busy
<1>2. th' \in [Thread -> Kinds] /\ th'[t] = Idle /\ \A u \in Thread \ {t} : th'[u] = th[u]
  BY <1>1, ThreadSet, IdleIs DEF TypeInv
<1>3. told' \in Told
  BY <1>1, FutureIsFile, TellsTyped DEF TypeInv
<1>4. TypeInv'
  BY <1>1, <1>2, <1>3 DEF TypeInv
<1>5. StageInv'
  BY <1>1, <1>2, IdleIs DEF StageInv, Busy, Thread
<1>6. DiskInv'
  BY <1>1 DEF DiskInv
<1> QED BY <1>4, <1>5, <1>6

LEMMA PutKeeps ==
  ASSUME ConfigInv, NEW t \in Thread, fputs(t)
  PROVE  ConfigInv'
<1> USE DEF ConfigInv
<1>1. th[t].pc = "write" /\ Busy(t) /\ ini' = th[t].file /\ th' = [th EXCEPT ![t] = Idle]
      /\ told' = Tells(th[t].promise, told) /\ UNCHANGED <<flash, info, gid, boot, excused, starts>>
  BY DEF fputs, Busy
<1>2. th' \in [Thread -> Kinds] /\ th'[t] = Idle /\ \A u \in Thread \ {t} : th'[u] = th[u]
  BY <1>1, ThreadSet, IdleIs DEF TypeInv
<1>3. ini' = Future(t) /\ Future(t) \in Files /\ th[t].promise \in Promises
  BY <1>1, FutureIsFile DEF Future
<1>4. told' \in Told
  BY <1>1, <1>3, TellsTyped DEF TypeInv
<1>5. TypeInv'
  BY <1>1, <1>2, <1>3, <1>4 DEF TypeInv
<1>6. StageInv'
  BY <1>1, <1>2, IdleIs DEF StageInv, Busy, Thread
<1>7. DiskInv'
  <2>1. SUFFICES ASSUME ~excused PROVE DiskInv'
    BY <1>1 DEF DiskInv
  <2>2. \A u \in Thread : Busy(u) => u = t
    BY <1>1, <2>1 DEF DiskInv
  <2>3. \A u \in Thread : th'[u].pc = "idle"
    BY <1>2, <2>2, IdleIs DEF Busy
  <2>4. Right(Future(t), Tells(th[t].promise, told))
    BY <1>1, <2>1 DEF DiskInv
  <2>5. Right(ini, told)'
    BY <1>1, <1>3, <2>4 DEF Right
  <2>6. Fits(told, Kept(ini), GateId(ini))'
    BY <2>5 DEF Right
  <2>7. th'["tcp"].pc = "idle"
    BY <2>3 DEF Thread
  <2> QED BY <2>3, <2>5, <2>6, <2>7 DEF DiskInv, Busy
<1> QED BY <1>5, <1>6, <1>7

-----------------------------------------------------------------------------
(* A write that begins                                                     *)

\* A write that begins: what was told fits the file as it is, and will fit the file as it will be.
LEMMA WriteBegins ==
  ASSUME ConfigInv, NEW t \in Thread, NEW k, NEW v, NEW p, Write(t, k, v, p), ini' = ini,
         [pc |-> "load", k |-> k, v |-> v, promise |-> p] \in Kinds,
         (~excused /\ \A u \in Thread : ~Busy(u)) =>
            /\ Fits(told', Kept(ini), GateId(ini))
            /\ Right(write_profile_string(Section, k, v, ini), Tells(p, told))'
            /\ t = "tcp" => flash' = [Kept(ini) EXCEPT !.domain = 0]
  PROVE  /\ th' \in [Thread -> Kinds] /\ excused' \in BOOLEAN /\ DiskInv'
         /\ ~Busy(t) /\ th'[t].promise = p /\ \A u \in Thread \ {t} : th'[u] = th[u]
<1> USE DEF ConfigInv
<1>1. PICK s : s = [pc |-> "load", k |-> k, v |-> v, promise |-> p]
  OBVIOUS
<1>2. s.pc = "load" /\ s.k = k /\ s.v = v /\ s.promise = p /\ s \in Kinds
  BY <1>1
<1>3. ~Busy(t) /\ th' = [th EXCEPT ![t] = s] /\ excused' = (excused \/ \E u \in Thread \ {t} : Busy(u))
  BY <1>1 DEF Write
<1>4. th' \in [Thread -> Kinds] /\ th'[t] = s /\ \A u \in Thread \ {t} : th'[u] = th[u]
  BY <1>2, <1>3, ThreadSet DEF TypeInv
<1>5. excused' \in BOOLEAN
  BY <1>3
<1>6. DiskInv'
  <2>1. SUFFICES ASSUME ~excused' PROVE DiskInv'
    BY DEF DiskInv
  <2>2. ~excused /\ \A u \in Thread : ~Busy(u)
    BY <1>3, <2>1
  <2>3. \A u \in Thread : Busy(u)' <=> u = t
    BY <1>2, <1>4, <2>2 DEF Busy
  <2>4. Future(t)' = write_profile_string(Section, k, v, ini)'
    BY <1>2, <1>4 DEF Future
  <2>5. Right(write_profile_string(Section, k, v, ini), Tells(p, told))'
    BY <2>2
  <2>6. Right(Future(t), Tells(th[t].promise, told))'
    BY <1>2, <1>4, <2>4, <2>5 DEF Right
  <2>7. Fits(told, Kept(ini), GateId(ini))'
    BY <2>2
  <2>8. th'["tcp"].pc \in {"load", "open"} => t = "tcp"
    BY <2>3 DEF Busy, Thread
  <2>9. t = "tcp" => flash' = [Kept(ini) EXCEPT !.domain = 0]'
    BY <2>2
  <2> QED BY <2>3, <2>6, <2>7, <2>8, <2>9 DEF DiskInv
<1> QED BY <1>2, <1>3, <1>4, <1>5, <1>6

\* The settings are saved.
LEMMA SaveBegins ==
  ASSUME ConfigInv, NEW t \in Thread, NEW p \in Promises, xsdk_config_save(t, flash', p), ini' = ini, gid' = gid,
         boot # "id", flash' \in Flash, flash'.check = Check,
         (~excused /\ \A u \in Thread : ~Busy(u)) =>
            /\ Fits(told', Kept(ini), GateId(ini))
            /\ Fits(Tells(p, told'), flash', GateId(ini))
            /\ t = "tcp" => flash' = [Kept(ini) EXCEPT !.domain = 0]
  PROVE  /\ th' \in [Thread -> Kinds] /\ excused' \in BOOLEAN /\ DiskInv'
         /\ ~Busy(t) /\ th'[t].promise = p /\ \A u \in Thread \ {t} : th'[u] = th[u]
<1>1. PICK x : x = flash'
  OBVIOUS
<1>2. Write(t, SdkKey, Text(x), p)
  BY <1>1 DEF xsdk_config_save, Text
<1>3. x \in Flash /\ x.check = Check
  BY <1>1
<1>4. [pc |-> "load", k |-> SdkKey, v |-> Text(x), promise |-> p] \in Kinds
  BY <1>3 DEF Kinds
<1>5. PICK w : w = write_profile_string(Section, SdkKey, Text(x), ini)
  OBVIOUS
<1>6. ini \in Files
  BY DEF ConfigInv, TypeInv
<1>7. w \in Files /\ Kept(w) = x /\ GateId(w) = GateId(ini)
  BY <1>3, <1>5, <1>6, SettingsWritten
<1>8. ASSUME ~excused, \A u \in Thread : ~Busy(u)
      PROVE  Right(write_profile_string(Section, SdkKey, Text(x), ini), Tells(p, told))'
  <2>1. Right(ini, told)
    BY <1>8 DEF ConfigInv, DiskInv
  <2>2. GateId(w) = gid'
    BY <1>7, <2>1 DEF Right
  <2>3. Fits(Tells(p, told'), Kept(w), GateId(w))
    BY <1>1, <1>7, <1>8
  <2>4. write_profile_string(Section, SdkKey, Text(x), ini') = w
    BY <1>5
  <2> QED BY <1>1, <1>7, <2>2, <2>3, <2>4 DEF Right
<1> QED BY <1>2, <1>4, <1>8, WriteBegins

-----------------------------------------------------------------------------
(* The start                                                               *)

LEMMA StartIsAlone ==
  ASSUME ConfigInv, boot # "running", ~Busy("main")
  PROVE  \A u \in Thread : ~Busy(u)
  BY IdleIs DEF ConfigInv, StageInv, Thread, Busy

LEMMA CreateKeeps ==
  ASSUME ConfigInv, CreateGateId
  PROVE  ConfigInv'
<1> USE DEF ConfigInv
<1>1. PICK n : n = 10 + starts
  OBVIOUS
<1>2. n \in Nat /\ gid' = n /\ boot = "id" /\ boot' = "sdk" /\ Write("main", "gatewayid", <<n>>, <<>>)
      /\ UNCHANGED <<ini, flash, info, told, starts>> /\ XDReadString("gatewayid", ini) = NotFound
  <2>1. starts \in Nat
    BY DEF TypeInv
  <2> QED BY <1>1, <2>1 DEF CreateGateId
<1>3. ~Busy("main") /\ "main" \in Thread /\ (\A u \in Thread : ~Busy(u))
  BY <1>2, StartIsAlone DEF Write, Thread
<1>4. PICK w : w = write_profile_string(Section, "gatewayid", <<n>>, ini)
  OBVIOUS
<1>5. ini \in Files
  BY DEF TypeInv
<1>6. w \in Files /\ Kept(w) = Kept(ini) /\ GateId(w) = n
  BY <1>2, <1>4, <1>5, GateIdWritten
<1>7. GateId(ini) = 0
  BY <1>2 DEF GateId
<1>8. [pc |-> "load", k |-> "gatewayid", v |-> <<n>>, promise |-> <<>>] \in Kinds
  BY <1>2 DEF Kinds
<1>9. Tells(<<>>, told) = told
  BY Merged DEF TypeInv
<1>10. ASSUME ~excused
       PROVE  /\ Fits(told', Kept(ini), GateId(ini))
              /\ Right(write_profile_string(Section, "gatewayid", <<n>>, ini), Tells(<<>>, told))'
  <2>1. Fits(told, Kept(ini), GateId(ini))
    BY <1>3, <1>10 DEF DiskInv, Right
  <2>2. Fits(told, Kept(w), n)
    BY <1>6, <1>7, <2>1 DEF Fits
  <2>3. Right(w, told)'
    BY <1>2, <1>6, <2>2 DEF Right
  <2>4. write_profile_string(Section, "gatewayid", <<n>>, ini') = w
    BY <1>2, <1>4
  <2>5. Tells(<<>>, told') = told'
    BY <1>2, <1>9
  <2> QED BY <1>2, <2>1, <2>3, <2>4, <2>5 DEF Right
<1>11. /\ th' \in [Thread -> Kinds] /\ excused' \in BOOLEAN /\ DiskInv'
       /\ \A u \in Thread \ {"main"} : th'[u] = th[u]
  BY <1>2, <1>3, <1>8, <1>10, WriteBegins
<1>12. TypeInv'
  BY <1>2, <1>11 DEF TypeInv, Boots
<1>13. StageInv'
  BY <1>2, <1>3, <1>11, IdleIs DEF StageInv, Busy, Thread
<1> QED BY <1>11, <1>12, <1>13

LEMMA ReadKeeps ==
  ASSUME ConfigInv, ReadGateId
  PROVE  ConfigInv'
<1> USE DEF ConfigInv
<1>1. boot = "id" /\ boot' = "sdk" /\ gid' = XDReadString("gatewayid", ini)[1] /\ XDReadString("gatewayid", ini) # NotFound
      /\ UNCHANGED <<ini, flash, info, th, told, excused, starts>>
  BY DEF ReadGateId
<1>2. ~Busy("main") /\ "main" \in Thread /\ (\A u \in Thread : ~Busy(u))
  BY <1>1, StartIsAlone, IdleIs DEF StageInv, Busy, Thread
<1>3. gid' = GateId(ini) /\ GateId(ini) \in Nat
  BY <1>1, GateIdIs DEF TypeInv, GateId
<1>4. TypeInv'
  BY <1>1, <1>3 DEF TypeInv, Boots
<1>5. StageInv'
  BY <1>1, <1>2, IdleIs DEF StageInv, Busy, Thread
<1>6. DiskInv'
  BY <1>1, <1>2, <1>3 DEF DiskInv, Right, Busy, Thread
<1> QED BY <1>4, <1>5, <1>6

LEMMA ConfigInitKeeps ==
  ASSUME ConfigInv, xsdk_config_init
  PROVE  ConfigInv'
<1> USE DEF ConfigInv
<1>1. boot = "sdk" /\ boot' = "data" /\ ~Busy("main") /\ told' = [told EXCEPT !.gid = gid]
      /\ UNCHANGED <<ini, info, gid, starts>> /\ "main" \in Thread
  BY DEF xsdk_config_init, Thread
<1>2. \A u \in Thread : ~Busy(u)
  BY <1>1, StartIsAlone
<1>3. told \in Told /\ ini \in Files /\ gid \in Nat
  BY DEF TypeInv
<1>4. told' \in Told /\ told'.gid = gid /\ told'.key = told.key /\ told'.name = told.name /\ told'.id = told.id
      /\ told'.upg = told.upg /\ told'.domain = told.domain
  BY <1>1, <1>3 DEF Told
<1>5. flash' = Kept(ini) /\ flash' \in Flash /\ flash'.check = Check
  BY <1>3, KeptIsFlash DEF xsdk_config_init, Kept
<1>6. ~excused => Fits(told', Kept(ini), GateId(ini)) /\ GateId(ini) = gid
  <2>1. ~excused => Right(ini, told)
    BY <1>2 DEF DiskInv
  <2> QED BY <1>1, <1>4, <2>1 DEF Right, Fits
<1>7. CASE UNCHANGED <<th, excused>>
  <2>1. TypeInv'
    BY <1>1, <1>4, <1>5, <1>7 DEF TypeInv, Boots
  <2>2. StageInv'
    BY <1>1, <1>2, <1>5, <1>7, IdleIs DEF StageInv, Busy, Thread
  <2>3. DiskInv'
    BY <1>1, <1>2, <1>5, <1>6, <1>7 DEF DiskInv, Right, Busy, Thread
  <2> QED BY <2>1, <2>2, <2>3
<1>8. CASE xsdk_config_save("main", flash', <<>>)
  <2>1. <<>> \in Promises
    BY DEF Promises
  <2>2. Tells(<<>>, told') = told'
    BY <1>4, Merged
  <2>3. /\ th' \in [Thread -> Kinds] /\ excused' \in BOOLEAN /\ DiskInv'
        /\ \A u \in Thread \ {"main"} : th'[u] = th[u]
    BY <1>1, <1>2, <1>5, <1>6, <1>8, <2>1, <2>2, SaveBegins
  <2>4. TypeInv'
    BY <1>1, <1>4, <1>5, <2>3 DEF TypeInv, Boots
  <2>5. StageInv'
    BY <1>1, <1>2, <1>5, <2>3, IdleIs DEF StageInv, Busy, Thread
  <2> QED BY <2>3, <2>4, <2>5
<1> QED BY <1>7, <1>8 DEF xsdk_config_init

LEMMA DataInitKeeps ==
  ASSUME ConfigInv, XlinkSdkDataInit
  PROVE  ConfigInv'
<1> USE DEF ConfigInv
<1>1. boot = "data" /\ boot' = "name" /\ ~Busy("main") /\ info' = flash.sdk
      /\ UNCHANGED <<ini, flash, gid, th, told, excused, starts>>
  BY DEF XlinkSdkDataInit
<1>2. \A u \in Thread : ~Busy(u) /\ th[u] = Idle
  <2>1. \A u \in Thread : ~Busy(u)
    BY <1>1, StartIsAlone
  <2> QED BY <2>1, KindsAre DEF TypeInv, Busy
<1>3. info' \in Flags
  BY <1>1 DEF TypeInv, Flash
<1>4. TypeInv'
  BY <1>1, <1>3 DEF TypeInv, Boots
<1>5. StageInv'
  BY <1>1, <1>2, IdleIs DEF StageInv, Busy, Thread
<1>6. DiskInv'
  BY <1>1, <1>2 DEF DiskInv, Right, Busy, Thread
<1> QED BY <1>4, <1>5, <1>6

LEMMA FirstNameKeeps ==
  ASSUME ConfigInv, XlinkSetDeviceName
  PROVE  ConfigInv'
<1> USE DEF ConfigInv
<1>1. boot = "name" /\ boot' = "threads" /\ UNCHANGED <<ini, info, gid, told, starts>> /\ "main" \in Thread
  BY DEF XlinkSetDeviceName, Thread
<1>2. ~Busy("main") /\ (\A u \in Thread : ~Busy(u)) /\ info = flash.sdk /\ flash.check = Check
  BY <1>1, StartIsAlone, IdleIs DEF StageInv, Busy
<1>3. CASE info.app = 1 /\ UNCHANGED <<flash, th, excused>>
  <2>1. TypeInv'
    BY <1>1, <1>3 DEF TypeInv, Boots
  <2>2. StageInv'
    BY <1>1, <1>2, <1>3, IdleIs DEF StageInv, Busy, Thread
  <2>3. DiskInv'
    BY <1>1, <1>2, <1>3 DEF DiskInv, Right, Busy, Thread
  <2> QED BY <2>1, <2>2, <2>3
<1>4. CASE info.app # 1 /\ flash' = [flash EXCEPT !.name = FirstName] /\ xsdk_config_save("main", flash', <<>>)
  <2>1. <<>> \in Promises /\ Tells(<<>>, told') = told' /\ FirstName \in 0..255
    <3>1. told \in Told /\ told' = told
      BY <1>1 DEF TypeInv
    <3>2. Tells(<<>>, told) = told
      BY <3>1, Merged
    <3>3. <<>> \in Promises
      BY DEF Promises
    <3> QED BY <3>1, <3>2, <3>3 DEF FirstName
  <2>2. flash' \in Flash /\ flash'.check = flash.check /\ flash'.sdk = flash.sdk /\ flash'.key = flash.key
        /\ flash'.domain = flash.domain /\ flash'.name = FirstName
    <3>1. flash \in Flash
      BY DEF TypeInv
    <3>2. flash' = [flash EXCEPT !.name = FirstName] /\ FirstName \in 0..255
      BY <1>4, <2>1
    <3> QED BY ONLY <3>1, <3>2 DEF Flash
  <2>3. ASSUME ~excused
        PROVE  Fits(told', Kept(ini), GateId(ini)) /\ Fits(told', flash', GateId(ini))
    <3>1. Right(ini, told)
      BY <1>2, <2>3 DEF DiskInv
    <3>2. Fits(told, flash, GateId(ini)) /\ Kept(ini) = flash
      BY <1>1, <3>1 DEF Right
    <3>3. Fits(told, flash', GateId(ini))
      BY <1>2, <1>4, <2>2, <3>2 DEF Fits
    <3> QED BY <1>1, <3>2, <3>3
  <2>4. /\ th' \in [Thread -> Kinds] /\ excused' \in BOOLEAN /\ DiskInv'
        /\ \A u \in Thread \ {"main"} : th'[u] = th[u]
    BY <1>1, <1>2, <1>4, <2>1, <2>2, <2>3, SaveBegins
  <2>5. TypeInv'
    BY <1>1, <2>2, <2>4 DEF TypeInv, Boots
  <2>6. StageInv'
    BY <1>1, <1>2, <2>2, <2>4, IdleIs DEF StageInv, Busy, Thread
  <2> QED BY <2>4, <2>5, <2>6
<1> QED BY <1>3, <1>4 DEF XlinkSetDeviceName

LEMMA OnDiskFits ==
  ASSUME NEW f \in Files
  PROVE  OnDisk(f) \in Told /\ Fits(OnDisk(f), Kept(f), GateId(f))
<1>1. PICK k : k = Kept(f)
  OBVIOUS
<1>2. k \in Flash /\ GateId(f) \in Nat
  BY <1>1, FilesTyped
<1>3. k.sdk \in Flags /\ k.domain \in Nat
  BY <1>2 DEF Flash
<1>4. k.sdk.act \in 0..1 /\ k.sdk.id \in Nat /\ k.sdk.upg \in Nat
  BY <1>3 DEF Flags
<1>5. k.sdk.act * k.sdk.id \in Nat
  <2>1. k.sdk.act = 0 \/ k.sdk.act = 1
    BY <1>4
  <2> QED BY <1>4, <2>1
<1>6. OnDisk(f) = [gid |-> GateId(f), key |-> 0, name |-> 0, id |-> k.sdk.act * k.sdk.id,
                   upg |-> k.sdk.upg, domain |-> k.domain]
  BY <1>1 DEF OnDisk
<1>7. OnDisk(f) \in Told
  BY <1>2, <1>3, <1>4, <1>5, <1>6 DEF Told
<1>8. Fits(OnDisk(f), k, GateId(f))
  BY <1>6 DEF Fits
<1> QED BY <1>1, <1>7, <1>8

LEMMA StartKeeps ==
  ASSUME ConfigInv, XDeviceStart
  PROVE  ConfigInv'
<1> USE DEF ConfigInv
<1>1. /\ boot = "threads" /\ boot' = "running" /\ ~Busy("main")
      /\ told' = IF excused THEN OnDisk(ini) ELSE told
      /\ excused' = (excused /\ (Kept(ini) # flash \/ GateId(ini) # gid))
      /\ UNCHANGED <<ini, flash, info, gid, th, starts>>
  BY DEF XDeviceStart
<1>2. \A u \in Thread : ~Busy(u) /\ th[u] = Idle
  <2>1. \A u \in Thread : ~Busy(u)
    BY <1>1, StartIsAlone
  <2> QED BY <2>1, KindsAre DEF TypeInv, Busy
<1>3. ini \in Files
  BY DEF TypeInv
<1>4. TypeInv'
  BY <1>1, <1>3, OnDiskFits DEF TypeInv, Boots
<1>5. StageInv'
  BY <1>1, <1>2, IdleIs DEF StageInv, Busy, Thread
<1>6. DiskInv'
  <2>1. SUFFICES ASSUME ~excused' PROVE DiskInv'
    BY DEF DiskInv
  <2>2. Right(ini, told)'
    <3>1. CASE excused
      BY <1>1, <1>3, <2>1, <3>1, OnDiskFits DEF Right
    <3>2. CASE ~excused
      <4>1. Right(ini, told)
        BY <1>2, <3>2 DEF DiskInv
      <4> QED BY <1>1, <3>2, <4>1 DEF Right
    <3> QED BY <3>1, <3>2
  <2> QED BY <1>1, <1>2, <2>2, IdleIs DEF DiskInv, Right, Busy, Thread
<1> QED BY <1>4, <1>5, <1>6

LEMMA PowerKeeps ==
  ASSUME ConfigInv, PowerFails
  PROVE  ConfigInv'
<1> USE DEF ConfigInv
<1>1. /\ starts < MaxStarts /\ starts' = starts + 1 /\ th' = [t \in Thread |-> Idle]
      /\ excused' = (excused \/ \E t \in Thread : th[t].pc = "write")
      /\ flash' = Zeroed /\ info' = NoFlags /\ gid' = 0 /\ boot' = "id" /\ UNCHANGED <<ini, told>>
  BY DEF PowerFails
<1>2. \A u \in Thread : th'[u] = Idle
  BY <1>1
<1>3. TypeInv'
  <2>1. starts' \in 1..MaxStarts
    BY <1>1, ConfigAssumption DEF TypeInv
  <2>2. th' \in [Thread -> Kinds] /\ excused' \in BOOLEAN
    BY <1>1, IdleIs
  <2> QED BY <1>1, <2>1, <2>2, ErasedIsFlash DEF TypeInv, Boots
<1>4. StageInv'
  BY <1>1, <1>2, IdleIs DEF StageInv, Busy, Thread
<1>5. DiskInv'
  <2>1. SUFFICES ASSUME ~excused' PROVE DiskInv'
    BY DEF DiskInv
  <2>2. ~excused /\ \A t \in Thread : th[t].pc # "write"
    BY <1>1, <2>1
  <2>3. Fits(told, Kept(ini), GateId(ini))
    BY <2>2 DEF DiskInv
  <2> QED BY <1>1, <1>2, <2>3, IdleIs DEF DiskInv, Right, Busy, Thread
<1> QED BY <1>3, <1>4, <1>5

LEMMA FirstInv ==
  ASSUME ConfigInit PROVE ConfigInv
<1>1. ini \in Files /\ Kept(ini) = Erased
  BY FirstFiles DEF ConfigInit
<1>2. /\ flash = Zeroed /\ info = NoFlags /\ gid = 0 /\ th = [t \in Thread |-> Idle] /\ boot = "id"
      /\ told = Nothing /\ excused = FALSE /\ starts = 1
  BY DEF ConfigInit
<1>3. \A u \in Thread : th[u] = Idle
  BY <1>2
<1>4. Nothing \in Told
  BY DEF Nothing, Told
<1>5. TypeInv
  <2>1. starts \in 1..MaxStarts
    BY <1>2, ConfigAssumption
  <2>2. th \in [Thread -> Kinds]
    BY <1>2, IdleIs
  <2> QED BY <1>1, <1>2, <1>4, <2>1, <2>2, ErasedIsFlash DEF TypeInv, Boots
<1>6. StageInv
  BY <1>2, <1>3, IdleIs DEF StageInv, Busy, Thread
<1>7. Fits(told, Kept(ini), GateId(ini))
  <2>1. PICK e : e = Erased
    OBVIOUS
  <2>2. e.sdk = NoFlags /\ e.domain = 0
    BY <2>1 DEF Erased, Zeroed
  <2>3. e.sdk.act = 0 /\ e.sdk.id = 0 /\ e.sdk.upg = 0
    BY <2>2 DEF NoFlags
  <2>4. told.gid = 0 /\ told.key = 0 /\ told.name = 0 /\ told.id = 0 /\ told.upg = 0 /\ told.domain = 0
    BY <1>2 DEF Nothing
  <2> QED BY <1>1, <2>1, <2>2, <2>3, <2>4 DEF Fits
<1>8. DiskInv
  BY <1>2, <1>3, <1>7, IdleIs DEF DiskInv, Right, Busy, Thread
<1> QED BY <1>5, <1>6, <1>8 DEF ConfigInv

-----------------------------------------------------------------------------
(* The operations                                                          *)

LEMMA RunningFacts ==
  ASSUME ConfigInv, NEW t \in {"udp", "tcp"}, Ready(t)
  PROVE  /\ boot = "running" /\ ~Busy(t) /\ th["main"] = Idle /\ info = flash.sdk /\ flash.check = Check
         /\ info.app = 1 \/ flash.name = FirstName
         /\ flash \in Flash /\ info \in Flags /\ told \in Told /\ ini \in Files /\ starts \in 0..255
         /\ GateId(ini) \in Nat /\ Kept(ini) \in Flash
<1>1. starts \in 0..255
  BY ConfigAssumption DEF ConfigInv, TypeInv
<1> QED BY <1>1, FilesTyped DEF ConfigInv, TypeInv, StageInv, Ready

\* An operation that changes the settings and saves them.
LEMMA SavesKeep ==
  ASSUME ConfigInv, NEW t \in {"udp", "tcp"}, NEW x \in Flash, NEW p \in Promises, Ready(t), Saves(t, x, p),
         info' = x.sdk, x.check = flash.check, x.sdk.app = 1 \/ x.name = FirstName,
         t = "tcp" => p = [domain |-> 0] /\ x = [flash EXCEPT !.domain = 0],
         \A g \in Nat : Fits(told, flash, g) => Fits(Tells(p, told), x, g)
  PROVE  ConfigInv'
<1> USE DEF ConfigInv
<1>1. boot = "running" /\ ~Busy(t) /\ th["main"] = Idle /\ flash.check = Check /\ told \in Told /\ GateId(ini) \in Nat
  BY RunningFacts
<1>2. flash' = x /\ UNCHANGED <<ini, gid, boot, told, starts>> /\ xsdk_config_save(t, x, p) /\ t \in Thread
  BY DEF Saves, Thread
<1>3. xsdk_config_save(t, flash', p) /\ ini' = ini /\ gid' = gid /\ boot # "id" /\ flash' \in Flash /\ flash'.check = Check
  BY <1>1, <1>2
<1>4. ASSUME ~excused, \A u \in Thread : ~Busy(u)
      PROVE  /\ Fits(told', Kept(ini), GateId(ini))
             /\ Fits(Tells(p, told'), flash', GateId(ini))
             /\ t = "tcp" => flash' = [Kept(ini) EXCEPT !.domain = 0]
  <2>1. Right(ini, told)
    BY <1>4 DEF DiskInv
  <2>2. Fits(told, Kept(ini), GateId(ini)) /\ Kept(ini) = flash
    BY <1>1, <2>1 DEF Right
  <2>3. Fits(Tells(p, told), x, GateId(ini))
    BY <1>1, <2>2
  <2> QED BY <1>2, <2>2, <2>3
<1>5. /\ th' \in [Thread -> Kinds] /\ excused' \in BOOLEAN /\ DiskInv'
      /\ ~Busy(t) /\ th'[t].promise = p /\ \A u \in Thread \ {t} : th'[u] = th[u]
  BY <1>2, <1>3, <1>4, SaveBegins
<1>6. info' \in Flags
  BY DEF Flash
<1>7. TypeInv'
  BY <1>2, <1>5, <1>6 DEF TypeInv
<1>8. StageInv'
  <2>1. th'["main"] = Idle
    BY <1>1, <1>5 DEF Thread
  <2>2. Busy("tcp")' => th'["tcp"].promise = [domain |-> 0]
    BY <1>5 DEF StageInv, Thread, Busy
  <2> QED BY <1>1, <1>2, <1>3, <2>1, <2>2 DEF StageInv
<1> QED BY <1>5, <1>7, <1>8

\* A phone is told what the settings in memory say.
LEMMA TellKeeps ==
  ASSUME ConfigInv, Ready("udp"), xlink_process_tcp_subscribe_V3 \/ xlink_process_tcp_probe_V2
  PROVE  ConfigInv'
<1> USE DEF ConfigInv
<1>1. /\ boot = "running" /\ ~Busy("udp") /\ th["main"] = Idle /\ info = flash.sdk
      /\ info.app = 1 \/ flash.name = FirstName
      /\ flash \in Flash /\ told \in Told
  BY RunningFacts
<1>2. UNCHANGED <<ini, flash, info, gid, th, boot, excused, starts>>
      /\ told' \in {[told EXCEPT !.key = flash.key], [told EXCEPT !.name = flash.name]}
  BY DEF xlink_process_tcp_subscribe_V3, xlink_process_tcp_probe_V2
<1>3. /\ told'.gid = told.gid /\ told'.id = told.id /\ told'.upg = told.upg /\ told'.domain = told.domain
      /\ told'.key \in {told.key, flash.key} /\ told'.name \in {told.name, flash.name} /\ told' \in Told
  <2>1. flash.key \in Nat /\ flash.name \in Nat
    BY <1>1 DEF Flash
  <2> QED BY <1>1, <1>2, <2>1 DEF Told
<1>4. TypeInv'
  BY <1>2, <1>3 DEF TypeInv
<1>5. StageInv'
  BY <1>2 DEF StageInv, Busy
<1>6. ASSUME NEW k, NEW g, Fits(told, k, g), k.key = flash.key, k.name = flash.name, k.sdk = flash.sdk
      PROVE  Fits(told', k, g)
  BY <1>1, <1>3, <1>6 DEF Fits
<1>7. DiskInv'
  <2>1. SUFFICES ASSUME ~excused PROVE DiskInv'
    BY <1>2 DEF DiskInv
  <2>2. CASE ~Busy("tcp")
    <3>1. \A u \in Thread : ~Busy(u)
      BY <1>1, <2>2, IdleIs DEF Thread, Busy
    <3>2. Right(ini, told)
      BY <2>1, <3>1 DEF DiskInv
    <3>3. Kept(ini) = flash
      BY <1>1, <3>2 DEF Right
    <3>4. Fits(told', Kept(ini), GateId(ini))
      BY <1>6, <3>2, <3>3 DEF Right
    <3>5. Right(ini, told)'
      BY <1>2, <3>2, <3>4 DEF Right
    <3> QED BY <1>2, <3>1, <3>4, <3>5 DEF DiskInv, Busy, Thread
  <2>3. CASE Busy("tcp")
    <3>1. "tcp" \in Thread /\ \A u \in Thread : Busy(u) => u = "tcp"
      BY <2>1, <2>3 DEF DiskInv, Thread
    <3>2. Right(Future("tcp"), Tells(th["tcp"].promise, told)) /\ th["tcp"].promise = [domain |-> 0]
      BY <2>1, <2>3, <3>1 DEF DiskInv, StageInv
    <3>3. PICK f : f = Future("tcp")
      OBVIOUS
    <3>4. Tells([domain |-> 0], told) = [told EXCEPT !.domain = 0]
          /\ Tells([domain |-> 0], told') = [told' EXCEPT !.domain = 0]
      BY <1>1, <1>3, Merged
    <3>5. Kept(f) = flash /\ Fits([told EXCEPT !.domain = 0], flash, GateId(f))
      BY <1>1, <3>2, <3>3, <3>4 DEF Right
    <3>6. Fits([told' EXCEPT !.domain = 0], flash, GateId(f))
      <4>1. PICK u, w : u = [told EXCEPT !.domain = 0] /\ w = [told' EXCEPT !.domain = 0]
        OBVIOUS
      <4>2. /\ w.gid = u.gid /\ w.id = u.id /\ w.upg = u.upg /\ w.domain = u.domain
            /\ w.key \in {u.key, flash.key} /\ w.name \in {u.name, flash.name}
        BY <1>1, <1>3, <4>1 DEF Told
      <4> QED BY <1>1, <3>5, <4>1, <4>2 DEF Fits
    <3>7. Right(Future("tcp"), Tells(th["tcp"].promise, told))'
      <4>1. Future("tcp")' = f
        BY <1>2, <3>3 DEF Future
      <4> QED BY <1>2, <3>2, <3>3, <3>4, <3>5, <3>6, <4>1 DEF Right
    <3>8. ASSUME th["tcp"].pc # "write"
          PROVE  Fits(told', Kept(ini), GateId(ini))
      <4>1. Fits(told, Kept(ini), GateId(ini))
        BY <2>1, <3>1, <3>8 DEF DiskInv, Busy
      <4>2. flash = [Kept(ini) EXCEPT !.domain = 0]
        <5>1. th["tcp"].pc \in {"load", "open"}
          BY <2>3, <3>1, <3>8, KindsAre DEF TypeInv, Busy
        <5> QED BY <2>1, <5>1 DEF DiskInv
      <4>3. Kept(ini) \in Flash
        BY FilesTyped DEF TypeInv
      <4>4. Kept(ini).key = flash.key /\ Kept(ini).name = flash.name /\ Kept(ini).sdk = flash.sdk
        BY <4>2, <4>3 DEF Flash
      <4> QED BY <1>6, <4>1, <4>4
    <3>9. \A u \in Thread : Busy(u)' <=> Busy(u)
      BY <1>2 DEF Busy
    <3>10. th'["tcp"].pc \in {"load", "open"} => flash' = [Kept(ini) EXCEPT !.domain = 0]'
      BY <1>2, <2>1 DEF DiskInv
    <3> QED BY <1>2, <2>3, <3>1, <3>7, <3>8, <3>9, <3>10 DEF DiskInv
  <2> QED BY <2>2, <2>3
<1> QED BY <1>4, <1>5, <1>7

\* The fields of what has been told, once a promise is kept.
LEMMA ToldSet ==
  ASSUME NEW t \in Told
  PROVE  /\ \A n \in Nat : LET u == Tells([name |-> n], t) IN
              u.gid = t.gid /\ u.key = t.key /\ u.name = n /\ u.id = t.id /\ u.upg = t.upg /\ u.domain = t.domain
         /\ \A n \in Nat : LET u == Tells([key |-> n], t) IN
              u.gid = t.gid /\ u.key = n /\ u.name = t.name /\ u.id = t.id /\ u.upg = t.upg /\ u.domain = t.domain
         /\ \A n \in Nat : LET u == Tells([id |-> n], t) IN
              u.gid = t.gid /\ u.key = t.key /\ u.name = t.name /\ u.id = n /\ u.upg = t.upg /\ u.domain = t.domain
         /\ \A n \in Nat : LET u == Tells([upg |-> n], t) IN
              u.gid = t.gid /\ u.key = t.key /\ u.name = t.name /\ u.id = t.id /\ u.upg = n /\ u.domain = t.domain
         /\ \A n \in Nat : LET u == Tells([domain |-> n], t) IN
              u.gid = t.gid /\ u.key = t.key /\ u.name = t.name /\ u.id = t.id /\ u.upg = t.upg /\ u.domain = n
         /\ LET u == Tells([key |-> 0, id |-> 0], t) IN
              u.gid = t.gid /\ u.key = 0 /\ u.name = t.name /\ u.id = 0 /\ u.upg = t.upg /\ u.domain = t.domain
<1>1. ASSUME NEW n \in Nat
      PROVE  LET u == Tells([name |-> n], t) IN
              u.gid = t.gid /\ u.key = t.key /\ u.name = n /\ u.id = t.id /\ u.upg = t.upg /\ u.domain = t.domain
  <2>1. Tells([name |-> n], t) = [t EXCEPT !.name = n]
    BY Merged
  <2> QED BY <2>1 DEF Told
<1>2. ASSUME NEW n \in Nat
      PROVE  LET u == Tells([key |-> n], t) IN
              u.gid = t.gid /\ u.key = n /\ u.name = t.name /\ u.id = t.id /\ u.upg = t.upg /\ u.domain = t.domain
  <2>1. Tells([key |-> n], t) = [t EXCEPT !.key = n]
    BY Merged
  <2> QED BY <2>1 DEF Told
<1>3. ASSUME NEW n \in Nat
      PROVE  LET u == Tells([id |-> n], t) IN
              u.gid = t.gid /\ u.key = t.key /\ u.name = t.name /\ u.id = n /\ u.upg = t.upg /\ u.domain = t.domain
  <2>1. Tells([id |-> n], t) = [t EXCEPT !.id = n]
    BY Merged
  <2> QED BY <2>1 DEF Told
<1>4. ASSUME NEW n \in Nat
      PROVE  LET u == Tells([upg |-> n], t) IN
              u.gid = t.gid /\ u.key = t.key /\ u.name = t.name /\ u.id = t.id /\ u.upg = n /\ u.domain = t.domain
  <2>1. Tells([upg |-> n], t) = [t EXCEPT !.upg = n]
    BY Merged
  <2> QED BY <2>1 DEF Told
<1>5. ASSUME NEW n \in Nat
      PROVE  LET u == Tells([domain |-> n], t) IN
              u.gid = t.gid /\ u.key = t.key /\ u.name = t.name /\ u.id = t.id /\ u.upg = t.upg /\ u.domain = n
  <2>1. Tells([domain |-> n], t) = [t EXCEPT !.domain = n]
    BY Merged
  <2> QED BY <2>1 DEF Told
<1>6. LET u == Tells([key |-> 0, id |-> 0], t) IN
              u.gid = t.gid /\ u.key = 0 /\ u.name = t.name /\ u.id = 0 /\ u.upg = t.upg /\ u.domain = t.domain
  <2>1. Tells([key |-> 0, id |-> 0], t) = [t EXCEPT !.key = 0, !.id = 0]
    BY Merged
  <2> QED BY <2>1 DEF Told
<1> QED BY <1>1, <1>2, <1>3, <1>4, <1>5, <1>6

\* The flags, after one of them was set.
LEMMA FlagSet ==
  ASSUME NEW f \in Flags
  PROVE  /\ LET s == [f EXCEPT !.app = 1] IN s \in Flags /\ s.app = 1 /\ s.act = f.act /\ s.id = f.id /\ s.upg = f.upg
         /\ LET s == [f EXCEPT !.act = 0] IN s \in Flags /\ s.app = f.app /\ s.act = 0 /\ s.id = f.id /\ s.upg = f.upg
         /\ \A n \in 0..255 : LET s == [f EXCEPT !.act = 1, !.id = n] IN
              s \in Flags /\ s.app = f.app /\ s.act = 1 /\ s.id = n /\ s.upg = f.upg
         /\ \A b \in 0..1 : LET s == [f EXCEPT !.upg = b, !.ver = 1] IN
              s \in Flags /\ s.app = f.app /\ s.act = f.act /\ s.id = f.id /\ s.upg = b
<1>1. LET s == [f EXCEPT !.app = 1] IN s \in Flags /\ s.app = 1 /\ s.act = f.act /\ s.id = f.id /\ s.upg = f.upg
  BY DEF Flags
<1>2. LET s == [f EXCEPT !.act = 0] IN s \in Flags /\ s.app = f.app /\ s.act = 0 /\ s.id = f.id /\ s.upg = f.upg
  BY DEF Flags
<1>3. ASSUME NEW n \in 0..255
      PROVE  LET s == [f EXCEPT !.act = 1, !.id = n] IN
              s \in Flags /\ s.app = f.app /\ s.act = 1 /\ s.id = n /\ s.upg = f.upg
  <2>1. PICK g : g = [f EXCEPT !.act = 1]
    OBVIOUS
  <2>2. g \in Flags /\ g.app = f.app /\ g.act = 1 /\ g.upg = f.upg
    BY <2>1 DEF Flags
  <2>3. PICK h : h = [g EXCEPT !.id = n]
    OBVIOUS
  <2>4. h \in Flags /\ h.app = g.app /\ h.act = g.act /\ h.upg = g.upg /\ h.id = n
    BY <2>2, <2>3 DEF Flags
  <2> QED BY <2>1, <2>2, <2>3, <2>4
<1>4. ASSUME NEW b \in 0..1
      PROVE  LET s == [f EXCEPT !.upg = b, !.ver = 1] IN
              s \in Flags /\ s.app = f.app /\ s.act = f.act /\ s.id = f.id /\ s.upg = b
  <2>1. PICK g : g = [f EXCEPT !.upg = b]
    OBVIOUS
  <2>2. g \in Flags /\ g.app = f.app /\ g.act = f.act /\ g.id = f.id /\ g.upg = b
    BY <2>1 DEF Flags
  <2>3. PICK h : h = [g EXCEPT !.ver = 1]
    OBVIOUS
  <2>4. h \in Flags /\ h.app = g.app /\ h.act = g.act /\ h.upg = g.upg /\ h.id = g.id
    BY <2>2, <2>3 DEF Flags
  <2> QED BY <2>1, <2>2, <2>3, <2>4
<1> QED BY <1>1, <1>2, <1>3, <1>4

\* What is zero, or the flag times the id.
LEMMA ActiveId ==
  ASSUME NEW f \in Flags
  PROVE  /\ f.act * f.id \in Nat /\ (f.act = 0 => f.act * f.id = 0) /\ (f.act = 1 => f.act * f.id = f.id)
<1>1. f.act \in 0..1 /\ f.id \in Nat
  BY DEF Flags
<1>2. CASE f.act = 0
  BY <1>1, <1>2
<1>3. CASE f.act = 1
  BY <1>1, <1>3
<1> QED BY <1>1, <1>2, <1>3

LEMMA NameSet ==
  ASSUME ConfigInv, NEW n \in 0..255, XlinkSdkAppSetDeviceName(n)
  PROVE  ConfigInv'
<1>1. Ready("udp")
  BY DEF XlinkSdkAppSetDeviceName
<1>2. /\ info = flash.sdk /\ flash.check = Check /\ flash \in Flash /\ info \in Flags /\ told \in Told
      /\ starts \in 0..255
      /\ info.app = 1 \/ flash.name = FirstName
  BY <1>1, RunningFacts
<1>3. PICK s : s = [info EXCEPT !.app = 1]
  OBVIOUS
<1>4. s \in Flags /\ s.app = 1 /\ s.act = info.act /\ s.id = info.id /\ s.upg = info.upg
  BY ZenonT(60), <1>2, <1>3, FlagSet
<1>5. PICK x : x = [flash EXCEPT !.name = n, !.sdk = s]
  OBVIOUS
<1>6. x \in Flash /\ x.check = flash.check /\ x.sdk = s /\ x.name = n /\ x.key = flash.key /\ x.domain = flash.domain
  BY ZenonT(60), <1>2, <1>4, <1>5 DEF Flash
<1>7. PICK p : p = [name |-> n]
  OBVIOUS
<1>8. p \in Promises
  BY <1>2, <1>7 DEF Promises
<1>9. PICK u : u = Tells(p, told)
  OBVIOUS
<1>10. u.gid = told.gid /\ u.key = told.key /\ u.name = n /\ u.id = told.id /\ u.upg = told.upg /\ u.domain = told.domain
  BY <1>2, <1>7, <1>9, ToldSet
<1>11. ASSUME NEW g \in Nat, Fits(told, flash, g) PROVE Fits(u, x, g)
  <2>1. /\ told.gid \in {0, g} /\ told.key \in {0, flash.key} /\ told.name \in {0, flash.name}
        /\ told.id = info.act * info.id /\ told.upg = info.upg /\ told.domain = flash.domain
        /\ info.app = 1 \/ told.name \in {0, FirstName}
    BY <1>2, <1>11 DEF Fits
  <2>2. u.id = s.act * s.id
    BY <1>4, <1>10, <2>1
  <2> QED BY <1>4, <1>6, <1>10, <2>1, <2>2 DEF Fits
<1>12. Saves("udp", x, p) /\ info' = s
  BY <1>1, <1>2, <1>3, <1>5, <1>7 DEF XlinkSdkAppSetDeviceName
<1>13. x.sdk.app = 1 \/ x.name = FirstName
  BY <1>2, <1>4, <1>6
<1> QED BY <1>1, <1>2, <1>6, <1>8, <1>9, <1>11, <1>12, <1>13, SavesKeep

LEMMA KeySet ==
  ASSUME ConfigInv, NEW k \in 0..254, SetAccessKey(k)
  PROVE  ConfigInv'
<1>1. Ready("udp")
  BY DEF SetAccessKey
<1>2. /\ info = flash.sdk /\ flash.check = Check /\ flash \in Flash /\ info \in Flags /\ told \in Told
      /\ starts \in 0..255
      /\ info.app = 1 \/ flash.name = FirstName
  BY <1>1, RunningFacts
<1>3. PICK s : s = info
  OBVIOUS
<1>4. s \in Flags /\ s = info
  BY <1>2, <1>3
<1>5. PICK x : x = [flash EXCEPT !.key = k, !.sub = k + 1]
  OBVIOUS
<1>6. x \in Flash /\ x.check = flash.check /\ x.sdk = s /\ x.name = flash.name /\ x.key = k /\ x.domain = flash.domain
  <2>1. k \in 0..255 /\ k + 1 \in 0..255
    OBVIOUS
  <2> QED BY ZenonT(60), <1>2, <1>4, <1>5, <2>1 DEF Flash
<1>7. PICK p : p = [key |-> k]
  OBVIOUS
<1>8. p \in Promises
  BY <1>2, <1>7 DEF Promises
<1>9. PICK u : u = Tells(p, told)
  OBVIOUS
<1>10. u.gid = told.gid /\ u.key = k /\ u.name = told.name /\ u.id = told.id /\ u.upg = told.upg /\ u.domain = told.domain
  BY <1>2, <1>7, <1>9, ToldSet
<1>11. ASSUME NEW g \in Nat, Fits(told, flash, g) PROVE Fits(u, x, g)
  <2>1. /\ told.gid \in {0, g} /\ told.key \in {0, flash.key} /\ told.name \in {0, flash.name}
        /\ told.id = info.act * info.id /\ told.upg = info.upg /\ told.domain = flash.domain
        /\ info.app = 1 \/ told.name \in {0, FirstName}
    BY <1>2, <1>11 DEF Fits
  <2>2. u.id = s.act * s.id
    BY <1>4, <1>10, <2>1
  <2> QED BY <1>4, <1>6, <1>10, <2>1, <2>2 DEF Fits
<1>12. Saves("udp", x, p) /\ info' = s
  BY <1>1, <1>2, <1>3, <1>5, <1>7 DEF SetAccessKey
<1>13. x.sdk.app = 1 \/ x.name = FirstName
  BY <1>2, <1>4, <1>6
<1> QED BY <1>1, <1>2, <1>6, <1>8, <1>9, <1>11, <1>12, <1>13, SavesKeep

LEMMA ActivationSet ==
  ASSUME ConfigInv, NEW auth \in {0, 1}, Activated(auth)
  PROVE  ConfigInv'
<1>1. Ready("udp")
  BY DEF Activated
<1>2. /\ info = flash.sdk /\ flash.check = Check /\ flash \in Flash /\ info \in Flags /\ told \in Told
      /\ starts \in 0..255
      /\ info.app = 1 \/ flash.name = FirstName
  BY <1>1, RunningFacts
<1>3. PICK s : s = [info EXCEPT !.act = 1, !.id = starts]
  OBVIOUS
<1>4. s \in Flags /\ s.app = info.app /\ s.act = 1 /\ s.id = starts /\ s.upg = info.upg
  BY ZenonT(60), <1>2, <1>3, FlagSet
<1>5. PICK x : x = [flash EXCEPT !.auth = auth, !.sdk = s]
  OBVIOUS
<1>6. x \in Flash /\ x.check = flash.check /\ x.sdk = s /\ x.name = flash.name /\ x.key = flash.key /\ x.domain = flash.domain
  <2>1. auth \in 0..255
    OBVIOUS
  <2> QED BY ZenonT(60), <1>2, <1>4, <1>5, <2>1 DEF Flash
<1>7. PICK p : p = [id |-> starts]
  OBVIOUS
<1>8. p \in Promises
  BY <1>2, <1>7 DEF Promises
<1>9. PICK u : u = Tells(p, told)
  OBVIOUS
<1>10. u.gid = told.gid /\ u.key = told.key /\ u.name = told.name /\ u.id = starts /\ u.upg = told.upg /\ u.domain = told.domain
  BY <1>2, <1>7, <1>9, ToldSet
<1>11. ASSUME NEW g \in Nat, Fits(told, flash, g) PROVE Fits(u, x, g)
  <2>1. /\ told.gid \in {0, g} /\ told.key \in {0, flash.key} /\ told.name \in {0, flash.name}
        /\ told.id = info.act * info.id /\ told.upg = info.upg /\ told.domain = flash.domain
        /\ info.app = 1 \/ told.name \in {0, FirstName}
    BY <1>2, <1>11 DEF Fits
  <2>2. u.id = s.act * s.id
    BY <1>2, <1>4, <1>10, ActiveId
  <2> QED BY <1>4, <1>6, <1>10, <2>1, <2>2 DEF Fits
<1>12. Saves("udp", x, p) /\ info' = s
  BY <1>1, <1>2, <1>3, <1>5, <1>7 DEF Activated
<1>13. x.sdk.app = 1 \/ x.name = FirstName
  BY <1>2, <1>4, <1>6
<1> QED BY <1>1, <1>2, <1>6, <1>8, <1>9, <1>11, <1>12, <1>13, SavesKeep

LEMMA ActivationLost ==
  ASSUME ConfigInv, LoginWithoutAuth
  PROVE  ConfigInv'
<1>1. Ready("udp")
  BY DEF LoginWithoutAuth
<1>2. /\ info = flash.sdk /\ flash.check = Check /\ flash \in Flash /\ info \in Flags /\ told \in Told
      /\ starts \in 0..255
      /\ info.app = 1 \/ flash.name = FirstName
  BY <1>1, RunningFacts
<1>3. PICK s : s = [info EXCEPT !.act = 0]
  OBVIOUS
<1>4. s \in Flags /\ s.app = info.app /\ s.act = 0 /\ s.id = info.id /\ s.upg = info.upg
  BY ZenonT(60), <1>2, <1>3, FlagSet
<1>5. PICK x : x = [flash EXCEPT !.sdk = s]
  OBVIOUS
<1>6. x \in Flash /\ x.check = flash.check /\ x.sdk = s /\ x.name = flash.name /\ x.key = flash.key /\ x.domain = flash.domain
  BY <1>2, <1>4, <1>5 DEF Flash
<1>7. PICK p : p = [id |-> 0]
  OBVIOUS
<1>8. p \in Promises
  BY <1>2, <1>7 DEF Promises
<1>9. PICK u : u = Tells(p, told)
  OBVIOUS
<1>10. u.gid = told.gid /\ u.key = told.key /\ u.name = told.name /\ u.id = 0 /\ u.upg = told.upg /\ u.domain = told.domain
  BY <1>2, <1>7, <1>9, ToldSet
<1>11. ASSUME NEW g \in Nat, Fits(told, flash, g) PROVE Fits(u, x, g)
  <2>1. /\ told.gid \in {0, g} /\ told.key \in {0, flash.key} /\ told.name \in {0, flash.name}
        /\ told.id = info.act * info.id /\ told.upg = info.upg /\ told.domain = flash.domain
        /\ info.app = 1 \/ told.name \in {0, FirstName}
    BY <1>2, <1>11 DEF Fits
  <2>2. u.id = s.act * s.id
    BY <1>2, <1>4, <1>10, ActiveId
  <2> QED BY <1>4, <1>6, <1>10, <2>1, <2>2 DEF Fits
<1>12. Saves("udp", x, p) /\ info' = s
  BY <1>1, <1>2, <1>3, <1>5, <1>7 DEF LoginWithoutAuth
<1>13. x.sdk.app = 1 \/ x.name = FirstName
  BY <1>2, <1>4, <1>6
<1> QED BY <1>1, <1>2, <1>6, <1>8, <1>9, <1>11, <1>12, <1>13, SavesKeep

LEMMA UpgradeNoted ==
  ASSUME ConfigInv, NEW v \in {Version, Version + 1}, xlink_process_tcp_upgrade(v)
  PROVE  ConfigInv'
<1>1. Ready("udp")
  BY DEF xlink_process_tcp_upgrade
<1>2. /\ info = flash.sdk /\ flash.check = Check /\ flash \in Flash /\ info \in Flags /\ told \in Told
      /\ starts \in 0..255
      /\ info.app = 1 \/ flash.name = FirstName
  BY <1>1, RunningFacts
<1>3. PICK s : s = [info EXCEPT !.upg = IF v <= Version THEN 0 ELSE 1, !.ver = Version]
  OBVIOUS
<1>4. s \in Flags /\ s.app = info.app /\ s.act = info.act /\ s.id = info.id
  <2>1. PICK b : b = IF v <= Version THEN 0 ELSE 1
    OBVIOUS
  <2>2. b \in 0..1 /\ s = [info EXCEPT !.upg = b, !.ver = 1]
    BY <1>3, <2>1 DEF Version
  <2> QED BY ZenonT(60), <1>2, <2>2, FlagSet
<1>5. PICK x : x = [flash EXCEPT !.sdk = s]
  OBVIOUS
<1>6. x \in Flash /\ x.check = flash.check /\ x.sdk = s /\ x.name = flash.name /\ x.key = flash.key /\ x.domain = flash.domain
  BY <1>2, <1>4, <1>5 DEF Flash
<1>7. PICK p : p = [upg |-> s.upg]
  OBVIOUS
<1>8. p \in Promises
  <2>1. s.upg \in Nat
    BY <1>4 DEF Flags
  <2> QED BY <1>7, <2>1 DEF Promises
<1>9. PICK u : u = Tells(p, told)
  OBVIOUS
<1>10. u.gid = told.gid /\ u.key = told.key /\ u.name = told.name /\ u.id = told.id /\ u.upg = s.upg /\ u.domain = told.domain
  <2>1. s.upg \in Nat
    BY <1>4 DEF Flags
  <2> QED BY <1>2, <1>7, <1>9, <2>1, ToldSet
<1>11. ASSUME NEW g \in Nat, Fits(told, flash, g) PROVE Fits(u, x, g)
  <2>1. /\ told.gid \in {0, g} /\ told.key \in {0, flash.key} /\ told.name \in {0, flash.name}
        /\ told.id = info.act * info.id /\ told.upg = info.upg /\ told.domain = flash.domain
        /\ info.app = 1 \/ told.name \in {0, FirstName}
    BY <1>2, <1>11 DEF Fits
  <2>2. u.id = s.act * s.id
    BY <1>4, <1>10, <2>1
  <2> QED BY <1>4, <1>6, <1>10, <2>1, <2>2 DEF Fits
<1>12. Saves("udp", x, p) /\ info' = s
  BY <1>1, <1>2, <1>3, <1>5, <1>7 DEF xlink_process_tcp_upgrade
<1>13. x.sdk.app = 1 \/ x.name = FirstName
  BY <1>2, <1>4, <1>6
<1> QED BY <1>1, <1>2, <1>6, <1>8, <1>9, <1>11, <1>12, <1>13, SavesKeep

LEMMA DomainSet ==
  ASSUME ConfigInv, Redirected
  PROVE  ConfigInv'
<1>1. Ready("udp")
  BY DEF Redirected
<1>2. /\ info = flash.sdk /\ flash.check = Check /\ flash \in Flash /\ info \in Flags /\ told \in Told
      /\ starts \in 0..255
      /\ info.app = 1 \/ flash.name = FirstName
  BY <1>1, RunningFacts
<1>3. PICK s : s = info
  OBVIOUS
<1>4. s \in Flags /\ s = info
  BY <1>2, <1>3
<1>5. PICK x : x = [flash EXCEPT !.domain = 1]
  OBVIOUS
<1>6. x \in Flash /\ x.check = flash.check /\ x.sdk = s /\ x.name = flash.name /\ x.key = flash.key /\ x.domain = 1
  BY <1>2, <1>4, <1>5 DEF Flash
<1>7. PICK p : p = [domain |-> 1]
  OBVIOUS
<1>8. p \in Promises
  BY <1>2, <1>7 DEF Promises
<1>9. PICK u : u = Tells(p, told)
  OBVIOUS
<1>10. u.gid = told.gid /\ u.key = told.key /\ u.name = told.name /\ u.id = told.id /\ u.upg = told.upg /\ u.domain = 1
  BY <1>2, <1>7, <1>9, ToldSet
<1>11. ASSUME NEW g \in Nat, Fits(told, flash, g) PROVE Fits(u, x, g)
  <2>1. /\ told.gid \in {0, g} /\ told.key \in {0, flash.key} /\ told.name \in {0, flash.name}
        /\ told.id = info.act * info.id /\ told.upg = info.upg /\ told.domain = flash.domain
        /\ info.app = 1 \/ told.name \in {0, FirstName}
    BY <1>2, <1>11 DEF Fits
  <2>2. u.id = s.act * s.id
    BY <1>4, <1>10, <2>1
  <2> QED BY <1>4, <1>6, <1>10, <2>1, <2>2 DEF Fits
<1>12. Saves("udp", x, p) /\ info' = s
  BY <1>1, <1>2, <1>3, <1>5, <1>7 DEF Redirected
<1>13. x.sdk.app = 1 \/ x.name = FirstName
  BY <1>2, <1>4, <1>6
<1> QED BY <1>1, <1>2, <1>6, <1>8, <1>9, <1>11, <1>12, <1>13, SavesKeep

LEMMA DomainLost ==
  ASSUME ConfigInv, DomainForgotten
  PROVE  ConfigInv'
<1>1. Ready("tcp")
  BY DEF DomainForgotten
<1>2. /\ info = flash.sdk /\ flash.check = Check /\ flash \in Flash /\ info \in Flags /\ told \in Told
      /\ starts \in 0..255
      /\ info.app = 1 \/ flash.name = FirstName
  BY <1>1, RunningFacts
<1>3. PICK s : s = info
  OBVIOUS
<1>4. s \in Flags /\ s = info
  BY <1>2, <1>3
<1>5. PICK x : x = [flash EXCEPT !.domain = 0]
  OBVIOUS
<1>6. x \in Flash /\ x.check = flash.check /\ x.sdk = s /\ x.name = flash.name /\ x.key = flash.key /\ x.domain = 0
  BY <1>2, <1>4, <1>5 DEF Flash
<1>7. PICK p : p = [domain |-> 0]
  OBVIOUS
<1>8. p \in Promises
  BY <1>2, <1>7 DEF Promises
<1>9. PICK u : u = Tells(p, told)
  OBVIOUS
<1>10. u.gid = told.gid /\ u.key = told.key /\ u.name = told.name /\ u.id = told.id /\ u.upg = told.upg /\ u.domain = 0
  BY <1>2, <1>7, <1>9, ToldSet
<1>11. ASSUME NEW g \in Nat, Fits(told, flash, g) PROVE Fits(u, x, g)
  <2>1. /\ told.gid \in {0, g} /\ told.key \in {0, flash.key} /\ told.name \in {0, flash.name}
        /\ told.id = info.act * info.id /\ told.upg = info.upg /\ told.domain = flash.domain
        /\ info.app = 1 \/ told.name \in {0, FirstName}
    BY <1>2, <1>11 DEF Fits
  <2>2. u.id = s.act * s.id
    BY <1>4, <1>10, <2>1
  <2> QED BY <1>4, <1>6, <1>10, <2>1, <2>2 DEF Fits
<1>12. Saves("tcp", x, p) /\ info' = s
  BY <1>1, <1>2, <1>3, <1>5, <1>7 DEF DomainForgotten
<1>13. x.sdk.app = 1 \/ x.name = FirstName
  BY <1>2, <1>4, <1>6
<1> QED BY <1>1, <1>2, <1>6, <1>8, <1>9, <1>11, <1>12, <1>13, SavesKeep, <1>5, <1>7

LEMMA SettingsReset ==
  ASSUME ConfigInv, XlinkReSetSDK
  PROVE  ConfigInv'
<1>1. Ready("udp")
  BY DEF XlinkReSetSDK
<1>2. /\ info = flash.sdk /\ flash.check = Check /\ flash \in Flash /\ info \in Flags /\ told \in Told
      /\ starts \in 0..255
      /\ info.app = 1 \/ flash.name = FirstName
  BY <1>1, RunningFacts
<1>3. PICK s : s = [info EXCEPT !.act = 0]
  OBVIOUS
<1>4. s \in Flags /\ s.app = info.app /\ s.act = 0 /\ s.id = info.id /\ s.upg = info.upg
  BY <1>2, <1>3, FlagSet
<1>5. PICK x : x = [flash EXCEPT !.key = NoNumber, !.sub = NoNumber, !.sdk.act = 0]
  OBVIOUS
<1>6. x \in Flash /\ x.check = flash.check /\ x.sdk = s /\ x.name = flash.name /\ x.key = NoNumber /\ x.domain = flash.domain
  <2>1. PICK y : y = [flash EXCEPT !.key = NoNumber, !.sub = NoNumber]
    OBVIOUS
  <2>2. NoNumber \in 0..255
    BY DEF NoNumber
  <2>3. y \in Flash /\ y.check = flash.check /\ y.name = flash.name /\ y.key = NoNumber /\ y.domain = flash.domain /\ y.sdk = info
    BY ZenonT(60), <1>2, <2>1, <2>2 DEF Flash
  <2>4. x = [y EXCEPT !.sdk = s]
    BY <1>2, <1>3, <1>5, <2>1 DEF Flash
  <2> QED BY <1>4, <2>3, <2>4 DEF Flash
<1>7. PICK p : p = [key |-> 0, id |-> 0]
  OBVIOUS
<1>8. p \in Promises
  BY <1>2, <1>7 DEF Promises
<1>9. PICK u : u = Tells(p, told)
  OBVIOUS
<1>10. u.gid = told.gid /\ u.key = 0 /\ u.name = told.name /\ u.id = 0 /\ u.upg = told.upg /\ u.domain = told.domain
  BY <1>2, <1>7, <1>9, ToldSet
<1>11. ASSUME NEW g \in Nat, Fits(told, flash, g) PROVE Fits(u, x, g)
  <2>1. /\ told.gid \in {0, g} /\ told.key \in {0, flash.key} /\ told.name \in {0, flash.name}
        /\ told.id = info.act * info.id /\ told.upg = info.upg /\ told.domain = flash.domain
        /\ info.app = 1 \/ told.name \in {0, FirstName}
    BY <1>2, <1>11 DEF Fits
  <2>2. u.id = s.act * s.id
    BY <1>2, <1>4, <1>10, ActiveId
  <2> QED BY <1>4, <1>6, <1>10, <2>1, <2>2 DEF Fits
<1>12. Saves("udp", x, p) /\ info' = s
  BY <1>1, <1>2, <1>3, <1>5, <1>7 DEF XlinkReSetSDK
<1>13. x.sdk.app = 1 \/ x.name = FirstName
  BY <1>2, <1>4, <1>6
<1> QED BY <1>1, <1>2, <1>6, <1>8, <1>9, <1>11, <1>12, <1>13, SavesKeep

-----------------------------------------------------------------------------
(* The theorem                                                             *)

LEMMA NextKeeps ==
  ASSUME ConfigInv, [ConfigNext]_cvars
  PROVE  ConfigInv'
<1>1. CASE UNCHANGED cvars
  BY <1>1 DEF cvars, ConfigInv, TypeInv, StageInv, DiskInv, Right, Future, Busy
<1>2. CASE \E t \in Thread : load_ini_file(t) \/ fopen(t) \/ fopenFails(t) \/ fputs(t)
  BY <1>2, LoadKeeps, OpenKeeps, FailedOpenKeeps, PutKeeps
<1>3. CASE CreateGateId \/ ReadGateId \/ xsdk_config_init \/ XlinkSdkDataInit \/ XlinkSetDeviceName \/ XDeviceStart
           \/ PowerFails
  BY <1>3, CreateKeeps, ReadKeeps, ConfigInitKeeps, DataInitKeeps, FirstNameKeeps, StartKeeps, PowerKeeps
<1>4. CASE \E n \in Names \cup {LongName} : xlink_process_tcp_set_V2(n)
  <2>1. PICK n \in Names \cup {LongName} : xlink_process_tcp_set_V2(n)
    BY <1>4
  <2>2. n \in 0..255
    BY <2>1, ConfigAssumption DEF LongName
  <2>3. UNCHANGED cvars \/ XlinkSdkAppSetDeviceName(n)
    BY <2>1 DEF xlink_process_tcp_set_V2
  <2> QED BY <1>1, <2>2, <2>3, NameSet
<1>5. CASE \E k \in Keys : SetAccessKey(k)
  <2>1. PICK k \in Keys : SetAccessKey(k)
    BY <1>5
  <2>2. k \in 0..254
    BY <2>1, ConfigAssumption
  <2> QED BY <2>1, <2>2, KeySet
<1>6. CASE xlink_process_tcp_subscribe_V3 \/ xlink_process_tcp_probe_V2
  <2>1. Ready("udp")
    BY <1>6 DEF xlink_process_tcp_subscribe_V3, xlink_process_tcp_probe_V2
  <2> QED BY <1>6, <2>1, TellKeeps
<1>7. CASE \E auth \in {0, 1} : Activated(auth)
  BY <1>7, ActivationSet
<1>8. CASE \E v \in {Version, Version + 1} : xlink_process_tcp_upgrade(v)
  BY <1>8, UpgradeNoted
<1>9. CASE LoginWithoutAuth \/ Redirected \/ DomainForgotten \/ XlinkReSetSDK
  BY <1>9, ActivationLost, DomainSet, DomainLost, SettingsReset
<1> QED BY <1>1, <1>2, <1>3, <1>4, <1>5, <1>6, <1>7, <1>8, <1>9 DEF ConfigNext

LEMMA InvSurvives ==
  ASSUME ConfigInv PROVE SettingsSurvive
  BY DEF ConfigInv, DiskInv, SettingsSurvive, Fits, Agrees, OnDisk

\* What the gateway told is what config.ini holds, for every sequence of changes, saves by the two threads
\* (write_profile_string) and power failures, but for the losses the design admits.
THEOREM SettingsAsTold == ConfigSpec => []SettingsSurvive
<1>1. ConfigInit => ConfigInv
  BY FirstInv
<1>2. ConfigInv /\ [ConfigNext]_cvars => ConfigInv'
  BY NextKeeps
<1>3. ConfigInv => SettingsSurvive
  BY InvSurvives
<1> QED BY <1>1, <1>2, <1>3, PTL DEF ConfigSpec

-----------------------------------------------------------------------------
(* The NOR chip and what its commands do *)

Bits == {0, 1}

ChipState ==
  [mem : [Cell -> Bits], hot : SUBSET Cell, wel : BOOLEAN, wip : BOOLEAN, four : BOOLEAN, bp : 0..7,
   quad : BOOLEAN, astray : BOOLEAN]

\* d holds what c does, protects what c does, and no command went astray in between.
SameCells(c, d) ==
  /\ c \in ChipState /\ d \in ChipState
  /\ d.mem = c.mem /\ d.astray = c.astray

SameBits(c, d) == d.bp = c.bp /\ d.quad = c.quad

LEMMA FreshIs ==
  ASSUME NEW m \in [Cell -> Bits], NEW bp \in 0..7, NEW quad \in BOOLEAN
  PROVE  /\ [Fresh(m) EXCEPT !.bp = bp, !.quad = quad] \in ChipState
         /\ [Fresh(m) EXCEPT !.bp = bp] \in ChipState
         /\ Fresh(m) \in ChipState
  <1>1. Fresh(m) \in ChipState BY DEF Fresh, ChipState
  <1> QED BY ONLY <1>1, bp \in 0..7, quad \in BOOLEAN DEF ChipState

LEMMA BlankIs == Blank \in [Cell -> Bits]
  BY DEF Blank, Bits

LEMMA PowerLossIs ==
  ASSUME NEW c \in ChipState
  PROVE  /\ SameCells([c EXCEPT !.astray = FALSE], PowerLoss(c)) /\ SameBits(c, PowerLoss(c))
         /\ ~PowerLoss(c).wip /\ ~PowerLoss(c).four /\ ~PowerLoss(c).astray /\ ~PowerLoss(c).wel
         /\ PowerLoss(c) \in ChipState
  BY DEF PowerLoss, Fresh, ChipState, SameCells, SameBits

\* A driver that has waited finds a chip that takes commands.
LEMMA DoneIs ==
  ASSUME NEW c \in ChipState
  PROVE  /\ SameCells(c, Done(c)) /\ SameBits(c, Done(c)) /\ Done(c) \in ChipState
         /\ ~Done(c).wip /\ Done(c).four = c.four
  BY DEF Done, ChipState, SameCells, SameBits

LEMMA EnableIs ==
  ASSUME NEW c \in ChipState
  PROVE  /\ SameCells(c, WREN(c)) /\ SameBits(c, WREN(c)) /\ WREN(c) \in ChipState
         /\ WREN(c).wip = c.wip /\ WREN(c).four = c.four
         /\ ~c.wip => WREN(c).wel
  BY DEF WREN, Accept, ChipState, SameCells, SameBits

LEMMA DisableIs ==
  ASSUME NEW c \in ChipState
  PROVE  /\ SameCells(c, WRDI(c)) /\ SameBits(c, WRDI(c)) /\ WRDI(c) \in ChipState
         /\ WRDI(c).wip = c.wip /\ WRDI(c).four = c.four
  BY DEF WRDI, Accept, ChipState, SameCells, SameBits

LEMMA ModeIs ==
  ASSUME NEW c \in ChipState, NEW on \in BOOLEAN
  PROVE  /\ SameCells(c, EN4B(c, on)) /\ SameBits(c, EN4B(c, on)) /\ EN4B(c, on) \in ChipState
         /\ EN4B(c, on).wip = c.wip /\ EN4B(c, on).wel = c.wel
         /\ EN4B(c, on).four = IF c.wip THEN c.four ELSE on
  BY DEF EN4B, Accept, ChipState, SameCells, SameBits

LEMMA StatusIs ==
  ASSUME NEW c \in ChipState, NEW bp \in 0..7, NEW quad \in BOOLEAN
  PROVE  /\ SameCells(c, WRSR(c, bp, quad)) /\ WRSR(c, bp, quad) \in ChipState
         /\ WRSR(c, bp, quad).four = c.four
         /\ c.wip \/ ~c.wel => WRSR(c, bp, quad) = c
         /\ ~c.wip /\ c.wel => /\ WRSR(c, bp, quad).bp = bp /\ WRSR(c, bp, quad).quad = quad
                               /\ WRSR(c, bp, quad).wip
  BY DEF WRSR, Accept, ChipState, SameCells

LEMMA StatusKeeps ==
  ASSUME NEW c \in ChipState, NEW bp \in 0..7, NEW quad \in BOOLEAN
  PROVE  SameCells(c, WRSR(c, bp, quad)) /\ WRSR(c, bp, quad) \in ChipState /\ WRSR(c, bp, quad).four = c.four
  BY DEF WRSR, Accept, ChipState, SameCells

\* The protected cells are the last ones of the chip.
LEMMA OpenIs ==
  ASSUME NEW bp \in 1..7
  PROVE  /\ Open(bp) \in 0..Size
         /\ Open(7) = 0
         /\ \A b \in 1..bp : Open(bp) <= Open(b)
  BY ChipAssumption DEF Open

LEMMA ProtectedUp ==
  ASSUME NEW c \in ChipState, NEW a \in Int, NEW b \in Int, a <= b, Protected(c, a)
  PROVE  Protected(c, b)
  <1>1. c.bp \in 1..7 BY DEF Protected, ChipState
  <1>2. Open(c.bp) \in Int BY <1>1, OpenIs
  <1> QED BY <1>2 DEF Protected

\* Protection depends on the bits alone.
LEMMA ProtectedSame ==
  ASSUME NEW c, NEW d, c.bp = d.bp
  PROVE  \A x : Protected(c, x) = Protected(d, x)
  BY DEF Protected

LEMMA InPageIs ==
  ASSUME NEW a \in Nat, NEW j \in Nat, (a % PageSize) + j < PageSize
  PROVE  InPage(a, j) = a + j
  <1> DEFINE k == a \div PageSize
             r == a % PageSize
  <1>1. k \in Int /\ r \in 0..(PageSize - 1) /\ a = k * PageSize + r BY ChipAssumption
  <1>2. InPage(a, j) = k * PageSize + ((a + j) % PageSize) BY DEF InPage
  <1> HIDE DEF k, r
  <1>3. a + j = k * PageSize + (r + j) /\ r + j \in 0..(PageSize - 1)
    <2>1. r + j < PageSize BY DEF r
    <2>2. PICK p \in Int : p = k * PageSize BY <1>1, ChipAssumption
    <2>3. a = p + r BY <1>1, <2>2
    <2>4. a + j = p + (r + j) BY <1>1, <2>3
    <2> QED BY <1>1, <2>1, <2>2, <2>4, ChipAssumption
  <1>4. (a + j) % PageSize = r + j BY <1>1, <1>3, Remainder, ChipAssumption, a \in Nat, j \in Nat
  <1> QED BY <1>2, <1>3, <1>4

\* What part of a request's data holds.
LEMMA SliceIs ==
  ASSUME NEW data \in Seq(Bits), NEW p \in Nat, NEW n \in Nat, p + n <= Len(data)
  PROVE  LET s == SubSeq(data, p + 1, p + n) IN
         s \in Seq(Bits) /\ Len(s) = n /\ \A i \in 1..n : s[i] = data[p + i] /\ s[i] \in Bits
  <1> DEFINE s == SubSeq(data, p + 1, p + n)
  <1>1. Len(data) \in Nat /\ \A i \in 1..Len(data) : data[i] \in Bits BY LenProperties
  <1>2. \A i \in (p + 1)..(p + n) : data[i] \in Bits BY <1>1
  <1>3. s = [i \in 1..n |-> data[p + i]]
    <2>1. (p + n) - (p + 1) + 1 = n OBVIOUS
    <2> QED BY <2>1
  <1>4. s \in Seq(Bits) /\ Len(s) = n BY <1>3, <1>2, <1>1
  <1> QED BY <1>1, <1>3, <1>4

\* Within a page each byte goes to the cell it is for.
LEMMA MeantIs ==
  ASSUME NEW a \in Nat, NEW n \in Nat, NEW data, Len(data) = n, (a % PageSize) + n <= PageSize, NEW x \in Cell
  PROVE  Meant(a, data, x) = IF x \in Span(a, n) THEN {(x - a) + 1} ELSE {}
  <1>1. \A i \in 1..n : InPage(a, i - 1) = a + (i - 1)
    <2> SUFFICES ASSUME NEW i \in 1..n PROVE InPage(a, i - 1) = a + (i - 1) OBVIOUS
    <2>1. i - 1 \in Nat /\ (a % PageSize) + (i - 1) < PageSize BY ChipAssumption
    <2> QED BY <2>1, InPageIs
  <1>2. Meant(a, data, x) = {i \in 1..n : a + (i - 1) = x} BY <1>1 DEF Meant
  <1>3. x \in Int BY ChipAssumption DEF Cell
  <1> QED BY <1>2, <1>3 DEF Span

\* Where c holds what p bytes of a request make of some contents, d holds what p + n bytes make of them.
Takes(c, d, r, p, n) ==
  \A x \in Cell : \A m : c.mem[x] = Programmed(m, c, r, p)[x] => d.mem[x] = Programmed(m, c, r, p + n)[x]

\* Page program, as both drivers use it: a piece of a request that lies in one page.
LEMMA ProgramIs ==
  ASSUME NEW c \in ChipState, NEW four \in BOOLEAN, NEW r, r.at \in Nat, r.data \in Seq(Bits),
         r.at + Len(r.data) <= Size, NEW p \in Nat, NEW n \in Nat \ {0}, p + n <= Len(r.data),
         ((r.at + p) % PageSize) + n <= PageSize
  PROVE  LET d == PP(c, four, r.at + p, SubSeq(r.data, p + 1, p + n)) IN
         /\ d \in ChipState /\ d.four = c.four /\ SameBits(c, d)
         /\ c.wip => d = c
         /\ c.wip \/ c.four = four => d.astray = c.astray
         /\ \A x \in Cell \ Span(r.at + p, n) : d.mem[x] = c.mem[x]
         /\ ~c.wip /\ c.wel /\ c.four = four => Takes(c, d, r, p, n)
  <1> DEFINE a == r.at + p
             data == SubSeq(r.data, p + 1, p + n)
             cells == {x \in Cell : Meant(a, data, x) # {} /\ ~Protected(c, x)}
             mem == [x \in Cell |-> IF x \in cells /\ \E i \in Meant(a, data, x) : data[i] = 0 THEN 0 ELSE c.mem[x]]
             new == [c EXCEPT !.wip = TRUE, !.hot = cells, !.mem = mem]
             d == PP(c, four, a, data)
  <1>1. d = IF c.wip THEN c
            ELSE IF c.four # four THEN [c EXCEPT !.astray = TRUE]
            ELSE IF c.wel /\ ~Protected(c, a) THEN new ELSE c
    BY DEF PP, Addressed, Accept
  <1>2. Len(r.data) \in Nat /\ a \in Nat /\ a < Size /\ a \in Cell
    <2>1. PICK len \in Nat : len = Len(r.data) BY LenProperties
    <2>2. PICK at \in Nat : at = r.at OBVIOUS
    <2>3. at + len <= Size /\ p + n <= len BY <2>1, <2>2
    <2>4. Size \in Nat BY ChipAssumption
    <2>5. at + p \in Nat /\ at + p < Size BY ONLY <2>3, <2>4, at \in Nat, len \in Nat, p \in Nat, n \in Nat \ {0}
    <2> QED BY <2>1, <2>2, <2>4, <2>5 DEF Cell
  <1>3. Len(data) = n /\ \A i \in 1..n : data[i] = r.data[p + i] /\ data[i] \in Bits BY SliceIs
  <1>4. \A x \in Cell : Meant(a, data, x) = IF x \in Span(a, n) THEN {(x - a) + 1} ELSE {}
    <2> HIDE DEF data, a
    <2>1. (a % PageSize) + n <= PageSize BY DEF a
    <2> QED BY <1>2, <1>3, <2>1, MeantIs
  <1>5. mem = [x \in Cell |-> IF x \in Span(a, n) /\ ~Protected(c, x) /\ r.data[(x - r.at) + 1] = 0 THEN 0 ELSE c.mem[x]]
    <2>1. ASSUME NEW x \in Cell, x \in Span(a, n)
          PROVE  (\E i \in Meant(a, data, x) : data[i] = 0) <=> r.data[(x - r.at) + 1] = 0
      <3>1. PICK at \in Nat : at = r.at OBVIOUS
      <3>2. x \in Int /\ x >= at + p /\ x < at + p + n BY <2>1, <3>1, ChipAssumption DEF Span, Cell
      <3>3. (x - (at + p)) + 1 \in 1..n /\ p + ((x - (at + p)) + 1) = (x - at) + 1
        BY ONLY <3>2, at \in Nat, p \in Nat, n \in Nat \ {0}
      <3>4. data[(x - a) + 1] = r.data[p + ((x - (at + p)) + 1)] /\ r.data[p + ((x - (at + p)) + 1)] = r.data[(x - r.at) + 1]
        <4> HIDE DEF data
        <4> QED BY <1>3, <3>1, <3>3
      <3> HIDE DEF data, a
      <3> QED BY <1>4, <2>1, <3>4
    <2> HIDE DEF data, a
    <2> QED BY <1>4, <2>1
  <1>6. mem \in [Cell -> Bits] /\ cells \subseteq Cell
    <2>1. c.mem \in [Cell -> Bits] BY DEF ChipState
    <2> QED BY <1>5, <2>1 DEF Bits
  <1> HIDE DEF mem, cells
  <1>7. new \in ChipState /\ new.mem = mem /\ new.four = c.four /\ SameBits(c, new) /\ new.astray = c.astray
    BY <1>6 DEF ChipState, SameBits
  <1>8. [c EXCEPT !.astray = TRUE] \in ChipState /\ [c EXCEPT !.astray = TRUE].mem = c.mem
        /\ [c EXCEPT !.astray = TRUE].four = c.four /\ SameBits(c, [c EXCEPT !.astray = TRUE]) /\ SameBits(c, c)
    BY DEF ChipState, SameBits
  <1> HIDE DEF new
  <1>9. d \in ChipState /\ d.four = c.four /\ SameBits(c, d) /\ (c.wip => d = c)
    BY <1>1, <1>7, <1>8
  <1>10. c.wip \/ c.four = four => d.astray = c.astray BY <1>1, <1>7
  <1>11. \A x \in Cell \ Span(a, n) : d.mem[x] = c.mem[x]
    BY ZenonT(60), <1>1, <1>5, <1>7, <1>8
  <1>12. ASSUME ~c.wip, c.wel, c.four = four, NEW m, NEW x \in Cell, c.mem[x] = Programmed(m, c, r, p)[x]
         PROVE  d.mem[x] = Programmed(m, c, r, p + n)[x]
    <2>1. x \in Span(r.at, p + n) <=> x \in Span(r.at, p) \/ x \in Span(a, n)
      <3>1. PICK at \in Nat : at = r.at OBVIOUS
      <3>2. x \in Int BY ChipAssumption DEF Cell
      <3>3. x >= at /\ x < at + (p + n) <=> (x >= at /\ x < at + p) \/ (x >= at + p /\ x < (at + p) + n)
        BY ONLY <3>2, at \in Nat, p \in Nat, n \in Nat \ {0}
      <3> QED BY <3>1, <3>3 DEF Span
    <2>2. Programmed(m, c, r, p)[x] = IF x \in Span(r.at, p) /\ ~Protected(c, x) /\ r.data[(x - r.at) + 1] = 0 THEN 0 ELSE m[x]
      BY DEF Programmed
    <2>3. Programmed(m, c, r, p + n)[x] = IF x \in Span(r.at, p + n) /\ ~Protected(c, x) /\ r.data[(x - r.at) + 1] = 0 THEN 0 ELSE m[x]
      BY DEF Programmed
    <2>4. CASE ~Protected(c, a)
      <3>1. d.mem[x] = IF x \in Span(a, n) /\ ~Protected(c, x) /\ r.data[(x - r.at) + 1] = 0 THEN 0 ELSE c.mem[x]
        BY <1>1, <1>5, <1>7, <1>12, <2>4
      <3> QED BY <3>1, <2>1, <2>2, <2>3, <1>12
    <2>5. CASE Protected(c, a)
      <3>1. d.mem[x] = c.mem[x] BY <1>1, <1>12, <2>5
      <3>2. x \in Span(a, n) => Protected(c, x)
        <4>1. x \in Int BY ChipAssumption DEF Cell
        <4>2. x \in Span(a, n) => a <= x BY DEF Span
        <4> QED BY <4>1, <4>2, <2>5, <1>2, ProtectedUp
      <3> QED BY <3>1, <3>2, <2>1, <2>2, <2>3, <1>12
    <2> QED BY <2>4, <2>5
  <1> HIDE DEF d
  <1>13. /\ d \in ChipState /\ d.four = c.four /\ SameBits(c, d)
         /\ c.wip => d = c
         /\ c.wip \/ c.four = four => d.astray = c.astray
         /\ \A x \in Cell \ Span(a, n) : d.mem[x] = c.mem[x]
         /\ ~c.wip /\ c.wel /\ c.four = four => Takes(c, d, r, p, n)
    BY <1>9, <1>10, <1>11, <1>12 DEF Takes
  <1> QED BY <1>13 DEF d, data, a

\* The piece of a request that is written at once lies in one page.
LEMMA PieceInPage ==
  ASSUME NEW to \in Nat, NEW left \in Nat \ {0}
  PROVE  /\ page_size(to, left) \in 1..left
         /\ \A n \in 1..page_size(to, left) : (to % PageSize) + n <= PageSize
  <1>1. to % PageSize \in 0..(PageSize - 1) BY ChipAssumption
  <1> QED BY <1>1, ChipAssumption DEF page_size

Free(c, a) == \A x \in Block(a) : ~Protected(c, x)

LEMMA WipedIs ==
  ASSUME NEW m \in [Cell -> Bits], NEW cells
  PROVE  Wiped(m, cells) \in [Cell -> Bits]
  BY DEF Wiped, Bits

\* Sector erase.
LEMMA SectorIs ==
  ASSUME NEW c \in ChipState, NEW four \in BOOLEAN, NEW a
  PROVE  LET d == SE(c, four, a) IN
         /\ d \in ChipState /\ d.four = c.four /\ SameBits(c, d)
         /\ c.wip => d = c
         /\ c.wip \/ c.four = four => d.astray = c.astray
         /\ d.mem = c.mem \/ (d.mem = Wiped(c.mem, Block(a)) /\ Free(c, a))
         /\ ~c.wip /\ c.wel /\ c.four = four /\ Free(c, a) => d.mem = Wiped(c.mem, Block(a))
  <1> DEFINE new == [c EXCEPT !.wip = TRUE, !.hot = Block(a), !.mem = Wiped(@, Block(a))]
  <1>1. SE(c, four, a) = IF c.wip THEN c
                         ELSE IF c.four # four THEN [c EXCEPT !.astray = TRUE]
                         ELSE IF c.wel /\ Free(c, a) THEN new ELSE c
    BY DEF SE, Addressed, Accept, Free
  <1>2. Wiped(c.mem, Block(a)) \in [Cell -> Bits]
    <2>1. c.mem \in [Cell -> Bits] BY DEF ChipState
    <2> QED BY <2>1, WipedIs
  <1>3. new \in ChipState /\ new.mem = Wiped(c.mem, Block(a)) /\ new.four = c.four /\ SameBits(c, new) /\ new.astray = c.astray
    BY <1>2 DEF ChipState, SameBits, Block
  <1>4. [c EXCEPT !.astray = TRUE] \in ChipState /\ [c EXCEPT !.astray = TRUE].mem = c.mem
        /\ [c EXCEPT !.astray = TRUE].four = c.four /\ SameBits(c, [c EXCEPT !.astray = TRUE]) /\ SameBits(c, c)
    BY DEF ChipState, SameBits
  <1> HIDE DEF new
  <1> QED BY <1>1, <1>3, <1>4

\* Chip erase.
LEMMA ChipEraseIs ==
  ASSUME NEW c \in ChipState
  PROVE  LET d == CE(c) IN
         /\ d \in ChipState /\ d.four = c.four /\ SameBits(c, d) /\ d.astray = c.astray
         /\ d.mem = c.mem \/ (d.mem = Blank /\ c.bp = 0)
         /\ ~c.wip /\ c.wel /\ c.bp = 0 => d.mem = Blank
  BY BlankIs DEF CE, Accept, ChipState, SameBits

LEMMA ReadIs ==
  ASSUME NEW c \in ChipState, NEW four \in BOOLEAN
  PROVE  LET d == READ(c, four) IN
         /\ d \in ChipState /\ d.four = c.four /\ SameBits(c, d) /\ d.mem = c.mem /\ d.wip = c.wip
         /\ c.wip \/ c.four = four => d.astray = c.astray
  BY DEF READ, Addressed, Accept, ChipState, SameBits

\* Nothing is programmed by the first no bytes, and a request does not reach past its last.
LEMMA ProgrammedNone ==
  ASSUME NEW m \in [Cell -> Bits], NEW c, NEW r, r.at \in Nat
  PROVE  Programmed(m, c, r, 0) = m
  <1>1. \A x \in Cell : x \notin Span(r.at, 0) BY ChipAssumption DEF Span, Cell
  <1> QED BY <1>1 DEF Programmed

LEMMA ProgrammedIs ==
  ASSUME NEW m \in [Cell -> Bits], NEW c, NEW d, NEW r, NEW n, c.bp = d.bp
  PROVE  /\ Programmed(m, c, r, n) \in [Cell -> Bits]
         /\ Programmed(m, c, r, n) = Programmed(m, d, r, n)
         /\ \A x \in Cell \ Span(r.at, n) : Programmed(m, c, r, n)[x] = m[x]
  <1>1. \A x : Protected(c, x) = Protected(d, x) BY ProtectedSame
  <1> QED BY <1>1 DEF Programmed, Bits

-----------------------------------------------------------------------------
(* The generic NOR driver *)

NorPcs == {"down", "failed", "idle", "write", "erase", "read", "lock", "unlock", "locked", "unlocked"}

NorState ==
  [pc : NorPcs, four : BOOLEAN, info : spi_nor_ids, chunk : Chunks, req : NorRequests \cup {NoReq}, pos : Nat,
   was : 0..7, slow : BOOLEAN]

NorTypes == chip \in ChipState /\ stored \in [Cell -> Bits] /\ vague \in SUBSET Cell /\ nor \in NorState

\* The request under way lies in the chip, and no more of it is written than there is.
NorWhere ==
  /\ nor.pc \in {"write", "erase", "read", "lock", "unlock", "locked", "unlocked"} =>
       nor.req \in NorRequests /\ nor.req.at + Len(nor.req.data) <= Size
  /\ nor.pc = "write" => nor.pos <= Len(nor.req.data)

\* Driver and chip agree on the width of an address.  A chip that is not yet in 4-byte mode when it is
\* probed is not busy, so that it hears EN4B; a small one is never told.
NorWidths ==
  /\ nor.pc \notin {"down", "failed"} => nor.four = nor.info.large
  /\ ~Deaf /\ nor.info.mfr # "amd" =>
       /\ ~nor.info.large => ~chip.four
       /\ nor.info.large /\ nor.pc \notin {"down", "failed"} => chip.four
       /\ nor.info.large => chip.four \/ ~chip.wip

\* While a request is written its first pos bytes are in the chip, and at other times all that was stored.
NorHolds ==
  ~Deaf =>
    /\ ~chip.astray
    /\ nor.pc = "write" => \A x \in Cell \ vague : chip.mem[x] = Programmed(stored, chip, nor.req, nor.pos)[x]
    /\ nor.pc # "write" => \A x \in Cell \ vague : chip.mem[x] = stored[x]

\* What a lock or an unlock makes of the protection there was.
NorLocks ==
  /\ nor.pc \in {"lock", "unlock"} => ~chip.wip /\ chip.bp = nor.was
  /\ nor.pc = "locked" =>
       chip.bp = IF LockBp(nor.req.at) > nor.was THEN LockBp(nor.req.at) ELSE nor.was
  /\ nor.pc = "unlocked" =>
       LET bp == UnlockBp(nor.req.at + Len(nor.req.data)) IN chip.bp = IF bp < nor.was THEN bp ELSE nor.was

NorInv == NorTypes /\ NorWhere /\ NorWidths /\ NorHolds /\ NorLocks

LEMMA NorReqIs ==
  ASSUME NEW r \in NorRequests
  PROVE  /\ r.op \in {"write", "erase", "read", "lock", "unlock"} /\ r.at \in Nat /\ r.data \in Seq(Bits)
         /\ Len(r.data) \in Nat \ {0}
  <1>1. r \in [op : {"write", "erase", "read", "lock", "unlock"}, at : Nat, data : Seq({0, 1})] /\ r.data # <<>>
    BY NorAssumption
  <1>2. r.data \in Seq(Bits) BY <1>1 DEF Bits
  <1> QED BY <1>1, <1>2, EmptySeq

LEMMA NorIni == NorInit => NorInv
  <1> SUFFICES ASSUME NorInit PROVE NorInv OBVIOUS
  <1>1. chip = Fresh(Blank) /\ stored = Blank /\ vague = {} BY DEF NorInit
  <1>2. nor \in [pc : {"down"}, four : {FALSE}, info : Chips \cap spi_nor_ids, chunk : Chunks, req : {NoReq}, pos : {0}, was : {0}, slow : {FALSE}]
    BY DEF NorInit
  <1>3. nor \in NorState /\ nor.pc = "down"
    <2>1. PICK i \in spi_nor_ids, k \in Chunks :
            nor = [pc |-> "down", four |-> FALSE, info |-> i, chunk |-> k, req |-> NoReq, pos |-> 0, was |-> 0, slow |-> FALSE]
      BY ONLY <1>2
    <2> QED BY ONLY <2>1, i \in spi_nor_ids, k \in Chunks DEF NorState, NorPcs
  <1>4. chip \in ChipState /\ stored \in [Cell -> Bits] BY <1>1, BlankIs DEF Fresh, ChipState
  <1>5. ~chip.wip /\ ~chip.four /\ ~chip.astray /\ chip.mem = stored BY <1>1 DEF Fresh
  <1> QED BY <1>1, <1>3, <1>4, <1>5 DEF NorInv, NorTypes, NorWhere, NorWidths, NorHolds, NorLocks

\* The chip that a command finds which was waited for and enabled.
LEMMA NorEnabled ==
  ASSUME NorInv
  PROVE  LET c == WREN(Done(chip)) IN
         /\ c \in ChipState /\ ~c.wip /\ c.wel /\ c.four = chip.four /\ c.mem = chip.mem /\ c.astray = chip.astray
         /\ SameBits(chip, c)
         /\ Wide(c) \in BOOLEAN
         /\ ~Deaf /\ nor.pc \notin {"down", "failed"} => Wide(c) = c.four
  <1> DEFINE b == Done(chip)
             c == WREN(b)
  <1>1. chip \in ChipState /\ nor \in NorState BY DEF NorInv, NorTypes
  <1>2. b \in ChipState /\ ~b.wip /\ b.four = chip.four /\ b.mem = chip.mem /\ b.astray = chip.astray /\ SameBits(chip, b)
    BY <1>1, DoneIs DEF SameCells
  <1> HIDE DEF b
  <1>3. c \in ChipState /\ ~c.wip /\ c.wel /\ c.four = b.four /\ c.mem = b.mem /\ c.astray = b.astray /\ SameBits(b, c)
    BY <1>2, EnableIs DEF SameCells
  <1> HIDE DEF c
  <1>4. c.four \in BOOLEAN /\ nor.four \in BOOLEAN BY <1>1, <1>3 DEF ChipState, NorState
  <1>5. Wide(c) \in BOOLEAN BY <1>4 DEF Wide
  <1>6. nor.info.large \in BOOLEAN BY <1>1 DEF NorState, spi_nor_ids
  <1>7. ~Deaf /\ nor.pc \notin {"down", "failed"} => Wide(c) = c.four
    BY <1>2, <1>3, <1>4, <1>6 DEF Wide, NorInv, NorWidths
  <1>8. SameBits(chip, c) BY <1>2, <1>3 DEF SameBits
  <1> QED BY <1>2, <1>3, <1>5, <1>7, <1>8 DEF c, b

LEMMA NorMoves ==
  ASSUME NEW s \in NorState, NEW n \in Nat
  PROVE  LET t == [s EXCEPT !.pos = @ + n] IN
         /\ t \in NorState /\ t.pos = s.pos + n
         /\ t.pc = s.pc /\ t.four = s.four /\ t.info = s.info /\ t.req = s.req /\ t.was = s.was
  BY DEF NorState

LEMMA NorStops ==
  ASSUME NEW s \in NorState, NEW pc \in {"idle", "down"}, NEW slow \in BOOLEAN
  PROVE  /\ LET t == [s EXCEPT !.pc = pc, !.req = NoReq, !.pos = 0, !.was = 0, !.slow = slow] IN
            t \in NorState /\ t.pc = pc /\ t.four = s.four /\ t.info = s.info
         /\ LET t == [s EXCEPT !.pc = pc, !.req = NoReq, !.pos = 0, !.was = 0] IN
            t \in NorState /\ t.pc = pc /\ t.four = s.four /\ t.info = s.info
  <1>1. pc \in NorPcs /\ NoReq \in NorRequests \cup {NoReq} /\ 0 \in Nat /\ 0 \in 0..7 BY DEF NorPcs
  <1>2. LET t == [s EXCEPT !.pc = pc, !.req = NoReq, !.pos = 0, !.was = 0, !.slow = slow] IN
        t \in NorState /\ t.pc = pc /\ t.four = s.four /\ t.info = s.info
    BY ONLY <1>1, s \in NorState, slow \in BOOLEAN DEF NorState
  <1>3. LET t == [s EXCEPT !.pc = pc, !.req = NoReq, !.pos = 0, !.was = 0] IN
        t \in NorState /\ t.pc = pc /\ t.four = s.four /\ t.info = s.info
    BY ONLY <1>1, s \in NorState DEF NorState
  <1> QED BY <1>2, <1>3

\* A piece of a request that the chip takes.
LEMMA NorPieceKeeps ==
  ASSUME NorInv, nor.pc = "write", NEW n \in Nat \ {0}, nor.pos + n <= Len(nor.req.data), (To % PageSize) + n <= PageSize,
         LET c == WREN(Done(chip)) IN
         chip' = PP(c, Wide(c), To, SubSeq(nor.req.data, nor.pos + 1, nor.pos + n)),
         nor' = [nor EXCEPT !.pos = @ + n], stored' = stored, vague' = vague
  PROVE  NorInv'
  <1> DEFINE c == WREN(Done(chip))
             w == Wide(c)
             r == nor.req
             p == nor.pos
  <1>1. chip \in ChipState /\ nor \in NorState /\ r \in NorRequests /\ r.at + Len(r.data) <= Size /\ p \in Nat
    BY DEF NorInv, NorTypes, NorWhere, NorState
  <1>2. /\ c \in ChipState /\ ~c.wip /\ c.wel /\ c.four = chip.four /\ c.mem = chip.mem /\ c.astray = chip.astray
        /\ SameBits(chip, c) /\ w \in BOOLEAN
        /\ ~Deaf => w = c.four
    BY NorEnabled
  <1>3. r.at \in Nat /\ r.data \in Seq(Bits) BY <1>1, NorReqIs
  <1>4. To = r.at + p BY DEF To
  <1>5. chip' = PP(c, w, r.at + p, SubSeq(r.data, p + 1, p + n)) BY <1>4
  <1>6. p + n <= Len(r.data) /\ ((r.at + p) % PageSize) + n <= PageSize BY <1>4
  <1>7. nor' \in NorState /\ nor'.pos = p + n /\ nor'.pc = "write" /\ nor'.four = nor.four /\ nor'.info = nor.info
        /\ nor'.req = r /\ nor'.was = nor.was
    BY <1>1, NorMoves
  <1> HIDE DEF c, w, r, p
  <1>8. /\ chip' \in ChipState /\ chip'.four = c.four /\ SameBits(c, chip')
        /\ c.four = w => chip'.astray = c.astray
        /\ c.four = w => Takes(c, chip', r, p, n)
    BY <1>1, <1>2, <1>3, <1>5, <1>6, ProgramIs
  <1>9. Deaf' = Deaf BY <1>7 DEF Deaf
  <1>10. NorTypes' BY <1>7, <1>8 DEF NorInv, NorTypes
  <1>11. NorWhere'
    <2>1. nor'.pos <= Len(nor'.req.data) BY <1>6, <1>7
    <2> QED BY <1>1, <1>7, <2>1 DEF NorWhere
  <1>12. NorWidths' BY <1>2, <1>7, <1>8, <1>9 DEF NorInv, NorWidths
  <1>13. NorHolds'
    <2> SUFFICES ASSUME ~Deaf
                 PROVE  ~chip'.astray /\ \A x \in Cell \ vague : chip'.mem[x] = Programmed(stored, chip', r, p + n)[x]
      BY <1>7, <1>9 DEF NorHolds
    <2>1. ~chip.astray /\ \A x \in Cell \ vague : chip.mem[x] = Programmed(stored, chip, r, p)[x]
      BY DEF NorInv, NorHolds, r, p
    <2>2. stored \in [Cell -> Bits] /\ chip.bp = c.bp /\ c.bp = chip'.bp BY <1>2, <1>8 DEF NorInv, NorTypes, SameBits
    <2>3. Programmed(stored, chip, r, p) = Programmed(stored, c, r, p)
          /\ Programmed(stored, c, r, p + n) = Programmed(stored, chip', r, p + n)
      BY <2>2, ProgrammedIs
    <2>4. ~c.wip /\ c.wel /\ c.four = w BY <1>2
    <2>5. ~chip'.astray BY <2>1, <2>4, <1>2, <1>8
    <2>6. ASSUME NEW x \in Cell \ vague PROVE chip'.mem[x] = Programmed(stored, chip', r, p + n)[x]
      <3>1. c.mem[x] = Programmed(stored, c, r, p)[x] BY <2>1, <2>3, <1>2
      <3>2. chip'.mem[x] = Programmed(stored, c, r, p + n)[x] BY <3>1, <2>4, <1>8 DEF Takes
      <3> QED BY <3>2, <2>3
    <2> QED BY <2>5, <2>6
  <1>14. NorLocks' BY <1>7 DEF NorLocks
  <1> QED BY <1>10, <1>11, <1>12, <1>13, <1>14 DEF NorInv

\* One that it may lose is vague from then on.
LEMMA NorLostKeeps ==
  ASSUME NorInv, nor.pc = "write", NEW n \in Nat \ {0}, nor.pos + n <= Len(nor.req.data), (To % PageSize) + n <= PageSize,
         LET c == Done(chip) IN
         chip' = PP(c, Wide(c), To, SubSeq(nor.req.data, nor.pos + 1, nor.pos + n)),
         nor' = [nor EXCEPT !.pos = @ + n], stored' = stored, vague' = vague \cup Span(To, n)
  PROVE  NorInv'
  <1> DEFINE c == Done(chip)
             w == Wide(c)
             r == nor.req
             p == nor.pos
  <1>1. chip \in ChipState /\ nor \in NorState /\ r \in NorRequests /\ r.at + Len(r.data) <= Size /\ p \in Nat
    BY DEF NorInv, NorTypes, NorWhere, NorState
  <1>2. c \in ChipState /\ ~c.wip /\ c.four = chip.four /\ c.mem = chip.mem /\ c.astray = chip.astray /\ SameBits(chip, c)
    BY <1>1, DoneIs DEF SameCells
  <1>3. r.at \in Nat /\ r.data \in Seq(Bits) BY <1>1, NorReqIs
  <1>4. To = r.at + p BY DEF To
  <1>5. chip' = PP(c, w, r.at + p, SubSeq(r.data, p + 1, p + n)) BY <1>4
  <1>6. p + n <= Len(r.data) /\ ((r.at + p) % PageSize) + n <= PageSize BY <1>4
  <1>7. nor' \in NorState /\ nor'.pos = p + n /\ nor'.pc = "write" /\ nor'.four = nor.four /\ nor'.info = nor.info
        /\ nor'.req = r /\ nor'.was = nor.was
    BY <1>1, NorMoves
  <1> HIDE DEF c, r, p
  <1>71. w \in BOOLEAN /\ (~Deaf => w = c.four)
    <2>1. c.four \in BOOLEAN /\ nor.four \in BOOLEAN /\ nor.info.large \in BOOLEAN
      BY <1>1, <1>2 DEF ChipState, NorState, spi_nor_ids
    <2> QED BY <2>1, <1>2 DEF Wide, NorInv, NorWidths
  <1> HIDE DEF w
  <1>8. /\ chip' \in ChipState /\ chip'.four = c.four /\ SameBits(c, chip')
        /\ c.four = w => chip'.astray = c.astray
        /\ c.wel /\ c.four = w => Takes(c, chip', r, p, n)
        /\ \A x \in Cell \ Span(r.at + p, n) : chip'.mem[x] = c.mem[x]
    BY SMTT(30), <1>1, <1>2, <1>3, <1>5, <1>6, <1>71, ProgramIs
  <1>9. Deaf' = Deaf BY <1>7 DEF Deaf
  <1>10. NorTypes' BY <1>7, <1>8 DEF NorInv, NorTypes, Span
  <1>11. NorWhere'
    <2>1. nor'.pos <= Len(nor'.req.data) BY <1>6, <1>7
    <2> QED BY <1>1, <1>7, <2>1 DEF NorWhere
  <1>12. NorWidths' BY <1>2, <1>7, <1>8, <1>9 DEF NorInv, NorWidths
  <1>13. NorHolds'
    <2> SUFFICES ASSUME ~Deaf
                 PROVE  ~chip'.astray
                        /\ \A x \in Cell \ (vague \cup Span(To, n)) : chip'.mem[x] = Programmed(stored, chip', r, p + n)[x]
      BY <1>7, <1>9 DEF NorHolds
    <2>1. ~chip.astray /\ \A x \in Cell \ vague : chip.mem[x] = Programmed(stored, chip, r, p)[x]
      BY DEF NorInv, NorHolds, r, p
    <2>2. stored \in [Cell -> Bits] /\ chip.bp = chip'.bp BY <1>2, <1>8 DEF NorInv, NorTypes, SameBits
    <2>3. ASSUME NEW x \in Cell, x \notin Span(To, n)
          PROVE  Programmed(stored, chip', r, p + n)[x] = Programmed(stored, chip, r, p)[x]
      <3>1. x \in Int /\ (x \in Span(r.at, p + n) <=> x \in Span(r.at, p))
        <4>1. PICK at \in Nat : at = r.at BY <1>3
        <4>2. x \in Int BY ChipAssumption DEF Cell
        <4>3. ~(x >= at + p /\ x < (at + p) + n) BY <2>3, <1>4, <4>1 DEF Span
        <4>4. x >= at /\ x < at + (p + n) <=> x >= at /\ x < at + p
          <5>1. p \in Nat BY <1>1
          <5> QED BY ONLY <4>2, <4>3, at \in Nat, <5>1, n \in Nat \ {0}
        <4> QED BY <4>1, <4>2, <4>4 DEF Span
      <3>2. Protected(chip', x) = Protected(chip, x) BY <2>2, ProtectedSame
      <3> QED BY <3>1, <3>2 DEF Programmed
    <2> QED BY <2>1, <2>3, <1>2, <1>4, <1>71, <1>8
  <1>14. NorLocks' BY <1>7 DEF NorLocks
  <1> QED BY <1>10, <1>11, <1>12, <1>13, <1>14 DEF NorInv

LEMMA NorLeft ==
  ASSUME NorInv, nor.pc = "write", Left > 0
  PROVE  To \in Nat /\ Left \in Nat \ {0} /\ nor.pos \in Nat /\ Left = Len(nor.req.data) - nor.pos
  <1>1. nor.pos \in Nat /\ nor.req \in NorRequests /\ nor.pos <= Len(nor.req.data)
    BY DEF NorInv, NorTypes, NorWhere, NorState
  <1>2. nor.req.at \in Nat /\ Len(nor.req.data) \in Nat BY <1>1, NorReqIs
  <1> QED BY <1>1, <1>2 DEF To, Left

LEMMA NorWriteKeeps == NorInv /\ spi_nor_write => NorInv'
  <1> SUFFICES ASSUME NorInv, spi_nor_write PROVE NorInv' OBVIOUS
  <1>1. nor.pc = "write" /\ Left > 0 /\ stored' = stored /\ vague' = vague /\ nor' = [nor EXCEPT !.pos = @ + Piece]
    BY DEF spi_nor_write
  <1>2. LET c == WREN(Done(chip)) IN
        chip' = PP(c, Wide(c), To, SubSeq(nor.req.data, nor.pos + 1, nor.pos + Piece))
    BY DEF spi_nor_write, m25p80_write
  <1>3. To \in Nat /\ Left \in Nat \ {0} /\ nor.pos \in Nat /\ Left = Len(nor.req.data) - nor.pos BY <1>1, NorLeft
  <1>4. page_size(To, Left) \in 1..Left /\ \A n \in 1..page_size(To, Left) : (To % PageSize) + n <= PageSize
    BY <1>3, PieceInPage
  <1>5. nor.chunk \in Nat \ {1} BY NorAssumption DEF NorInv, NorTypes, NorState
  <1>6. Piece \in 1..page_size(To, Left) BY <1>3, <1>4, <1>5 DEF Piece
  <1>7. Len(nor.req.data) \in Nat
    <2>1. nor.req \in NorRequests BY <1>1 DEF NorInv, NorWhere
    <2> QED BY <2>1, NorReqIs
  <1>8. Piece \in Nat \ {0} /\ nor.pos + Piece <= Len(nor.req.data) /\ (To % PageSize) + Piece <= PageSize
    BY <1>3, <1>4, <1>6, <1>7
  <1> QED BY <1>1, <1>2, <1>8, NorPieceKeeps

\* A word that starts at an even address lies in one page.
LEMMA WordInPage ==
  ASSUME NEW a \in Nat, a % 2 = 0
  PROVE  (a % PageSize) + 2 <= PageSize
  <1>1. PICK h \in Int : PageSize = h * 2 + (PageSize % 2) BY ChipAssumption, Quotient
  <1>2. PICK t \in Int : a = t * 2 + (a % 2) BY Quotient
  <1>3. PICK k \in Int : a = k * PageSize + (a % PageSize)
    <2>1. PageSize \in Nat \ {0} /\ a \in Int BY ChipAssumption
    <2>2. PICK p \in Nat \ {0} : p = PageSize BY <2>1
    <2>3. \E k \in Int : a = k * p + (a % p) BY ONLY <2>1, Quotient
    <2> QED BY <2>2, <2>3
  <1>4. PageSize = h * 2 /\ a = t * 2 BY <1>1, <1>2, ChipAssumption
  <1>5. PICK e \in Int : e = k * h OBVIOUS
  <1>6. k * PageSize = e * 2 BY <1>4, <1>5
  <1>7. PICK r \in 0..(PageSize - 1) : r = a % PageSize BY ChipAssumption
  <1>8. t * 2 = e * 2 + r BY <1>3, <1>4, <1>6, <1>7
  <1>9. r + 2 <= PageSize BY ONLY <1>8, <1>4, <1>7, t \in Int, e \in Int, h \in Int
  <1> QED BY <1>7, <1>9

LEMMA SstWriteKeeps == NorInv /\ sst_write => NorInv'
  <1> SUFFICES ASSUME NorInv, sst_write PROVE NorInv' OBVIOUS
  <1> DEFINE n == IF To % 2 = 1 \/ Left = 1 THEN 1 ELSE 2
             enabled == nor.pos = 0 \/ Left = 1 \/ (nor.pos > 0 /\ nor.req.at % 2 = 0)
             c == IF enabled THEN WREN(Done(chip)) ELSE Done(chip)
  <1>1. /\ nor.pc = "write" /\ Left > 0 /\ stored' = stored /\ nor' = [nor EXCEPT !.pos = @ + n]
        /\ chip' = PP(c, Wide(c), To, SubSeq(nor.req.data, nor.pos + 1, nor.pos + n))
        /\ vague' = IF enabled THEN vague ELSE vague \cup Span(To, n)
    BY DEF sst_write, m25p80_write
  <1>2. To \in Nat /\ Left \in Nat \ {0} /\ nor.pos \in Nat /\ Left = Len(nor.req.data) - nor.pos BY <1>1, NorLeft
  <1>3. Len(nor.req.data) \in Nat
    <2>1. nor.req \in NorRequests BY <1>1 DEF NorInv, NorWhere
    <2> QED BY <2>1, NorReqIs
  <1>4. n \in Nat \ {0} /\ nor.pos + n <= Len(nor.req.data) BY <1>2, <1>3
  <1>5. (To % PageSize) + n <= PageSize
    <2>1. CASE n = 1
      <3>1. To % PageSize \in 0..(PageSize - 1) BY <1>2, ChipAssumption
      <3> QED BY <2>1, <3>1, ChipAssumption
    <2>2. CASE n # 1
      <3>1. n = 2 /\ To % 2 = 0 BY <1>2, <2>2
      <3> QED BY <1>2, <3>1, WordInPage
    <2> QED BY <2>1, <2>2
  <1> HIDE DEF n
  <1>6. CASE enabled
    <2>1. c = WREN(Done(chip)) /\ vague' = vague BY <1>1, <1>6
    <2> HIDE DEF c, enabled
    <2>2. LET b == WREN(Done(chip)) IN chip' = PP(b, Wide(b), To, SubSeq(nor.req.data, nor.pos + 1, nor.pos + n))
      BY <1>1, <2>1
    <2> QED BY <1>1, <1>4, <1>5, <2>1, <2>2, NorPieceKeeps
  <1>7. CASE ~enabled
    <2>1. c = Done(chip) /\ vague' = vague \cup Span(To, n) BY <1>1, <1>7
    <2> HIDE DEF c, enabled
    <2>2. LET b == Done(chip) IN chip' = PP(b, Wide(b), To, SubSeq(nor.req.data, nor.pos + 1, nor.pos + n))
      BY <1>1, <2>1
    <2> QED BY <1>1, <1>4, <1>5, <2>1, <2>2, NorLostKeeps
  <1> QED BY <1>6, <1>7

LEMMA NorWriteEnds == NorInv /\ WriteEnd => NorInv'
  <1> SUFFICES ASSUME NorInv, WriteEnd PROVE NorInv' OBVIOUS
  <1> DEFINE r == nor.req
  <1>1. /\ nor.pc = "write" /\ Left = 0 /\ stored' = Programmed(stored, chip, r, Len(r.data)) /\ vague' = vague
        /\ nor' = [nor EXCEPT !.pc = "idle", !.req = NoReq, !.pos = 0, !.was = 0]
        /\ chip' = IF nor.info.sst THEN WRDI(Done(chip)) ELSE chip
    BY DEF WriteEnd, End
  <1>2. chip \in ChipState /\ nor \in NorState /\ stored \in [Cell -> Bits] /\ vague \in SUBSET Cell BY DEF NorInv, NorTypes
  <1>3. nor' \in NorState /\ nor'.pc = "idle" /\ nor'.four = nor.four /\ nor'.info = nor.info
    BY <1>1, <1>2, NorStops
  <1>4. Deaf' = Deaf BY <1>3 DEF Deaf
  <1>5. /\ chip' \in ChipState /\ chip'.mem = chip.mem /\ chip'.astray = chip.astray /\ chip'.four = chip.four
        /\ chip'.wip => chip.wip
    <2> DEFINE b == Done(chip)
    <2>1. b \in ChipState /\ b.mem = chip.mem /\ b.astray = chip.astray /\ b.four = chip.four /\ ~b.wip
      BY <1>2, DoneIs DEF SameCells
    <2> HIDE DEF b
    <2>2. WRDI(b) \in ChipState /\ WRDI(b).mem = b.mem /\ WRDI(b).astray = b.astray /\ WRDI(b).four = b.four /\ ~WRDI(b).wip
      BY <2>1, DisableIs DEF SameCells
    <2>3. chip' = WRDI(b) \/ chip' = chip BY <1>1 DEF b
    <2> QED BY <1>2, <2>1, <2>2, <2>3
  <1>6. stored' \in [Cell -> Bits] BY <1>1, <1>2, ProgrammedIs
  <1>7. nor.pos = Len(r.data)
    <2>1. nor.req \in NorRequests /\ nor.pos \in Nat BY <1>1, <1>2 DEF NorInv, NorWhere, NorState
    <2>2. Len(r.data) \in Nat BY <2>1, NorReqIs
    <2> QED BY <1>1, <2>1, <2>2 DEF Left
  <1>8. NorTypes' BY <1>1, <1>2, <1>3, <1>5, <1>6 DEF NorTypes
  <1>9. NorWhere' BY <1>3 DEF NorWhere
  <1>10. NorWidths' BY <1>1, <1>3, <1>4, <1>5 DEF NorInv, NorWidths
  <1>11. NorHolds' BY <1>1, <1>3, <1>4, <1>5, <1>7 DEF NorInv, NorHolds
  <1>12. NorLocks' BY <1>3 DEF NorLocks
  <1> QED BY <1>8, <1>9, <1>10, <1>11, <1>12 DEF NorInv

NorSame == stored' = stored /\ vague' = vague

\* The end of an operation that has not changed what the chip holds.
LEMMA NorRests ==
  ASSUME NorInv, nor.pc \notin {"down", "failed", "write"}, NorSame,
         chip' \in ChipState, chip'.mem = chip.mem, chip'.four = chip.four, ~Deaf => chip'.astray = chip.astray,
         nor' \in NorState, nor'.pc = "idle", nor'.four = nor.four, nor'.info = nor.info
  PROVE  NorInv'
  <1>1. Deaf' = Deaf BY DEF Deaf
  <1>2. NorTypes' BY DEF NorInv, NorTypes, NorSame
  <1>3. NorWhere' BY DEF NorWhere
  <1>4. NorWidths' BY <1>1 DEF NorInv, NorWidths
  <1>5. NorHolds' BY <1>1 DEF NorInv, NorHolds, NorSame
  <1>6. NorLocks' BY DEF NorLocks
  <1> QED BY <1>2, <1>3, <1>4, <1>5, <1>6 DEF NorInv

LEMMA NorEnds ==
  ASSUME NorInv, BadLength \/ EraseEnd \/ LockEnd \/ spi_nor_read
  PROVE  NorInv'
  <1>1. chip \in ChipState /\ nor \in NorState BY DEF NorInv, NorTypes
  <1>2. nor.pc \notin {"down", "failed", "write"} /\ NorSame BY DEF BadLength, EraseEnd, LockEnd, spi_nor_read, NorSame
  <1>3. nor' = [nor EXCEPT !.pc = "idle", !.req = NoReq, !.pos = 0, !.was = 0]
    BY DEF BadLength, EraseEnd, LockEnd, spi_nor_read, End
  <1>4. nor' \in NorState /\ nor'.pc = "idle" /\ nor'.four = nor.four /\ nor'.info = nor.info BY <1>1, <1>3, NorStops
  <1>5. CASE spi_nor_read
    <2> DEFINE c == Done(chip)
               d == READ(c, Wide(c))
    <2>1. chip' = d BY <1>5 DEF spi_nor_read, m25p80_read
    <2>2. c \in ChipState /\ c.mem = chip.mem /\ c.astray = chip.astray /\ c.four = chip.four BY <1>1, DoneIs DEF SameCells
    <2>3. Wide(c) \in BOOLEAN /\ (~Deaf => Wide(c) = c.four)
      <3>1. c.four \in BOOLEAN /\ nor.four \in BOOLEAN /\ nor.info.large \in BOOLEAN
        BY <1>1, <2>2 DEF ChipState, NorState, spi_nor_ids
      <3> HIDE DEF c
      <3> QED BY <3>1, <2>2, <1>2 DEF Wide, NorInv, NorWidths
    <2> HIDE DEF c
    <2>4. d \in ChipState /\ d.four = c.four /\ d.mem = c.mem /\ (c.four = Wide(c) => d.astray = c.astray)
      BY <2>2, <2>3, ReadIs
    <2> HIDE DEF d
    <2> QED BY <1>2, <1>4, <2>1, <2>2, <2>3, <2>4, NorRests
  <1>6. CASE ~spi_nor_read
    <2>1. chip' = chip BY <1>6 DEF BadLength, EraseEnd, LockEnd
    <2> QED BY <1>1, <1>2, <1>4, <2>1, NorRests
  <1> QED BY <1>5, <1>6

LEMMA NorChipErased == NorInv /\ erase_chip => NorInv'
  <1> SUFFICES ASSUME NorInv, erase_chip PROVE NorInv' OBVIOUS
  <1> DEFINE c == WREN(Done(chip))
  <1>1. chip \in ChipState /\ nor \in NorState /\ stored \in [Cell -> Bits] /\ vague \in SUBSET Cell BY DEF NorInv, NorTypes
  <1>2. /\ nor.pc = "erase" /\ chip' = CE(c)
        /\ stored' = IF chip.bp = 0 THEN Blank ELSE stored
        /\ vague' = IF chip.bp = 0 THEN {} ELSE vague
    BY DEF erase_chip
  <1>3. nor' \in NorState /\ nor'.pc = "idle" /\ nor'.four = nor.four /\ nor'.info = nor.info
    <2>1. PICK slow \in BOOLEAN : slow = (chip.bp = 0) OBVIOUS
    <2>2. nor' = [nor EXCEPT !.pc = "idle", !.req = NoReq, !.pos = 0, !.was = 0, !.slow = slow] BY <2>1 DEF erase_chip
    <2>3. "idle" \in NorPcs /\ NoReq \in NorRequests \cup {NoReq} /\ 0 \in Nat /\ 0 \in 0..7 BY DEF NorPcs
    <2> QED BY ONLY <1>1, <2>2, <2>3, slow \in BOOLEAN DEF NorState
  <1>4. c \in ChipState /\ ~c.wip /\ c.wel /\ c.four = chip.four /\ c.mem = chip.mem /\ c.astray = chip.astray /\ c.bp = chip.bp
    BY NorEnabled DEF SameBits
  <1> HIDE DEF c
  <1>5. /\ chip' \in ChipState /\ chip'.four = chip.four /\ chip'.astray = chip.astray
        /\ chip'.mem = IF chip.bp = 0 THEN Blank ELSE chip.mem
    BY <1>2, <1>4, ChipEraseIs
  <1>6. Deaf' = Deaf BY <1>3 DEF Deaf
  <1>7. NorTypes' BY <1>1, <1>2, <1>3, <1>5, BlankIs DEF NorTypes
  <1>8. NorWhere' BY <1>3 DEF NorWhere
  <1>9. NorWidths' BY <1>2, <1>3, <1>5, <1>6 DEF NorInv, NorWidths
  <1>10. NorHolds' BY <1>2, <1>3, <1>5, <1>6 DEF NorInv, NorHolds
  <1>11. NorLocks' BY <1>3 DEF NorLocks
  <1> QED BY <1>7, <1>8, <1>9, <1>10, <1>11 DEF NorInv

LEMMA NorSectorErased == NorInv /\ spi_nor_erase => NorInv'
  <1> SUFFICES ASSUME NorInv, spi_nor_erase PROVE NorInv' OBVIOUS
  <1> DEFINE c == WREN(Done(chip))
             w == Wide(c)
  <1>1. chip \in ChipState /\ nor \in NorState /\ stored \in [Cell -> Bits] /\ vague \in SUBSET Cell BY DEF NorInv, NorTypes
  <1>2. /\ nor.pc = "erase" /\ chip' = SE(c, w, To)
        /\ stored' = IF Free(c, To) THEN Wiped(stored, Block(To)) ELSE stored
        /\ vague' = IF Free(c, To) THEN vague \ Block(To) ELSE vague
        /\ nor' = [nor EXCEPT !.pos = @ + EraseSize]
    BY DEF spi_nor_erase, m25p80_erase, Free
  <1>3. /\ nor' \in NorState /\ nor'.pc = "erase" /\ nor'.four = nor.four /\ nor'.info = nor.info /\ nor'.req = nor.req
    BY <1>1, <1>2, NorMoves, ChipAssumption
  <1>4. /\ c \in ChipState /\ ~c.wip /\ c.wel /\ c.four = chip.four /\ c.mem = chip.mem /\ c.astray = chip.astray
        /\ w \in BOOLEAN /\ (~Deaf => w = c.four)
    BY <1>2, NorEnabled
  <1> HIDE DEF w, c
  <1>5. /\ chip' \in ChipState /\ chip'.four = c.four
        /\ c.four = w => chip'.astray = c.astray
        /\ chip'.mem = c.mem \/ (chip'.mem = Wiped(c.mem, Block(To)) /\ Free(c, To))
        /\ c.four = w /\ Free(c, To) => chip'.mem = Wiped(c.mem, Block(To))
    BY <1>2, <1>4, SectorIs
  <1>6. Deaf' = Deaf BY <1>3 DEF Deaf
  <1>7. NorTypes' BY <1>1, <1>2, <1>3, <1>5, WipedIs DEF NorTypes
  <1>8. NorWhere' BY <1>2, <1>3 DEF NorInv, NorWhere
  <1>9. NorWidths' BY <1>2, <1>3, <1>4, <1>5, <1>6 DEF NorInv, NorWidths
  <1>10. NorHolds'
    <2> SUFFICES ASSUME ~Deaf PROVE ~chip'.astray /\ \A x \in Cell \ vague' : chip'.mem[x] = stored'[x]
      BY <1>3, <1>6 DEF NorHolds
    <2>1. ~chip.astray /\ \A x \in Cell \ vague : chip.mem[x] = stored[x] BY <1>2 DEF NorInv, NorHolds
    <2>2. ~chip'.astray BY <2>1, <1>4, <1>5
    <2>3. CASE Free(c, To)
      <3>1. chip'.mem = Wiped(chip.mem, Block(To)) /\ stored' = Wiped(stored, Block(To)) /\ vague' = vague \ Block(To)
        BY <2>3, <1>2, <1>4, <1>5
      <3> QED BY <3>1, <2>1, <2>2 DEF Wiped
    <2>4. CASE ~Free(c, To) BY <2>4, <2>1, <2>2, <1>2, <1>4, <1>5
    <2> QED BY <2>3, <2>4
  <1>11. NorLocks' BY <1>3 DEF NorLocks
  <1> QED BY <1>7, <1>8, <1>9, <1>10, <1>11 DEF NorInv

\* A request begins, or waits for a chip that is erasing all of itself.
LEMMA NorBegins ==
  ASSUME NorInv, NEW r \in NorRequests, Begin(r) \/ wait_till_ready(r)
  PROVE  NorInv'
  <1>1. CASE wait_till_ready(r)
    <2>1. UNCHANGED norVars BY <1>1 DEF wait_till_ready
    <2> QED BY <2>1 DEF norVars, NorInv, NorTypes, NorWhere, NorWidths, NorHolds, NorLocks, Deaf
  <1>2. CASE Begin(r)
    <2>1. chip \in ChipState /\ nor \in NorState /\ stored \in [Cell -> Bits] /\ vague \in SUBSET Cell BY DEF NorInv, NorTypes
    <2>2. r.op \in {"write", "erase", "read", "lock", "unlock"} /\ r.at \in Nat /\ Len(r.data) \in Nat \ {0} BY NorReqIs
    <2>3. /\ nor.pc = "idle" /\ r.at + Len(r.data) <= Size /\ chip' = Done(chip) /\ stored' = stored /\ vague' = vague
          /\ nor' = [nor EXCEPT !.pc = r.op, !.req = r, !.pos = 0, !.was = chip.bp, !.slow = FALSE]
      BY <1>2 DEF Begin
    <2>4. r.op \in NorPcs /\ chip.bp \in 0..7 BY <2>1, <2>2 DEF NorPcs, ChipState
    <2>5. /\ nor' \in NorState /\ nor'.pc = r.op /\ nor'.req = r /\ nor'.pos = 0 /\ nor'.was = chip.bp
          /\ nor'.four = nor.four /\ nor'.info = nor.info
      BY ONLY <2>1, <2>3, <2>4, r \in NorRequests DEF NorState
    <2>6. /\ chip' \in ChipState /\ chip'.mem = chip.mem /\ chip'.astray = chip.astray /\ chip'.four = chip.four
          /\ chip'.bp = chip.bp /\ ~chip'.wip
      BY <2>1, <2>3, DoneIs DEF SameCells, SameBits
    <2>7. Deaf' = Deaf BY <2>5 DEF Deaf
    <2>8. NorTypes' BY <2>1, <2>3, <2>5, <2>6 DEF NorTypes
    <2>9. NorWhere' BY <2>2, <2>3, <2>5 DEF NorWhere
    <2>10. NorWidths' BY <2>3, <2>5, <2>6, <2>7 DEF NorInv, NorWidths
    <2>11. NorHolds'
      <3>1. Programmed(stored, chip', r, 0) = stored BY <2>1, <2>2, ProgrammedNone
      <3> QED BY <3>1, <2>3, <2>5, <2>6, <2>7 DEF NorInv, NorHolds
    <2>12. NorLocks' BY <2>2, <2>5, <2>6 DEF NorLocks
    <2> QED BY <2>8, <2>9, <2>10, <2>11, <2>12 DEF NorInv
  <1> QED BY <1>1, <1>2

\* The bits that lock and unlock choose.
LEMMA BpIs ==
  ASSUME NEW a \in Int
  PROVE  LockBp(a) \in 1..7 /\ UnlockBp(a) \in 0..6
  <1>1. Size \in Nat BY ChipAssumption
  <1>2. Size \div 2 \in Int /\ Size \div 4 \in Int /\ Size \div 8 \in Int /\ Size \div 16 \in Int /\ Size \div 32 \in Int
        /\ Size \div 64 \in Int
    BY <1>1
  <1>3. LockBp(a) \in 1..7 BY <1>1, <1>2 DEF LockBp
  <1>4. UnlockBp(a) \in 0..6 BY <1>1, <1>2 DEF UnlockBp
  <1> QED BY <1>3, <1>4

LEMMA NorLockKeeps == NorInv /\ (spi_nor_lock \/ spi_nor_unlock) => NorInv'
  <1> SUFFICES ASSUME NorInv, spi_nor_lock \/ spi_nor_unlock PROVE NorInv' OBVIOUS
  <1> DEFINE low == LockBp(nor.req.at)
             high == UnlockBp(nor.req.at + Len(nor.req.data))
             bp == IF nor.pc = "lock" THEN low ELSE high
             set == IF nor.pc = "lock" THEN low > chip.bp ELSE high < chip.bp
             pc == IF nor.pc = "lock" THEN "locked" ELSE "unlocked"
             c == WREN(chip)
  <1>1. chip \in ChipState /\ nor \in NorState /\ stored \in [Cell -> Bits] /\ vague \in SUBSET Cell BY DEF NorInv, NorTypes
  <1>2. /\ nor.pc \in {"lock", "unlock"} /\ NorSame
        /\ chip' = IF set THEN WRSR(c, bp, chip.quad) ELSE chip
        /\ nor' = [nor EXCEPT !.pc = pc]
    BY DEF spi_nor_lock, spi_nor_unlock, NorSame
  <1>3. pc \in {"locked", "unlocked"} /\ pc \in NorPcs BY DEF NorPcs
  <1>4. ~chip.wip /\ chip.bp = nor.was /\ nor.req \in NorRequests BY <1>2 DEF NorInv, NorLocks, NorWhere
  <1>5. low \in 1..7 /\ high \in 0..6
    <2>1. nor.req.at \in Int /\ nor.req.at + Len(nor.req.data) \in Int BY <1>4, NorReqIs
    <2> QED BY <2>1, BpIs
  <1> HIDE DEF low, high
  <1>6. bp \in 0..7 BY <1>5
  <1>7. nor' \in NorState /\ nor'.pc = pc /\ nor'.four = nor.four /\ nor'.info = nor.info /\ nor'.req = nor.req /\ nor'.was = nor.was
    <2> HIDE DEF pc
    <2> QED BY ONLY <1>1, <1>2, <1>3 DEF NorState
  <1>8. c \in ChipState /\ ~c.wip /\ c.wel /\ c.mem = chip.mem /\ c.four = chip.four /\ c.astray = chip.astray
    BY <1>1, <1>4, EnableIs DEF SameCells
  <1> HIDE DEF c
  <1>9. /\ chip' \in ChipState /\ chip'.mem = chip.mem /\ chip'.astray = chip.astray /\ chip'.four = chip.four
        /\ chip'.bp = IF set THEN bp ELSE chip.bp
    <2>1. PICK quad \in BOOLEAN : quad = chip.quad BY <1>1 DEF ChipState
    <2>2. LET d == WRSR(c, bp, quad) IN d \in ChipState /\ d.mem = c.mem /\ d.astray = c.astray /\ d.four = c.four /\ d.bp = bp
      <3> HIDE DEF bp
      <3> DEFINE d == WRSR(c, bp, quad)
      <3>0. c \in ChipState BY <1>8
      <3>1. SameCells(c, d) /\ d \in ChipState /\ d.four = c.four BY ONLY <3>0, <1>6, quad \in BOOLEAN, StatusKeeps, Zenon
      <3>2. d.bp = bp BY <1>6, <1>8, StatusIs, Zenon
      <3> QED BY <3>1, <3>2, <1>8 DEF SameCells
    <2> HIDE DEF set, bp
    <2> QED BY <1>1, <1>2, <1>8, <2>1, <2>2
  <1>10. Deaf' = Deaf BY <1>7 DEF Deaf
  <1>11. NorTypes' BY <1>1, <1>2, <1>7, <1>9 DEF NorTypes, NorSame
  <1>12. NorWhere' BY <1>2, <1>3, <1>7 DEF NorInv, NorWhere
  <1>13. NorWidths' BY <1>2, <1>3, <1>7, <1>9, <1>10 DEF NorInv, NorWidths
  <1>14. NorHolds' BY <1>2, <1>3, <1>7, <1>9, <1>10 DEF NorInv, NorHolds, NorSame
  <1>15. NorLocks'
    <2>1. nor.pc = "lock" => pc = "locked" /\ chip'.bp = IF low > nor.was THEN low ELSE nor.was BY <1>4, <1>9
    <2>2. nor.pc = "unlock" => pc = "unlocked" /\ chip'.bp = IF high < nor.was THEN high ELSE nor.was BY <1>4, <1>9
    <2> QED BY <1>2, <1>7, <2>1, <2>2 DEF NorLocks, low, high
  <1> QED BY <1>11, <1>12, <1>13, <1>14, <1>15 DEF NorInv

\* What the probe does to a chip before it sets the address mode.
LEMMA ProbeIs ==
  ASSUME NorInv
  PROVE  LET c == set_quad_mode(Unprotect(chip)) IN
         /\ c \in ChipState /\ c.mem = chip.mem /\ c.four = chip.four /\ c.astray = chip.astray
         /\ nor.info.large /\ ~nor.info.quad /\ nor.info.mfr \in {"st", "winbond"} => c = chip
         /\ nor.info.quad /\ nor.info.mfr = "macronix" => ~c.wip
  <1> DEFINE u == Unprotect(chip)
             v == WREN(u)
             c == set_quad_mode(u)
  <1>1. chip \in ChipState BY DEF NorInv, NorTypes
  <1>2. u \in ChipState /\ u.mem = chip.mem /\ u.four = chip.four /\ u.astray = chip.astray
    <2> DEFINE b == WREN(chip)
    <2>1. b \in ChipState /\ b.mem = chip.mem /\ b.four = chip.four /\ b.astray = chip.astray BY <1>1, EnableIs DEF SameCells
    <2> HIDE DEF b
    <2>2. LET d == WRSR(b, 0, FALSE) IN d \in ChipState /\ d.mem = b.mem /\ d.four = b.four /\ d.astray = b.astray
      <3> DEFINE d == WRSR(b, 0, FALSE)
      <3>1. 0 \in 0..7 /\ FALSE \in BOOLEAN OBVIOUS
      <3>2. SameCells(b, d) /\ d \in ChipState /\ d.four = b.four BY <3>1, <2>1, StatusKeeps, Zenon
      <3> QED BY <3>2 DEF SameCells
    <2> QED BY <1>1, <2>1, <2>2 DEF Unprotect, b
  <1>3. nor.info.mfr \in {"st", "winbond"} => u = chip BY DEF Unprotect
  <1> HIDE DEF u
  <1>4. v \in ChipState /\ v.mem = u.mem /\ v.four = u.four /\ v.astray = u.astray BY <1>2, EnableIs DEF SameCells
  <1>5. u.bp \in 0..7 BY <1>2 DEF ChipState
  <1> HIDE DEF v
  <1>6. \A bp \in 0..7 : LET d == WRSR(v, bp, TRUE) IN d \in ChipState /\ d.mem = u.mem /\ d.four = u.four /\ d.astray = u.astray
    BY <1>4, StatusIs DEF SameCells
  <1>7. LET d == Done(WRSR(v, u.bp, TRUE)) IN d \in ChipState /\ d.mem = u.mem /\ d.four = u.four /\ d.astray = u.astray /\ ~d.wip
    <2> DEFINE w == WRSR(v, u.bp, TRUE)
    <2>1. w \in ChipState /\ w.mem = u.mem /\ w.four = u.four /\ w.astray = u.astray BY <1>5, <1>6
    <2> HIDE DEF w
    <2>2. Done(w) \in ChipState /\ Done(w).mem = w.mem /\ Done(w).four = w.four /\ Done(w).astray = w.astray /\ ~Done(w).wip
      BY <2>1, DoneIs DEF SameCells
    <2> QED BY <2>1, <2>2 DEF w
  <1>8. c = IF ~nor.info.quad THEN u
            ELSE IF nor.info.mfr = "macronix" THEN Done(WRSR(v, u.bp, TRUE)) ELSE WRSR(v, 0, TRUE)
    BY DEF set_quad_mode, v
  <1> HIDE DEF c
  <1>9. c \in ChipState /\ c.mem = u.mem /\ c.four = u.four /\ c.astray = u.astray
    <2>1. CASE ~nor.info.quad BY <2>1, <1>2, <1>8
    <2>2. CASE nor.info.quad /\ nor.info.mfr = "macronix" BY <2>2, <1>7, <1>8
    <2>3. CASE nor.info.quad /\ nor.info.mfr # "macronix"
      <3> DEFINE d == WRSR(v, 0, TRUE)
      <3>1. c = d BY <2>3, <1>8
      <3>2. d \in ChipState /\ d.mem = u.mem /\ d.four = u.four /\ d.astray = u.astray
        <4>1. 0 \in 0..7 OBVIOUS
        <4> QED BY <4>1, <1>6, Zenon
      <3> HIDE DEF d
      <3> QED BY <3>1, <3>2
    <2> QED BY <2>1, <2>2, <2>3
  <1>10. nor.info.quad /\ nor.info.mfr = "macronix" => ~c.wip BY <1>7, <1>8
  <1>11. ~nor.info.quad /\ nor.info.mfr \in {"st", "winbond"} => c = chip BY <1>3, <1>8
  <1> QED BY <1>2, <1>9, <1>10, <1>11 DEF c, u

LEMMA NorProbed == NorInv /\ spi_nor_scan => NorInv'
  <1> SUFFICES ASSUME NorInv, spi_nor_scan PROVE NorInv' OBVIOUS
  <1> DEFINE c == set_quad_mode(Unprotect(chip))
             bad == nor.info.quad /\ ~c.quad
             pc == IF bad THEN "failed" ELSE "idle"
             d == set_4byte(c)
  <1>1. chip \in ChipState /\ nor \in NorState /\ stored \in [Cell -> Bits] /\ vague \in SUBSET Cell BY DEF NorInv, NorTypes
  <1>2. /\ nor.pc = "down" /\ chip' = (IF bad THEN c ELSE d) /\ NorSame
        /\ nor' = [nor EXCEPT !.pc = pc, !.four = nor.info.large, !.slow = FALSE]
    BY DEF spi_nor_scan, NorSame
  <1>3. /\ c \in ChipState /\ c.mem = chip.mem /\ c.four = chip.four /\ c.astray = chip.astray
        /\ nor.info.large /\ ~nor.info.quad /\ nor.info.mfr \in {"st", "winbond"} => c = chip
        /\ nor.info.quad /\ nor.info.mfr = "macronix" => ~c.wip
    BY ProbeIs
  <1> HIDE DEF c
  <1>4. /\ nor.info.large \in BOOLEAN /\ nor.info.quad \in BOOLEAN
        /\ nor.info.large /\ nor.info.mfr # "amd" => nor.info.mfr \in {"macronix", "st", "winbond"}
        /\ nor.info.large /\ nor.info.quad => nor.info.mfr \in {"macronix", "amd"}
    BY <1>1 DEF NorState, spi_nor_ids
  <1>5. /\ d \in ChipState /\ d.mem = c.mem /\ d.astray = c.astray
        /\ ~nor.info.large => d.four = c.four
        /\ nor.info.large /\ nor.info.mfr # "amd" => d.wip = c.wip /\ (d.four <=> (c.four \/ ~c.wip))
    <2> DEFINE b == WREN(c)
               e == EN4B(b, TRUE)
    <2>1. b \in ChipState /\ b.mem = c.mem /\ b.four = c.four /\ b.astray = c.astray /\ b.wip = c.wip
      BY <1>3, EnableIs DEF SameCells
    <2> HIDE DEF b
    <2>2. /\ e \in ChipState /\ e.mem = b.mem /\ e.astray = b.astray /\ e.wip = b.wip
          /\ e.four = IF b.wip THEN b.four ELSE TRUE
      BY <2>1, ModeIs DEF SameCells
    <2> HIDE DEF e
    <2>3. LET f == WRDI(e) IN f \in ChipState /\ f.mem = e.mem /\ f.astray = e.astray /\ f.wip = e.wip /\ f.four = e.four
      BY <2>2, DisableIs DEF SameCells
    <2>4. LET f == EN4B(c, TRUE) IN
          f \in ChipState /\ f.mem = c.mem /\ f.astray = c.astray /\ f.wip = c.wip /\ f.four = IF c.wip THEN c.four ELSE TRUE
      BY <1>3, ModeIs DEF SameCells
    <2>5. CASE ~nor.info.large \/ nor.info.mfr = "amd"
      <3>1. d = c BY <2>5 DEF set_4byte
      <3> QED BY <3>1, <2>5, <1>3
    <2>6. CASE nor.info.large /\ nor.info.mfr = "st"
      <3>1. d = WRDI(e) BY <2>6, <1>4 DEF set_4byte, e, b
      <3> HIDE DEF d
      <3> QED BY <3>1, <2>1, <2>2, <2>3, <2>6
    <2>7. CASE nor.info.large /\ nor.info.mfr # "st" /\ nor.info.mfr # "amd"
      <3>1. d = EN4B(c, TRUE) BY <2>7, <1>4 DEF set_4byte
      <3> HIDE DEF d
      <3> QED BY <3>1, <2>4, <2>7
    <2> QED BY <2>5, <2>6, <2>7, <1>4
  <1> HIDE DEF d, bad
  <1>6. /\ nor' \in NorState /\ nor'.pc = pc /\ pc \in {"failed", "idle"} /\ nor'.four = nor.info.large
        /\ nor'.info = nor.info
    <2>1. pc \in {"failed", "idle"} OBVIOUS
    <2> HIDE DEF pc
    <2>2. pc \in NorPcs BY <2>1 DEF NorPcs
    <2> QED BY ONLY <1>1, <1>2, <1>4, <2>1, <2>2 DEF NorState
  <1>7. chip' \in ChipState /\ chip'.mem = chip.mem /\ chip'.astray = chip.astray BY <1>2, <1>3, <1>5
  <1>8. Deaf' = Deaf BY <1>6 DEF Deaf
  <1>9. NorTypes' BY <1>1, <1>2, <1>6, <1>7 DEF NorTypes, NorSame
  <1>10. NorWhere' BY <1>6 DEF NorWhere
  <1>11. NorWidths'
    <2>1. nor'.four = nor'.info.large BY <1>6
    <2> SUFFICES ASSUME ~Deaf, nor.info.mfr # "amd"
                 PROVE  /\ ~nor.info.large => ~chip'.four
                        /\ nor.info.large /\ ~bad => chip'.four
                        /\ nor.info.large => chip'.four \/ ~chip'.wip
      BY <2>1, <1>6, <1>8 DEF NorWidths
    <2>2. ~nor.info.large => ~chip.four BY DEF NorInv, NorWidths
    <2>3. nor.info.large => chip.four \/ ~chip.wip BY DEF NorInv, NorWidths
    <2>4. nor.info.large => (c.four \/ ~c.wip)
      <3>1. CASE nor.info.quad BY <3>1, <1>3, <1>4
      <3>2. CASE ~nor.info.quad
        <4>1. nor.info.large => nor.info.mfr \in {"st", "winbond"} BY <3>2, <1>4 DEF Deaf
        <4> QED BY <4>1, <3>2, <2>3, <1>3
      <3> QED BY <3>1, <3>2
    <2>5. CASE bad BY <2>5, <2>2, <2>4, <1>2, <1>3
    <2>6. CASE ~bad BY <2>6, <2>2, <2>4, <1>2, <1>3, <1>5
    <2> QED BY <2>5, <2>6
  <1>12. NorHolds' BY <1>2, <1>6, <1>7, <1>8 DEF NorInv, NorHolds, NorSame
  <1>13. NorLocks' BY <1>6 DEF NorLocks
  <1> QED BY <1>9, <1>10, <1>11, <1>12, <1>13 DEF NorInv

LEMMA NorIsReset == NorInv /\ NorReset => NorInv'
  <1> SUFFICES ASSUME NorInv, NorReset PROVE NorInv' OBVIOUS
  <1>1. chip \in ChipState /\ nor \in NorState /\ stored \in [Cell -> Bits] /\ vague \in SUBSET Cell BY DEF NorInv, NorTypes
  <1>2. /\ stored' = stored /\ Pending \subseteq Cell /\ vague \subseteq vague' /\ Pending \subseteq vague' /\ vague' \in SUBSET Cell
        /\ chip' = chip \/ chip' = PowerLoss(chip)
    <2>1. Pending \subseteq Cell BY DEF Pending, Span
    <2>2. chip.hot \subseteq Cell BY <1>1 DEF ChipState
    <2> QED BY <1>1, <2>1, <2>2 DEF NorReset
  <1>3. nor' \in NorState /\ nor'.pc = "down" /\ nor'.four = nor.four /\ nor'.info = nor.info
    <2>1. nor' = [nor EXCEPT !.pc = "down", !.req = NoReq, !.pos = 0, !.was = 0, !.slow = FALSE] BY DEF NorReset
    <2>2. "down" \in {"idle", "down"} /\ FALSE \in BOOLEAN OBVIOUS
    <2> DEFINE t == [nor EXCEPT !.pc = "down", !.req = NoReq, !.pos = 0, !.was = 0, !.slow = FALSE]
    <2>3. t \in NorState /\ t.pc = "down" /\ t.four = nor.four /\ t.info = nor.info BY <1>1, <2>2, NorStops, Zenon
    <2> QED BY <2>1, <2>3
  <1>4. /\ chip' \in ChipState /\ chip'.mem = chip.mem /\ (~chip.astray => ~chip'.astray)
        /\ chip' = chip \/ (~chip'.wip /\ ~chip'.four)
    <2>1. /\ PowerLoss(chip) \in ChipState /\ PowerLoss(chip).mem = chip.mem /\ ~PowerLoss(chip).astray
          /\ ~PowerLoss(chip).wip /\ ~PowerLoss(chip).four
      BY <1>1 DEF PowerLoss, Fresh, ChipState
    <2> QED BY <1>1, <1>2, <2>1
  <1>5. Deaf' = Deaf BY <1>3 DEF Deaf
  <1>6. NorTypes' BY <1>1, <1>2, <1>3, <1>4 DEF NorTypes
  <1>7. NorWhere' BY <1>3 DEF NorWhere
  <1>8. NorWidths' BY <1>3, <1>4, <1>5 DEF NorInv, NorWidths
  <1>9. NorHolds'
    <2> SUFFICES ASSUME ~Deaf PROVE ~chip'.astray /\ \A x \in Cell \ vague' : chip.mem[x] = stored[x]
      BY <1>2, <1>3, <1>4, <1>5 DEF NorHolds
    <2>1. ~chip'.astray BY <1>4 DEF NorInv, NorHolds
    <2>2. CASE nor.pc = "write"
      <3> DEFINE r == nor.req
                 p == nor.pos
      <3>1. \A x \in Cell \ vague : chip.mem[x] = Programmed(stored, chip, r, p)[x] BY <2>2 DEF NorInv, NorHolds
      <3>2. Pending = Span(r.at, Len(r.data)) /\ r \in NorRequests /\ p <= Len(r.data) /\ p \in Nat
        BY <2>2, <1>1 DEF Pending, NorInv, NorWhere, NorState
      <3>3. r.at \in Nat /\ Len(r.data) \in Nat BY <3>2, NorReqIs
      <3>4. Span(r.at, p) \subseteq Span(r.at, Len(r.data)) BY <3>2, <3>3, ChipAssumption DEF Span, Cell
      <3>5. \A x \in Cell \ Span(r.at, p) : Programmed(stored, chip, r, p)[x] = stored[x] BY <1>1, ProgrammedIs
      <3> QED BY <2>1, <3>1, <3>2, <3>4, <3>5, <1>2
    <2>3. CASE nor.pc # "write" BY <2>1, <2>3, <1>2 DEF NorInv, NorHolds
    <2> QED BY <2>2, <2>3
  <1>10. NorLocks' BY <1>3 DEF NorLocks
  <1> QED BY <1>6, <1>7, <1>8, <1>9, <1>10 DEF NorInv

LEMMA NorStep == NorInv /\ [NorNext]_norVars => NorInv'
  <1> SUFFICES ASSUME NorInv, [NorNext]_norVars PROVE NorInv' OBVIOUS
  <1>1. CASE spi_nor_scan BY <1>1, NorProbed
  <1>2. CASE spi_nor_write BY <1>2, NorWriteKeeps
  <1>3. CASE sst_write BY <1>3, SstWriteKeeps
  <1>4. CASE WriteEnd BY <1>4, NorWriteEnds
  <1>5. CASE BadLength \/ EraseEnd \/ LockEnd \/ spi_nor_read BY <1>5, NorEnds
  <1>6. CASE erase_chip BY <1>6, NorChipErased
  <1>7. CASE spi_nor_erase BY <1>7, NorSectorErased
  <1>8. CASE spi_nor_lock \/ spi_nor_unlock BY <1>8, NorLockKeeps
  <1>9. CASE NorReset BY <1>9, NorIsReset
  <1>10. CASE \E r \in NorRequests : Begin(r) \/ wait_till_ready(r) BY <1>10, NorBegins
  <1>11. CASE UNCHANGED norVars
    BY <1>11 DEF norVars, NorInv, NorTypes, NorWhere, NorWidths, NorHolds, NorLocks, Deaf
  <1> QED BY <1>1, <1>2, <1>3, <1>4, <1>5, <1>6, <1>7, <1>8, <1>9, <1>10, <1>11 DEF NorNext

\* What each setting of the protection covers.
LEMMA CoversIs ==
  ASSUME NorInv, NEW b \in 0..7
  PROVE  Covers(b) = {x \in Cell : b > 0 /\ x >= Open(b)}
  <1>1. chip \in ChipState BY DEF NorInv, NorTypes
  <1>2. [chip EXCEPT !.bp = b].bp = b BY <1>1 DEF ChipState
  <1> QED BY <1>2 DEF Covers, Protected

\* The regions grow with the bits.
LEMMA RegionsAre ==
  /\ Open(7) = 0
  /\ \A b \in 1..7 : Open(b) \in 0..Size
  /\ \A b \in 1..7 : \A c \in b..7 : Open(c) <= Open(b)
  <1>1. Open(7) = 0 /\ \A b \in 1..7 : Open(b) \in 0..Size BY OpenIs
  <1>2. ASSUME NEW b \in 1..7, NEW c \in b..7 PROVE Open(c) <= Open(b)
    <2>1. c \in 1..7 /\ b \in 1..c OBVIOUS
    <2> QED BY <2>1, OpenIs
  <1> QED BY <1>1, <1>2

LEMMA LockBpIs ==
  ASSUME NEW a \in Cell
  PROVE  LET l == LockBp(a) IN l \in 1..7 /\ Open(l) <= a /\ \A b \in 1..7 : Open(b) <= a => l <= b
  <1>1. Size \in Nat /\ a \in Int /\ a >= 0 BY ChipAssumption DEF Cell
  <1>2. LockBp(a) \in 1..7 BY <1>1, BpIs
  <1>3. /\ Open(1) = Size - Size \div 64 /\ Open(2) = Size - Size \div 32 /\ Open(3) = Size - Size \div 16
        /\ Open(4) = Size - Size \div 8 /\ Open(5) = Size - Size \div 4 /\ Open(6) = Size - Size \div 2
    BY DEF Open
  <1>4. LockBp(a) = CASE a < Open(6) -> 7
                      [] a >= Open(6) /\ a < Open(5) -> 6
                      [] a >= Open(5) /\ a < Open(4) -> 5
                      [] a >= Open(4) /\ a < Open(3) -> 4
                      [] a >= Open(3) /\ a < Open(2) -> 3
                      [] a >= Open(2) /\ a < Open(1) -> 2
                      [] OTHER -> 1
    BY ONLY <1>3 DEF LockBp
  <1>5. PICK o1 \in Int, o2 \in Int, o3 \in Int, o4 \in Int, o5 \in Int, o6 \in Int :
          o1 = Open(1) /\ o2 = Open(2) /\ o3 = Open(3) /\ o4 = Open(4) /\ o5 = Open(5) /\ o6 = Open(6)
    <2>1. Open(1) \in Int /\ Open(2) \in Int /\ Open(3) \in Int /\ Open(4) \in Int /\ Open(5) \in Int /\ Open(6) \in Int
      BY RegionsAre
    <2> QED BY <2>1, Zenon
  <1>6. o6 <= o5 /\ o5 <= o4 /\ o4 <= o3 /\ o3 <= o2 /\ o2 <= o1 /\ Open(7) = 0 BY <1>5, RegionsAre
  <1>7. LockBp(a) = IF a < o6 THEN 7 ELSE IF a < o5 THEN 6 ELSE IF a < o4 THEN 5 ELSE IF a < o3 THEN 4
                    ELSE IF a < o2 THEN 3 ELSE IF a < o1 THEN 2 ELSE 1
    <2> DEFINE v == LockBp(a)
    <2>1. v = CASE a < o6 -> 7 [] a >= o6 /\ a < o5 -> 6 [] a >= o5 /\ a < o4 -> 5 [] a >= o4 /\ a < o3 -> 4
                [] a >= o3 /\ a < o2 -> 3 [] a >= o2 /\ a < o1 -> 2 [] OTHER -> 1
      BY <1>4, <1>5
    <2> HIDE DEF v
    <2>2. v = IF a < o6 THEN 7 ELSE IF a < o5 THEN 6 ELSE IF a < o4 THEN 5 ELSE IF a < o3 THEN 4
              ELSE IF a < o2 THEN 3 ELSE IF a < o1 THEN 2 ELSE 1
      BY ONLY <2>1, <1>1, <1>6, o1 \in Int, o2 \in Int, o3 \in Int, o4 \in Int, o5 \in Int, o6 \in Int
    <2> QED BY <2>2 DEF v
  <1>8. LockBp(a) \in {1, 2, 3, 4, 5, 6, 7} BY <1>2
  <1>9. Open(LockBp(a)) <= a BY <1>1, <1>5, <1>6, <1>7
  <1>10. ASSUME NEW b \in 1..7, Open(b) <= a PROVE LockBp(a) <= b
    <2>1. b \in {1, 2, 3, 4, 5, 6, 7} OBVIOUS
    <2> QED BY <2>1, <1>1, <1>5, <1>6, <1>7, <1>10
  <1> QED BY <1>2, <1>9, <1>10

LEMMA UnlockBpIs ==
  ASSUME NEW e \in 1..Size
  PROVE  LET u == UnlockBp(e) IN
         u \in 0..6 /\ (u > 0 => Open(u) >= e) /\ \A b \in 1..7 : Open(b) >= e => b <= u
  <1>1. Size \in Nat /\ e \in Int /\ e > 0 BY ChipAssumption
  <1>2. UnlockBp(e) \in 0..6 BY <1>1, BpIs
  <1>3. /\ Open(1) = Size - Size \div 64 /\ Open(2) = Size - Size \div 32 /\ Open(3) = Size - Size \div 16
        /\ Open(4) = Size - Size \div 8 /\ Open(5) = Size - Size \div 4 /\ Open(6) = Size - Size \div 2
    BY DEF Open
  <1>4. UnlockBp(e) = CASE e > Open(1) -> 0
                        [] e <= Open(1) /\ e > Open(2) -> 1
                        [] e <= Open(2) /\ e > Open(3) -> 2
                        [] e <= Open(3) /\ e > Open(4) -> 3
                        [] e <= Open(4) /\ e > Open(5) -> 4
                        [] e <= Open(5) /\ e > Open(6) -> 5
                        [] OTHER -> 6
    BY ONLY <1>3 DEF UnlockBp
  <1>5. PICK o1 \in Int, o2 \in Int, o3 \in Int, o4 \in Int, o5 \in Int, o6 \in Int :
          o1 = Open(1) /\ o2 = Open(2) /\ o3 = Open(3) /\ o4 = Open(4) /\ o5 = Open(5) /\ o6 = Open(6)
    <2>1. Open(1) \in Int /\ Open(2) \in Int /\ Open(3) \in Int /\ Open(4) \in Int /\ Open(5) \in Int /\ Open(6) \in Int
      BY RegionsAre
    <2> QED BY <2>1, Zenon
  <1>6. o6 <= o5 /\ o5 <= o4 /\ o4 <= o3 /\ o3 <= o2 /\ o2 <= o1 /\ Open(7) = 0 BY <1>5, RegionsAre
  <1>7. UnlockBp(e) = IF e > o1 THEN 0 ELSE IF e > o2 THEN 1 ELSE IF e > o3 THEN 2 ELSE IF e > o4 THEN 3
                      ELSE IF e > o5 THEN 4 ELSE IF e > o6 THEN 5 ELSE 6
    <2> DEFINE v == UnlockBp(e)
    <2>1. v = CASE e > o1 -> 0 [] e <= o1 /\ e > o2 -> 1 [] e <= o2 /\ e > o3 -> 2 [] e <= o3 /\ e > o4 -> 3
                [] e <= o4 /\ e > o5 -> 4 [] e <= o5 /\ e > o6 -> 5 [] OTHER -> 6
      BY <1>4, <1>5
    <2> HIDE DEF v
    <2>2. v = IF e > o1 THEN 0 ELSE IF e > o2 THEN 1 ELSE IF e > o3 THEN 2 ELSE IF e > o4 THEN 3
              ELSE IF e > o5 THEN 4 ELSE IF e > o6 THEN 5 ELSE 6
      BY ONLY <2>1, <1>1, <1>6, o1 \in Int, o2 \in Int, o3 \in Int, o4 \in Int, o5 \in Int, o6 \in Int
    <2> QED BY <2>2 DEF v
  <1>8. UnlockBp(e) > 0 => Open(UnlockBp(e)) >= e BY <1>1, <1>5, <1>6, <1>7
  <1>9. ASSUME NEW b \in 1..7, Open(b) >= e PROVE b <= UnlockBp(e)
    <2>1. b \in {1, 2, 3, 4, 5, 6, 7} OBVIOUS
    <2> QED BY <2>1, <1>1, <1>5, <1>6, <1>7, <1>9
  <1> QED BY <1>2, <1>8, <1>9

LEMMA NorInvGives == NorInv => NorAsTold /\ LockExact
  <1> SUFFICES ASSUME NorInv PROVE NorAsTold /\ LockExact OBVIOUS
  <1>1. NorAsTold BY DEF NorInv, NorHolds, NorAsTold, AsTold
  <1> DEFINE r == nor.req
             at == r.at
             len == Len(r.data)
             range == Span(at, len)
             was == nor.was
             bp == chip.bp
  <1>2. ASSUME nor.pc \in {"locked", "unlocked"}
        PROVE  /\ at \in Nat /\ len \in Nat \ {0} /\ at + len <= Size /\ was \in 0..7 /\ bp \in 0..7
               /\ \A x \in range : x \in Cell /\ x >= at /\ x < at + len
               /\ at \in Cell /\ at \in range /\ (at + len) - 1 \in range /\ at + len \in 1..Size
    <2>1. r \in NorRequests /\ at + len <= Size BY <1>2 DEF NorInv, NorWhere
    <2>2. at \in Nat /\ len \in Nat \ {0} BY <2>1, NorReqIs
    <2>3. was \in 0..7 /\ bp \in 0..7 BY DEF NorInv, NorTypes, NorState, ChipState
    <2> HIDE DEF at, len
    <2> QED BY <2>1, <2>2, <2>3, ChipAssumption DEF Span, Cell
  <1>3. \A b \in 0..7 : Covers(b) = {x \in Cell : b > 0 /\ x >= Open(b)} BY CoversIs
  <1>4. /\ \A b \in 1..7 : Open(b) \in Int
        /\ \A x \in Cell : x \in Int
    BY RegionsAre, ChipAssumption DEF Cell
  <1>5. \A b \in 0..7 : \A c \in 0..7 : b <= c => Covers(b) \subseteq Covers(c)
    <2> SUFFICES ASSUME NEW b \in 0..7, NEW c \in 0..7, b <= c, NEW x \in Covers(b) PROVE x \in Covers(c) OBVIOUS
    <2>1. x \in Cell /\ b \in 1..7 /\ x >= Open(b) BY <1>3
    <2>2. c \in b..7 /\ c \in 1..7 BY <2>1
    <2>3. Open(c) <= Open(b) BY <2>1, <2>2, RegionsAre
    <2>4. x >= Open(c) /\ c > 0 BY <2>1, <2>2, <2>3, <1>4
    <2> QED BY <2>1, <2>4, <1>3
  <1>6. ASSUME nor.pc = "locked"
        PROVE  /\ range \cup Covers(was) \subseteq Covers(bp)
               /\ \A b \in 0..7 : range \cup Covers(was) \subseteq Covers(b) => Covers(bp) \subseteq Covers(b)
    <2> DEFINE l == LockBp(at)
    <2>1. /\ at \in Cell /\ at \in range /\ was \in 0..7 /\ bp \in 0..7 /\ at \in Int
          /\ \A x \in range : x \in Cell /\ x >= at
      BY <1>2, <1>6
    <2>2. bp = IF l > was THEN l ELSE was BY <1>6 DEF NorInv, NorLocks
    <2> HIDE DEF range, at, bp, was
    <2>3. l \in 1..7 /\ Open(l) <= at /\ \A b \in 1..7 : Open(b) <= at => l <= b BY <2>1, LockBpIs
    <2> HIDE DEF l
    <2>4. l \in 0..7 /\ l <= bp /\ was <= bp BY <2>1, <2>2, <2>3
    <2>5. range \subseteq Covers(l)
      <3> SUFFICES ASSUME NEW x \in range PROVE x \in Covers(l) OBVIOUS
      <3>1. x \in Cell /\ x >= at BY <2>1
      <3>2. x >= Open(l) /\ l > 0 BY <3>1, <2>1, <2>3, <1>4
      <3> QED BY <3>1, <3>2, <1>3, <2>4
    <2>6. range \cup Covers(was) \subseteq Covers(bp) BY <2>1, <2>4, <2>5, <1>5
    <2>7. ASSUME NEW b \in 0..7, range \cup Covers(was) \subseteq Covers(b) PROVE Covers(bp) \subseteq Covers(b)
      <3>1. at \in Covers(b) BY <2>1, <2>7
      <3>2. b \in 1..7 /\ Open(b) <= at BY <3>1, <1>3, <1>4, <2>1
      <3>3. l <= b BY <3>2, <2>3
      <3>4. Covers(l) \subseteq Covers(b) BY <3>3, <2>4, <1>5
      <3> QED BY <3>4, <2>2, <2>7
    <2> QED BY <2>6, <2>7
  <1>7. ASSUME nor.pc = "unlocked"
        PROVE  /\ Covers(bp) \subseteq Covers(was) \ range
               /\ \A b \in 0..7 : Covers(b) \subseteq Covers(was) \ range => Covers(b) \subseteq Covers(bp)
    <2> DEFINE e == at + len
               u == UnlockBp(e)
    <2>1. /\ e \in 1..Size /\ e - 1 \in range /\ was \in 0..7 /\ bp \in 0..7
          /\ \A x \in range : x \in Cell /\ x < e
      BY <1>2, <1>7
    <2>2. bp = IF u < was THEN u ELSE was BY <1>7 DEF NorInv, NorLocks
    <2> HIDE DEF range, e, bp, was
    <2>3. u \in 0..6 /\ (u > 0 => Open(u) >= e) /\ \A b \in 1..7 : Open(b) >= e => b <= u BY <2>1, UnlockBpIs
    <2> HIDE DEF u
    <2>4. u \in 0..7 /\ bp <= u /\ bp <= was BY <2>1, <2>2, <2>3
    <2>5. e \in Int BY <2>1, ChipAssumption
    <2>6. \A x \in Covers(bp) : x \notin range
      <3> SUFFICES ASSUME NEW x \in Covers(bp), x \in range PROVE FALSE OBVIOUS
      <3>1. x \in Covers(u) BY <2>1, <2>4, <1>5
      <3>2. u \in 1..7 /\ x >= Open(u) /\ x \in Int BY <3>1, <2>3, <2>4, <1>3, <1>4
      <3>3. Open(u) >= e /\ x < e /\ Open(u) \in Int BY <3>2, <2>1, <2>3, <1>4
      <3> QED BY ONLY <3>2, <3>3, <2>5
    <2>7. Covers(bp) \subseteq Covers(was) \ range BY <2>1, <2>4, <2>6, <1>5
    <2>8. ASSUME NEW b \in 0..7, Covers(b) \subseteq Covers(was) \ range PROVE Covers(b) \subseteq Covers(bp)
      <3>1. CASE b = 0 BY <3>1, <1>3
      <3>2. CASE b > 0 /\ b > u
        <4>1. b \in 1..7 /\ Open(b) \in Int BY <3>2, <1>4
        <4>2. ~(Open(b) >= e) BY <4>1, <3>2, <2>3
        <4>3. e - 1 >= Open(b) BY <4>1, <4>2, <2>5
        <4>4. e - 1 \in Cell BY <2>1
        <4>5. e - 1 \in Covers(b) BY <4>1, <4>3, <4>4, <1>3
        <4> QED BY <4>5, <2>1, <2>8
      <3>3. CASE b > 0 /\ b <= u
        <4>1. Covers(b) \subseteq Covers(u) BY <3>3, <2>4, <1>5
        <4> QED BY <4>1, <2>2, <2>8
      <3> QED BY <3>1, <3>2, <3>3, <2>3
    <2> QED BY <2>7, <2>8
  <1>8. LockExact BY <1>6, <1>7 DEF LockExact
  <1> QED BY <1>1, <1>8

\* Whatever is asked of the generic driver, in whatever order, and whenever the board is reset: between two
\* requests the chip holds what the requests that succeeded have put there, and a lock or an unlock covers
\* what it was asked for, keeps the rest of the protection and changes no more than the regions make it.
THEOREM NorKeepsWhatItWasTold == NorSpec => [](NorAsTold /\ LockExact)
  <1>1. NorInit => NorInv BY NorIni
  <1>2. NorInv /\ [NorNext]_norVars => NorInv' BY NorStep
  <1>3. NorInv => NorAsTold /\ LockExact BY NorInvGives
  <1> QED BY <1>1, <1>2, <1>3, PTL DEF NorSpec

-----------------------------------------------------------------------------
(* The Ralink driver *)

RaState ==
  [pc : {"down", "idle", "write", "erase"}, addr4b : BOOLEAN, spansion : BOOLEAN, legacy : BOOLEAN, wide : BOOLEAN,
   req : RaRequests \cup {NoReq}, pos : Nat]

RaTypes == chip \in ChipState /\ stored \in [Cell -> Bits] /\ vague \in SUBSET Cell /\ ra \in RaState

\* The request under way lies in the chip, and no more of it is written than there is.
RaWhere ==
  ra.pc = "write" => ra.req \in RaRequests /\ ra.req.at + Len(ra.req.data) <= Size /\ ra.pos <= Len(ra.req.data)

\* Controller and chip agree on the width of an address: four bytes while a large chip is written, three
\* at all other times but after a reset.
RaWidths ==
  /\ ra.pc = "write" => chip.four = ra.addr4b /\ ra.wide = ra.addr4b
  /\ ra.pc \in {"idle", "erase"} => ~chip.four /\ ~ra.wide

\* While a request is written its first pos bytes are in the chip, whose protection the first page has
\* lifted, and at other times all that was stored.
RaHolds ==
  /\ ~chip.astray
  /\ ra.pc = "write" =>
       /\ ra.pos > 0 => chip.bp = 0
       /\ \A x \in Cell \ vague : chip.mem[x] = Programmed(stored, chip, ra.req, ra.pos)[x]
  /\ ra.pc # "write" => \A x \in Cell \ vague : chip.mem[x] = stored[x]

RaInv == RaTypes /\ RaWhere /\ RaWidths /\ RaHolds

LEMMA RaReqIs ==
  ASSUME NEW r \in RaRequests
  PROVE  r.op \in {"write", "erase"} /\ r.at \in Nat /\ r.data \in Seq(Bits) /\ Len(r.data) \in Nat
  <1>1. r \in [op : {"write", "erase"}, at : Nat, data : Seq({0, 1})] BY RaAssumption
  <1>2. r.data \in Seq(Bits) BY <1>1 DEF Bits
  <1> QED BY <1>1, <1>2, LenProperties

LEMMA RaIni == RaInit => RaInv
  <1> SUFFICES ASSUME RaInit PROVE RaInv OBVIOUS
  <1>1. PICK bp \in {0, 7} : chip = [Fresh(Blank) EXCEPT !.bp = bp] BY DEF RaInit
  <1>2. stored = Blank /\ vague = {} BY DEF RaInit
  <1>3. ra \in RaState /\ ra.pc = "down"
    <2>1. ra \in [pc : {"down"}, addr4b : BOOLEAN, spansion : BOOLEAN, legacy : BOOLEAN, wide : BOOLEAN, req : {NoReq}, pos : {0}]
      BY DEF RaInit
    <2> QED BY ONLY <2>1 DEF RaState
  <1>4. Fresh(Blank) \in ChipState /\ Fresh(Blank).mem = Blank /\ Fresh(Blank).astray = FALSE
    BY BlankIs DEF Fresh, ChipState
  <1>5. chip \in ChipState /\ chip.mem = Blank /\ chip.astray = FALSE
    <2>1. bp \in 0..7 OBVIOUS
    <2> QED BY ONLY <1>1, <1>4, <2>1 DEF ChipState
  <1>6. stored \in [Cell -> Bits] /\ vague \in SUBSET Cell BY <1>2, BlankIs
  <1> QED BY <1>2, <1>3, <1>5, <1>6 DEF RaInv, RaTypes, RaWhere, RaWidths, RaHolds

\* The address mode, which is set on a chip that was waited for.
LEMMA ModeSets ==
  ASSUME NEW c \in ChipState, NEW on \in BOOLEAN, ra \in RaState
  PROVE  LET d == Mode(c, on) IN
         /\ d \in ChipState /\ d.mem = c.mem /\ d.astray = c.astray /\ d.bp = c.bp
         /\ ra.addr4b => d.four = on /\ ~d.wip
         /\ ~ra.addr4b => d = c
  <1> DEFINE b == Done(c)
             e == WREN(b)
  <1>1. b \in ChipState /\ b.mem = c.mem /\ b.astray = c.astray /\ b.bp = c.bp /\ ~b.wip BY DoneIs DEF SameCells, SameBits
  <1> HIDE DEF b
  <1>2. e \in ChipState /\ e.mem = b.mem /\ e.astray = b.astray /\ e.bp = b.bp /\ ~e.wip
    BY <1>1, EnableIs DEF SameCells, SameBits
  <1> HIDE DEF e
  <1>3. \A f \in {b, e} : LET d == EN4B(f, on) IN
          d \in ChipState /\ d.mem = f.mem /\ d.astray = f.astray /\ d.bp = f.bp /\ ~d.wip /\ d.four = on
    BY <1>1, <1>2, ModeIs DEF SameCells, SameBits
  <1>4. ra.addr4b => Mode(c, on) = EN4B(b, on) \/ Mode(c, on) = EN4B(e, on)
    BY DEF Mode, raspi_4byte_mode, raspi_write_rg, raspi_wait_ready, raspi_write_enable, b, e
  <1>5. ~ra.addr4b => Mode(c, on) = c BY DEF Mode
  <1> QED BY <1>1, <1>2, <1>3, <1>4, <1>5

\* The chip before a page is programmed or a sector erased: enabled, or busy with its protection.
Enabled(c) == raspi_unprotect(raspi_write_enable(raspi_wait_ready(c)))

LEMMA EnabledIs ==
  ASSUME NEW c \in ChipState
  PROVE  /\ Enabled(c) \in ChipState /\ Enabled(c).mem = c.mem /\ Enabled(c).astray = c.astray /\ Enabled(c).four = c.four
         /\ Enabled(c).bp = 0
         /\ c.bp = 0 => ~Enabled(c).wip /\ Enabled(c).wel
         /\ c.bp # 0 => Enabled(c).wip
  <1> DEFINE a == Done(c)
             b == WREN(a)
             d == WRSR(b, 0, FALSE)
  <1>1. a \in ChipState /\ a.mem = c.mem /\ a.astray = c.astray /\ a.four = c.four /\ a.bp = c.bp /\ ~a.wip
    BY DoneIs DEF SameCells, SameBits
  <1> HIDE DEF a
  <1>2. b \in ChipState /\ b.mem = a.mem /\ b.astray = a.astray /\ b.four = a.four /\ b.bp = a.bp /\ ~b.wip /\ b.wel
    BY <1>1, EnableIs DEF SameCells, SameBits
  <1> HIDE DEF b
  <1>3. d \in ChipState /\ d.mem = b.mem /\ d.astray = b.astray /\ d.four = b.four /\ d.bp = 0 /\ d.wip
    <2>1. 0 \in 0..7 /\ FALSE \in BOOLEAN OBVIOUS
    <2>2. SameCells(b, d) /\ d \in ChipState /\ d.four = b.four BY <1>2, <2>1, StatusKeeps, Zenon
    <2>3. d.bp = 0 /\ d.wip BY <1>2, <2>1, StatusIs, Zenon
    <2> QED BY <2>2, <2>3 DEF SameCells
  <1> HIDE DEF d
  <1>4. Enabled(c) = IF b.bp # 0 THEN d ELSE b
    BY DEF Enabled, raspi_unprotect, raspi_write_enable, raspi_wait_ready, raspi_write_sr, a, b, d
  <1> QED BY <1>1, <1>2, <1>3, <1>4

LEMMA RaMoves ==
  ASSUME NEW s \in RaState, NEW n \in Nat
  PROVE  LET t == [s EXCEPT !.pos = @ + n] IN
         t \in RaState /\ t.pos = s.pos + n /\ t.pc = s.pc /\ t.req = s.req /\ t.addr4b = s.addr4b /\ t.wide = s.wide
  BY DEF RaState

\* The first pages are in the chip, and what was lost with the protection is vague.
LEMMA RaWriteKeeps == RaInv /\ ramtd_write => RaInv'
  <1> SUFFICES ASSUME RaInv, ramtd_write PROVE RaInv' OBVIOUS
  <1> DEFINE r == ra.req
             p == ra.pos
             n == page_size(RaTo, RaLeft)
             c == Enabled(chip)
             w == ra.addr4b
  <1>1. chip \in ChipState /\ ra \in RaState /\ stored \in [Cell -> Bits] /\ vague \in SUBSET Cell BY DEF RaInv, RaTypes
  <1>2. /\ ra.pc = "write" /\ RaLeft > 0 /\ stored' = stored /\ ra' = [ra EXCEPT !.pos = @ + n]
        /\ vague' = IF chip.bp = 0 THEN vague ELSE vague \cup Span(RaTo, n)
        /\ chip' = raspi_cmd(c, ra.wide, "PP", RaTo, SubSeq(r.data, p + 1, p + n))
    BY DEF ramtd_write, Enabled
  <1>3. r \in RaRequests /\ r.at + Len(r.data) <= Size /\ p \in Nat /\ p <= Len(r.data)
    BY <1>1, <1>2 DEF RaInv, RaWhere, RaState
  <1>4. r.at \in Nat /\ r.data \in Seq(Bits) /\ Len(r.data) \in Nat BY <1>3, RaReqIs
  <1>5. RaTo = r.at + p /\ RaTo \in Nat /\ RaLeft = Len(r.data) - p /\ RaLeft \in Nat \ {0} BY <1>2, <1>3, <1>4 DEF RaTo, RaLeft
  <1>6. n \in Nat \ {0} /\ p + n <= Len(r.data) /\ (RaTo % PageSize) + n <= PageSize
    <2>1. n \in 1..RaLeft /\ \A k \in 1..n : (RaTo % PageSize) + k <= PageSize BY <1>5, PieceInPage
    <2> HIDE DEF n
    <2>2. n \in 1..n BY <2>1, <1>5
    <2> QED BY <2>1, <2>2, <1>3, <1>4, <1>5
  <1> HIDE DEF n
  <1>7. ra' \in RaState /\ ra'.pos = p + n /\ ra'.pc = "write" /\ ra'.req = r /\ ra'.addr4b = w /\ ra'.wide = ra.wide
    BY <1>1, <1>2, <1>6, RaMoves
  <1>8. /\ c \in ChipState /\ c.mem = chip.mem /\ c.astray = chip.astray /\ c.four = chip.four /\ c.bp = 0
        /\ chip.bp = 0 => ~c.wip /\ c.wel
        /\ chip.bp # 0 => c.wip
    BY <1>1, EnabledIs
  <1> HIDE DEF c
  <1>9. w \in BOOLEAN /\ c.four = w /\ ra.wide = w BY <1>1, <1>2, <1>8 DEF RaInv, RaWidths, RaState
  <1>10. chip' = PP(c, w, r.at + p, SubSeq(r.data, p + 1, p + n))
    BY <1>2, <1>5, <1>9 DEF raspi_cmd, spic_transfer
  <1> HIDE DEF r, p, w
  <1>11. /\ chip' \in ChipState /\ chip'.four = c.four /\ SameBits(c, chip')
         /\ c.wip => chip' = c
         /\ chip'.astray = c.astray
         /\ ~c.wip /\ c.wel => Takes(c, chip', r, p, n)
    BY <1>3, <1>4, <1>5, <1>6, <1>8, <1>9, <1>10, ProgramIs
  <1>12. RaTypes' BY <1>1, <1>2, <1>7, <1>11 DEF RaTypes, Span
  <1>13. RaWhere'
    <2>1. ra'.pos <= Len(ra'.req.data) BY <1>6, <1>7
    <2> QED BY <1>3, <1>7, <2>1 DEF RaWhere
  <1>14. RaWidths' BY <1>7, <1>9, <1>11 DEF RaWidths
  <1>15. RaHolds'
    <2>0. chip'.bp = 0 /\ ~chip'.astray BY <1>8, <1>11 DEF SameBits, RaInv, RaHolds
    <2> SUFFICES ASSUME NEW x \in Cell, x \notin vague'
                 PROVE  chip'.mem[x] = Programmed(stored, chip', r, p + n)[x]
      BY <2>0, <1>2, <1>7 DEF RaHolds
    <2>1. x \notin vague BY <1>2
    <2>2. chip.mem[x] = Programmed(stored, chip, r, p)[x] BY <2>1, <1>2 DEF RaInv, RaHolds, r, p
    <2>3. CASE chip.bp = 0
      <3>1. Programmed(stored, chip, r, p) = Programmed(stored, c, r, p)
            /\ Programmed(stored, c, r, p + n) = Programmed(stored, chip', r, p + n)
        BY <1>1, <1>8, <2>0, <2>3, ProgrammedIs
      <3>2. c.mem[x] = Programmed(stored, c, r, p)[x] BY <3>1, <2>2, <1>8
      <3>3. chip'.mem[x] = Programmed(stored, c, r, p + n)[x] BY <3>2, <2>3, <1>8, <1>11 DEF Takes
      <3> QED BY <3>1, <3>3
    <2>4. CASE chip.bp # 0
      <3>1. p = 0 BY <2>4, <1>2, <1>3 DEF RaInv, RaHolds, p
      <3>2. chip'.mem = chip.mem /\ x \notin Span(r.at + p, n) BY <2>4, <1>2, <1>5, <1>8, <1>11
      <3>3. chip.mem[x] = stored[x] BY <2>2, <3>1, <1>1, <1>4, ProgrammedNone
      <3>4. x \notin Span(r.at, p + n) BY <3>1, <3>2, <1>4, <1>6
      <3>5. Programmed(stored, chip', r, p + n)[x] = stored[x] BY <3>4, <1>1, ProgrammedIs
      <3> QED BY <3>2, <3>3, <3>5
    <2> QED BY <2>3, <2>4
  <1> QED BY <1>12, <1>13, <1>14, <1>15 DEF RaInv

RaSame == stored' = stored /\ vague' = vague

\* The end of an operation, and the beginning of an erasure, that has not changed what the chip holds.
LEMMA RaRests ==
  ASSUME RaInv, ra.pc # "write", RaSame,
         chip' \in ChipState, chip'.mem = chip.mem, chip'.astray = chip.astray, ~chip'.four,
         ra' \in RaState, ra'.pc \in {"idle", "erase"}, ~ra'.wide
  PROVE  RaInv'
  <1>1. RaTypes' BY DEF RaInv, RaTypes, RaSame
  <1>2. RaWhere' BY DEF RaWhere
  <1>3. RaWidths' BY DEF RaWidths
  <1>4. RaHolds' BY DEF RaInv, RaHolds, RaSame
  <1> QED BY <1>1, <1>2, <1>3, <1>4 DEF RaInv

LEMMA RaReadKeeps == RaInv /\ ramtd_read => RaInv'
  <1> SUFFICES ASSUME RaInv, ramtd_read PROVE RaInv' OBVIOUS
  <1> DEFINE a == Done(chip)
             b == Mode(a, TRUE)
             w == IF ra.legacy THEN ra.addr4b ELSE AddrMode(TRUE)
             c == READ(b, w)
             d == Mode(c, FALSE)
  <1>1. chip \in ChipState /\ ra \in RaState BY DEF RaInv, RaTypes
  <1>2. ra.pc = "idle" /\ RaSame /\ chip' = d /\ ra' = [ra EXCEPT !.wide = AddrMode(FALSE)]
    BY DEF ramtd_read, RaSame, raspi_cmd, spic_transfer, raspi_wait_ready
  <1>3. ra.addr4b \in BOOLEAN /\ ra.wide \in BOOLEAN /\ ~ra.wide /\ ~chip.four
    BY <1>1, <1>2 DEF RaState, RaInv, RaWidths
  <1>4. a \in ChipState /\ a.mem = chip.mem /\ a.astray = chip.astray /\ a.four = chip.four BY <1>1, DoneIs DEF SameCells
  <1> HIDE DEF a
  <1>5. /\ b \in ChipState /\ b.mem = a.mem /\ b.astray = a.astray /\ b.four = ra.addr4b
    <2>1. TRUE \in BOOLEAN OBVIOUS
    <2>2. /\ b \in ChipState /\ b.mem = a.mem /\ b.astray = a.astray
          /\ ra.addr4b => b.four = TRUE
          /\ ~ra.addr4b => b = a
      BY <1>1, <1>4, <2>1, ModeSets, Zenon
    <2> HIDE DEF b
    <2>3. a.four = FALSE /\ b.four \in BOOLEAN BY <1>1, <1>3, <1>4, <2>2 DEF ChipState
    <2> QED BY <2>2, <2>3, <1>3
  <1> HIDE DEF b
  <1>6. w \in BOOLEAN /\ w = ra.addr4b BY <1>3 DEF AddrMode
  <1> HIDE DEF w
  <1>7. c \in ChipState /\ c.mem = b.mem /\ c.astray = b.astray /\ c.four = b.four BY <1>5, <1>6, ReadIs
  <1> HIDE DEF c
  <1>8. d \in ChipState /\ d.mem = c.mem /\ d.astray = c.astray /\ ~d.four
    <2>1. FALSE \in BOOLEAN OBVIOUS
    <2>2. /\ d \in ChipState /\ d.mem = c.mem /\ d.astray = c.astray
          /\ ra.addr4b => d.four = FALSE
          /\ ~ra.addr4b => d = c
      BY <1>1, <1>7, <2>1, ModeSets, Zenon
    <2> HIDE DEF d
    <2> QED BY <2>2, <1>3, <1>5, <1>7
  <1> HIDE DEF d
  <1>9. AddrMode(FALSE) = FALSE BY <1>3 DEF AddrMode
  <1>10. ra' \in RaState /\ ra'.pc = "idle" /\ ~ra'.wide BY <1>1, <1>2, <1>9 DEF RaState
  <1> QED BY <1>2, <1>4, <1>5, <1>7, <1>8, <1>10, RaRests

LEMMA RaEraseTurns == RaInv /\ (EraseDone \/ \E r \in RaRequests : EraseBegin(r)) => RaInv'
  <1> SUFFICES ASSUME RaInv, EraseDone \/ \E r \in RaRequests : EraseBegin(r) PROVE RaInv' OBVIOUS
  <1>1. chip \in ChipState /\ ra \in RaState BY DEF RaInv, RaTypes
  <1>2. PICK r \in RaRequests \cup {NoReq}, pc \in {"idle", "erase"} : ra' = [ra EXCEPT !.pc = pc, !.req = r, !.pos = 0]
    BY DEF EraseDone, EraseBegin
  <1>3. ra.pc \in {"idle", "erase"} /\ RaSame /\ chip' = chip BY DEF EraseDone, EraseBegin, Start, RaSame
  <1>4. ~chip.four /\ ~ra.wide BY <1>3 DEF RaInv, RaWidths
  <1>5. ra' \in RaState /\ ra'.pc = pc /\ ra'.wide = ra.wide BY ONLY <1>1, <1>2, r \in RaRequests \cup {NoReq}, pc \in {"idle", "erase"} DEF RaState
  <1> QED BY <1>1, <1>3, <1>4, <1>5, RaRests

LEMMA RaProbed == RaInv /\ raspi_probe => RaInv'
  <1> SUFFICES ASSUME RaInv, raspi_probe PROVE RaInv' OBVIOUS
  <1>1. chip \in ChipState /\ ra \in RaState BY DEF RaInv, RaTypes
  <1>2. ra.pc = "down" /\ ~chip.four /\ ra' = [[ra EXCEPT !.wide = FALSE] EXCEPT !.pc = "idle"] /\ RaSame /\ chip' = chip
    BY DEF raspi_probe, spic_init, RaSame
  <1>3. ra' \in RaState /\ ra'.pc = "idle" /\ ~ra'.wide BY ONLY <1>1, <1>2 DEF RaState
  <1> QED BY <1>1, <1>2, <1>3, RaRests

LEMMA RaWriteBegins == ASSUME RaInv, NEW r \in RaRequests, WriteBegin(r) PROVE RaInv'
  <1> DEFINE a == Done(chip)
             b == WREN(a)
             c == Mode(b, TRUE)
             wide == AddrMode(TRUE)
  <1>1. chip \in ChipState /\ ra \in RaState /\ stored \in [Cell -> Bits] /\ vague \in SUBSET Cell BY DEF RaInv, RaTypes
  <1>2. /\ ra.pc = "idle" /\ r.at + Len(r.data) <= Size /\ RaSame /\ chip' = c
        /\ ra' = [ra EXCEPT !.pc = "write", !.req = r, !.pos = 0, !.wide = wide]
    BY DEF WriteBegin, Start, RaSame, raspi_write_enable, raspi_wait_ready
  <1>3. ra.addr4b \in BOOLEAN /\ ~ra.wide /\ ra.wide \in BOOLEAN /\ ~chip.four BY <1>1, <1>2 DEF RaState, RaInv, RaWidths
  <1>4. wide = ra.addr4b BY <1>3 DEF AddrMode
  <1> HIDE DEF wide
  <1>5. /\ ra' \in RaState /\ ra'.pc = "write" /\ ra'.req = r /\ ra'.pos = 0 /\ ra'.addr4b = ra.addr4b /\ ra'.wide = ra.addr4b
    <2>1. wide \in BOOLEAN BY <1>3, <1>4
    <2> QED BY ONLY <1>1, <1>2, <1>4, <2>1, r \in RaRequests DEF RaState
  <1>6. a \in ChipState /\ a.mem = chip.mem /\ a.astray = chip.astray /\ a.four = chip.four BY <1>1, DoneIs DEF SameCells
  <1> HIDE DEF a
  <1>7. b \in ChipState /\ b.mem = a.mem /\ b.astray = a.astray /\ b.four = a.four BY <1>6, EnableIs DEF SameCells
  <1> HIDE DEF b
  <1>8. c \in ChipState /\ c.mem = b.mem /\ c.astray = b.astray /\ c.four = ra.addr4b
    <2>1. TRUE \in BOOLEAN OBVIOUS
    <2>2. /\ c \in ChipState /\ c.mem = b.mem /\ c.astray = b.astray
          /\ ra.addr4b => c.four = TRUE
          /\ ~ra.addr4b => c = b
      BY <1>1, <1>7, <2>1, ModeSets, Zenon
    <2> HIDE DEF c
    <2>3. b.four = FALSE BY <1>3, <1>6, <1>7 DEF ChipState
    <2> QED BY <2>2, <2>3, <1>3
  <1> HIDE DEF c
  <1>9. r.at \in Nat /\ Len(r.data) \in Nat BY RaReqIs
  <1>10. RaTypes' BY <1>1, <1>2, <1>5, <1>8 DEF RaTypes, RaSame
  <1>11. RaWhere' BY <1>2, <1>5, <1>9 DEF RaWhere
  <1>12. RaWidths' BY <1>2, <1>5, <1>8 DEF RaWidths
  <1>13. RaHolds'
    <2>1. Programmed(stored, chip', r, 0) = stored BY <1>1, <1>9, ProgrammedNone
    <2> QED BY <2>1, <1>2, <1>5, <1>6, <1>7, <1>8 DEF RaInv, RaHolds, RaSame
  <1> QED BY <1>10, <1>11, <1>12, <1>13 DEF RaInv

LEMMA RaWriteEnds == RaInv /\ WriteDone => RaInv'
  <1> SUFFICES ASSUME RaInv, WriteDone PROVE RaInv' OBVIOUS
  <1> DEFINE r == ra.req
             c == Mode(chip, FALSE)
             d == WRDI(c)
             wide == AddrMode(FALSE)
  <1>1. chip \in ChipState /\ ra \in RaState /\ stored \in [Cell -> Bits] /\ vague \in SUBSET Cell BY DEF RaInv, RaTypes
  <1>2. /\ ra.pc = "write" /\ RaLeft = 0 /\ stored' = Programmed(stored, chip, r, Len(r.data)) /\ vague' = vague /\ chip' = d
        /\ ra' = [ra EXCEPT !.pc = "idle", !.req = NoReq, !.pos = 0, !.wide = wide]
    BY DEF WriteDone, raspi_write_disable
  <1>3. ra.addr4b \in BOOLEAN /\ chip.four = ra.addr4b /\ ra.wide = ra.addr4b BY <1>1, <1>2 DEF RaState, RaInv, RaWidths
  <1>4. wide = FALSE BY <1>3 DEF AddrMode
  <1> HIDE DEF wide
  <1>5. ra' \in RaState /\ ra'.pc = "idle" /\ ~ra'.wide BY ONLY <1>1, <1>2, <1>4 DEF RaState
  <1>6. c \in ChipState /\ c.mem = chip.mem /\ c.astray = chip.astray /\ ~c.four
    <2>1. FALSE \in BOOLEAN OBVIOUS
    <2>2. /\ c \in ChipState /\ c.mem = chip.mem /\ c.astray = chip.astray
          /\ ra.addr4b => c.four = FALSE
          /\ ~ra.addr4b => c = chip
      BY <1>1, <2>1, ModeSets, Zenon
    <2> HIDE DEF c
    <2> QED BY <2>2, <1>3
  <1> HIDE DEF c
  <1>7. d \in ChipState /\ d.mem = c.mem /\ d.astray = c.astray /\ d.four = c.four BY <1>6, DisableIs DEF SameCells
  <1> HIDE DEF d
  <1>8. ra.pos = Len(r.data)
    <2>1. r \in RaRequests /\ ra.pos \in Nat BY <1>1, <1>2 DEF RaInv, RaWhere, RaState
    <2>2. Len(r.data) \in Nat BY <2>1, RaReqIs
    <2> QED BY <1>2, <2>1, <2>2 DEF RaLeft
  <1>9. stored' \in [Cell -> Bits] BY <1>1, <1>2, ProgrammedIs
  <1>10. RaTypes' BY <1>1, <1>2, <1>5, <1>6, <1>7, <1>9 DEF RaTypes
  <1>11. RaWhere' BY <1>5 DEF RaWhere
  <1>12. RaWidths' BY <1>2, <1>5, <1>6, <1>7 DEF RaWidths
  <1>13. RaHolds' BY <1>2, <1>5, <1>6, <1>7, <1>8 DEF RaInv, RaHolds
  <1> QED BY <1>10, <1>11, <1>12, <1>13 DEF RaInv

\* A sector is erased, but if a chip with three bytes has had its protection lifted instead.
LEMMA RaSectorErased == RaInv /\ raspi_erase_sector => RaInv'
  <1> SUFFICES ASSUME RaInv, raspi_erase_sector PROVE RaInv' OBVIOUS
  <1> DEFINE c == Enabled(chip)
             m == Mode(c, TRUE)
             d == IF ra.addr4b THEN WREN(m) ELSE c
             w == IF ra.legacy THEN ra.addr4b ELSE AddrMode(TRUE)
             e == SE(d, w, RaTo)
             f == Done(e)
             g == Mode(f, FALSE)
             wide == AddrMode(FALSE)
             lost == chip.bp # 0 /\ ~ra.addr4b
  <1>1. chip \in ChipState /\ ra \in RaState /\ stored \in [Cell -> Bits] /\ vague \in SUBSET Cell BY DEF RaInv, RaTypes
  <1>2. /\ ra.pc = "erase" /\ stored' = Wiped(stored, Block(RaTo))
        /\ vague' = IF lost THEN vague \cup Block(RaTo) ELSE vague \ Block(RaTo)
        /\ ra' = [ra EXCEPT !.pos = @ + EraseSize, !.wide = wide]
    BY DEF raspi_erase_sector
  <1>3. chip' = IF ra.legacy /\ ra.addr4b THEN g ELSE WRDI(g)
    BY DEF raspi_erase_sector, Enabled, raspi_write_enable, raspi_write_disable, raspi_wait_ready, raspi_cmd, spic_transfer, Mode
  <1>4. ra.addr4b \in BOOLEAN /\ ra.wide \in BOOLEAN /\ ~ra.wide /\ ~chip.four
    BY <1>1, <1>2 DEF RaState, RaInv, RaWidths
  <1>5. wide = FALSE BY <1>4 DEF AddrMode
  <1> HIDE DEF wide
  <1>6. ra' \in RaState /\ ra'.pc = "erase" /\ ~ra'.wide
    <2>1. ra.pos \in Nat BY <1>1 DEF RaState
    <2>2. PICK p \in Nat : p = ra.pos + EraseSize BY <2>1, ChipAssumption
    <2>3. ra' = [ra EXCEPT !.pos = p, !.wide = FALSE] BY <1>2, <1>5, <2>2
    <2> QED BY ONLY <1>1, <1>2, <2>3, p \in Nat DEF RaState
  <1>7. /\ c \in ChipState /\ c.mem = chip.mem /\ c.astray = chip.astray /\ c.four = FALSE /\ c.bp = 0
        /\ chip.bp = 0 => ~c.wip /\ c.wel
        /\ chip.bp # 0 => c.wip
    <2>1. chip.four = FALSE BY <1>1, <1>4 DEF ChipState
    <2> QED BY <1>1, <2>1, EnabledIs
  <1> HIDE DEF c
  <1>8. /\ m \in ChipState /\ m.mem = c.mem /\ m.astray = c.astray /\ m.bp = c.bp
        /\ ra.addr4b => m.four = TRUE /\ ~m.wip
    <2>1. TRUE \in BOOLEAN OBVIOUS
    <2> QED BY <1>1, <1>7, <2>1, ModeSets, Zenon
  <1> HIDE DEF m
  <1>9. /\ d \in ChipState /\ d.mem = chip.mem /\ d.astray = chip.astray /\ d.bp = 0 /\ d.four = ra.addr4b
        /\ ~lost => ~d.wip /\ d.wel
        /\ lost => d.wip
    <2>1. WREN(m) \in ChipState /\ WREN(m).mem = m.mem /\ WREN(m).astray = m.astray /\ WREN(m).bp = m.bp /\ WREN(m).four = m.four
          /\ WREN(m).wip = m.wip /\ (~m.wip => WREN(m).wel)
      BY <1>8, EnableIs DEF SameCells, SameBits
    <2>2. CASE ra.addr4b
      <3>1. d = WREN(m) BY <2>2
      <3>2. ra.addr4b = TRUE BY <2>2, <1>4
      <3> HIDE DEF d
      <3> QED BY <2>1, <3>1, <3>2, <1>7, <1>8
    <2>3. CASE ~ra.addr4b
      <3>1. d = c BY <2>3
      <3>2. ra.addr4b = FALSE BY <2>3, <1>4
      <3> HIDE DEF d
      <3> QED BY <3>1, <3>2, <1>7
    <2> QED BY <2>2, <2>3
  <1> HIDE DEF d
  <1>10. w \in BOOLEAN /\ w = ra.addr4b BY <1>4 DEF AddrMode
  <1> HIDE DEF w
  <1>11. Free(d, RaTo) BY <1>9 DEF Free, Protected
  <1>12. /\ e \in ChipState /\ e.four = d.four /\ e.astray = d.astray
         /\ lost => e.mem = chip.mem
         /\ ~lost => e.mem = Wiped(chip.mem, Block(RaTo))
    <2>1. /\ e \in ChipState /\ e.four = d.four /\ (d.wip => e = d) /\ (d.four = w => e.astray = d.astray)
          /\ ~d.wip /\ d.wel /\ d.four = w /\ Free(d, RaTo) => e.mem = Wiped(d.mem, Block(RaTo))
      BY <1>9, <1>10, SectorIs
    <2> HIDE DEF e, lost
    <2> QED BY <2>1, <1>9, <1>10, <1>11
  <1> HIDE DEF e
  <1>13. f \in ChipState /\ f.four = e.four /\ f.astray = e.astray /\ f.mem = e.mem BY <1>12, DoneIs DEF SameCells
  <1> HIDE DEF f
  <1>14. g \in ChipState /\ g.mem = f.mem /\ g.astray = f.astray /\ ~g.four
    <2>1. FALSE \in BOOLEAN OBVIOUS
    <2>2. /\ g \in ChipState /\ g.mem = f.mem /\ g.astray = f.astray
          /\ ra.addr4b => g.four = FALSE
          /\ ~ra.addr4b => g = f
      BY <1>1, <1>13, <2>1, ModeSets, Zenon
    <2> HIDE DEF g
    <2> QED BY <2>2, <1>9, <1>12, <1>13
  <1> HIDE DEF g
  <1>15. chip' \in ChipState /\ chip'.mem = g.mem /\ chip'.astray = g.astray /\ ~chip'.four
    <2>1. WRDI(g) \in ChipState /\ WRDI(g).mem = g.mem /\ WRDI(g).astray = g.astray /\ WRDI(g).four = g.four
      BY <1>14, DisableIs DEF SameCells
    <2> QED BY <2>1, <1>3, <1>14
  <1>16. stored' \in [Cell -> Bits] /\ vague' \in SUBSET Cell /\ Block(RaTo) \subseteq Cell
    <2>1. Block(RaTo) \subseteq Cell BY DEF Block
    <2> QED BY <2>1, <1>1, <1>2, WipedIs
  <1>17. RaTypes' BY <1>6, <1>15, <1>16 DEF RaTypes
  <1>18. RaWhere' BY <1>6 DEF RaWhere
  <1>19. RaWidths' BY <1>6, <1>15 DEF RaWidths
  <1>20. RaHolds'
    <2>1. ~chip.astray /\ \A x \in Cell \ vague : chip.mem[x] = stored[x] BY <1>2 DEF RaInv, RaHolds
    <2>2. ~chip'.astray BY <2>1, <1>9, <1>12, <1>13, <1>14, <1>15
    <2>3. chip'.mem = e.mem BY <1>13, <1>14, <1>15
    <2>4. ASSUME NEW x \in Cell, x \notin vague' PROVE chip'.mem[x] = stored'[x]
      <3>1. stored'[x] = IF x \in Block(RaTo) THEN 1 ELSE stored[x] BY <1>2 DEF Wiped
      <3>2. CASE lost
        <4>1. x \notin vague /\ x \notin Block(RaTo) BY <3>2, <2>4, <1>2
        <4>2. chip'.mem = chip.mem BY <3>2, <2>3, <1>12
        <4> QED BY <4>1, <4>2, <3>1, <2>1
      <3>3. CASE ~lost
        <4>1. chip'.mem[x] = IF x \in Block(RaTo) THEN 1 ELSE chip.mem[x] BY <3>3, <2>3, <1>12 DEF Wiped
        <4>2. x \in Block(RaTo) \/ x \notin vague BY <3>3, <2>4, <1>2
        <4> QED BY <4>1, <4>2, <3>1, <2>1
      <3> QED BY <3>2, <3>3
    <2> QED BY <2>2, <2>4, <1>6 DEF RaHolds
  <1> QED BY <1>17, <1>18, <1>19, <1>20 DEF RaInv

LEMMA RaIsReset == RaInv /\ RaReset => RaInv'
  <1> SUFFICES ASSUME RaInv, RaReset PROVE RaInv' OBVIOUS
  <1>1. chip \in ChipState /\ ra \in RaState /\ stored \in [Cell -> Bits] /\ vague \in SUBSET Cell BY DEF RaInv, RaTypes
  <1>2. /\ stored' = stored /\ vague \subseteq vague' /\ RaPending \subseteq vague' /\ vague' \in SUBSET Cell
        /\ chip' = chip \/ chip' = PowerLoss(chip)
    <2>1. RaPending \subseteq Cell BY DEF RaPending, Span
    <2>2. chip.hot \subseteq Cell BY <1>1 DEF ChipState
    <2> QED BY <1>1, <2>1, <2>2 DEF RaReset
  <1>3. ra' \in RaState /\ ra'.pc = "down"
    <2>1. ra' = [ra EXCEPT !.pc = "down", !.req = NoReq, !.pos = 0] BY DEF RaReset
    <2> QED BY ONLY <1>1, <2>1 DEF RaState
  <1>4. chip' \in ChipState /\ chip'.mem = chip.mem /\ (~chip.astray => ~chip'.astray)
    <2>1. PowerLoss(chip) \in ChipState /\ PowerLoss(chip).mem = chip.mem /\ ~PowerLoss(chip).astray
      BY <1>1 DEF PowerLoss, Fresh, ChipState
    <2> QED BY <1>1, <1>2, <2>1
  <1>5. RaTypes' BY <1>1, <1>2, <1>3, <1>4 DEF RaTypes
  <1>6. RaWhere' BY <1>3 DEF RaWhere
  <1>7. RaWidths' BY <1>3 DEF RaWidths
  <1>8. RaHolds'
    <2> SUFFICES ASSUME NEW x \in Cell, x \notin vague' PROVE ~chip'.astray /\ chip.mem[x] = stored[x]
      <3>1. ~chip'.astray BY <1>4 DEF RaInv, RaHolds
      <3> QED BY <3>1, <1>2, <1>3, <1>4 DEF RaHolds
    <2>1. ~chip'.astray BY <1>4 DEF RaInv, RaHolds
    <2>2. CASE ra.pc = "write"
      <3> DEFINE r == ra.req
                 p == ra.pos
      <3>1. chip.mem[x] = Programmed(stored, chip, r, p)[x] BY <2>2, <1>2 DEF RaInv, RaHolds
      <3>2. RaPending = Span(r.at, Len(r.data)) /\ r \in RaRequests /\ p <= Len(r.data) /\ p \in Nat
        BY <2>2, <1>1 DEF RaPending, RaInv, RaWhere, RaState
      <3>3. r.at \in Nat /\ Len(r.data) \in Nat BY <3>2, RaReqIs
      <3>4. Span(r.at, p) \subseteq Span(r.at, Len(r.data)) BY <3>2, <3>3, ChipAssumption DEF Span, Cell
      <3>5. x \notin Span(r.at, p) BY <3>2, <3>4, <1>2
      <3>6. Programmed(stored, chip, r, p)[x] = stored[x] BY <3>5, <1>1, ProgrammedIs
      <3> QED BY <2>1, <3>1, <3>6
    <2>3. CASE ra.pc # "write" BY <2>1, <2>3, <1>2 DEF RaInv, RaHolds
    <2> QED BY <2>2, <2>3
  <1> QED BY <1>5, <1>6, <1>7, <1>8 DEF RaInv

LEMMA RaStep == RaInv /\ [RaNext]_raVars => RaInv'
  <1> SUFFICES ASSUME RaInv, [RaNext]_raVars PROVE RaInv' OBVIOUS
  <1>1. CASE raspi_probe BY <1>1, RaProbed
  <1>2. CASE ramtd_write BY <1>2, RaWriteKeeps
  <1>3. CASE WriteDone BY <1>3, RaWriteEnds
  <1>4. CASE raspi_erase_sector BY <1>4, RaSectorErased
  <1>5. CASE EraseDone \/ \E r \in RaRequests : EraseBegin(r) BY <1>5, RaEraseTurns
  <1>6. CASE ramtd_read BY <1>6, RaReadKeeps
  <1>7. CASE RaReset BY <1>7, RaIsReset
  <1>8. CASE \E r \in RaRequests : WriteBegin(r) BY <1>8, RaWriteBegins
  <1>9. CASE ramtd_lock \/ (\E r \in RaRequests : Refused(r)) \/ UNCHANGED raVars
    <2>1. UNCHANGED raVars BY <1>9 DEF ramtd_lock, Refused
    <2> QED BY <2>1 DEF raVars, RaInv, RaTypes, RaWhere, RaWidths, RaHolds
  <1> QED BY <1>1, <1>2, <1>3, <1>4, <1>5, <1>6, <1>7, <1>8, <1>9 DEF RaNext

\* Whatever is asked of the Ralink driver, and whenever the board is reset: between two requests the chip
\* holds what the requests that succeeded have put there, and it expects the three address bytes of the boot loader.
THEOREM RalinkKeepsWhatItWasTold == RaSpec => []RaAsTold
  <1>1. RaInit => RaInv BY RaIni
  <1>2. RaInv /\ [RaNext]_raVars => RaInv' BY RaStep
  <1>3. RaInv => RaAsTold BY DEF RaInv, RaHolds, RaWidths, RaAsTold, AsTold
  <1> QED BY <1>1, <1>2, <1>3, PTL DEF RaSpec

-----------------------------------------------------------------------------
(* The AT45 driver: how a request is cut *)

\* Where byte i of a request belongs, and the step after the last.
Where(r, i) == (r.at + i - 1) % RingSize
Ends(r) == IF OnePage(r) THEN 1 ELSE NumPage(r) + 2

\* The bytes before step k.
Upto(r, k) == IF k \in Steps(r) THEN From(r, k) ELSE Len(r.data)

LEMMA Divide ==
  ASSUME NEW n \in Nat \ {0}, NEW k \in Int, NEW r \in 0..(n - 1)
  PROVE  (k * n + r) \div n = k /\ (k * n + r) % n = r
  <1> DEFINE a == k * n + r
  <1>1. a \in Int OBVIOUS
  <1>2. a % n = r BY Remainder
  <1>3. a \div n \in Int /\ a = (a \div n) * n + (a % n) BY <1>1
  <1>4. PICK d \in Int : d = a \div n BY <1>3
  <1>5. d * n = k * n BY <1>2, <1>3, <1>4
  <1>6. d = k BY <1>5
  <1> QED BY <1>2, <1>4, <1>6

\* The cells of the ring by page and place.
LEMMA RingIs ==
  /\ AtPageSize \in Nat \ {0} /\ MAXCAP \in Nat \ {0} /\ RingSize \in Nat \ {0}
  /\ \A p \in 0..MAXCAP - 1 : \A o \in 0..AtPageSize - 1 :
       LET x == p * AtPageSize + o IN x \in 0..RingSize - 1 /\ x \div AtPageSize = p /\ x % AtPageSize = o
  /\ \A x \in 0..RingSize - 1 :
       /\ x \div AtPageSize \in 0..MAXCAP - 1 /\ x % AtPageSize \in 0..AtPageSize - 1
       /\ x = (x \div AtPageSize) * AtPageSize + (x % AtPageSize)
  <1>1. PICK s \in Nat \ {0} : s = AtPageSize BY AtAssumption
  <1>2. PICK m \in Nat \ {0} : m = MAXCAP BY AtAssumption
  <1>3. PICK g \in Nat \ {0} : g = m * s /\ RingSize = g BY <1>1, <1>2 DEF RingSize
  <1>4. ASSUME NEW p \in 0..m - 1, NEW o \in 0..s - 1
        PROVE  p * s + o \in 0..g - 1 /\ (p * s + o) \div s = p /\ (p * s + o) % s = o
    <2>1. p * s <= (m - 1) * s BY ONLY m \in Nat \ {0}, s \in Nat \ {0}, p \in 0..m - 1
    <2>2. (m - 1) * s = g - s BY ONLY <1>3, m \in Nat \ {0}, s \in Nat \ {0}
    <2>3. p * s \in Nat OBVIOUS
    <2>4. PICK t \in Nat : t = p * s BY <2>3
    <2>5. t <= g - s BY <2>1, <2>2, <2>4
    <2>6. t + o \in 0..g - 1 BY ONLY <2>5, t \in Nat, g \in Nat, s \in Nat \ {0}, o \in 0..s - 1
    <2>7. p \in Int OBVIOUS
    <2> QED BY <2>4, <2>6, <2>7, Divide
  <1>5. ASSUME NEW x \in 0..g - 1
        PROVE  x \div s \in 0..m - 1 /\ x % s \in 0..s - 1 /\ x = (x \div s) * s + (x % s)
    <2>1. x \in Int /\ x \div s \in Int /\ x % s \in 0..s - 1 /\ x = (x \div s) * s + (x % s) OBVIOUS
    <2>2. PICK d \in Int : d = x \div s BY <2>1
    <2>3. PICK o \in 0..s - 1 : o = x % s BY <2>1
    <2>4. x = d * s + o BY <2>1, <2>2, <2>3
    <2>5. d >= 0
      <3> SUFFICES ASSUME d <= -1 PROVE FALSE OBVIOUS
      <3>1. d * s <= -s BY ONLY d <= -1, d \in Int, s \in Nat \ {0}
      <3> QED BY <2>4, <3>1
    <2>6. d <= m - 1
      <3> SUFFICES ASSUME d >= m PROVE FALSE OBVIOUS
      <3>1. d * s >= m * s BY ONLY d >= m, d \in Int, m \in Nat, s \in Nat \ {0}
      <3>2. PICK t \in Int : t = d * s OBVIOUS
      <3>3. t >= g /\ x = t + o BY <2>4, <3>1, <3>2, <1>3
      <3> QED BY ONLY <3>3, t \in Int, g \in Nat, x \in 0..g - 1, o \in 0..s - 1, s \in Nat
    <2> QED BY <2>1, <2>2, <2>5, <2>6
  <1> QED BY <1>1, <1>2, <1>3, <1>4, <1>5

LEMMA AtReqIs ==
  ASSUME NEW r \in AtRequests
  PROVE  /\ r.op \in {"write", "read"} /\ r.at \in 0..RingSize - 1 /\ r.data \in Seq({0, 1})
         /\ Len(r.data) \in Nat /\ Len(r.data) < RingSize /\ r # NoCall
  <1>1. r \in [op : {"write", "read"}, at : 0..RingSize - 1, data : Seq({0, 1})] /\ Len(r.data) < RingSize
    BY AtAssumption
  <1> QED BY <1>1, LenProperties DEF NoCall

\* Each piece lies in one page of the ring.
LEMMA CutIs ==
  ASSUME NEW r \in AtRequests
  PROVE  /\ AddrofPage(r) \in 0..AtPageSize - 1 /\ NumPage(r) \in Nat
         /\ Ends(r) \in Nat \ {0} /\ Steps(r) = 0..Ends(r) - 1
         /\ \A k \in Steps(r) :
              /\ Page(r, k) \in 0..MAXCAP - 1 /\ From(r, k) \in Nat
              /\ Offset(r, k) \in Nat /\ Count(r, k) \in Nat /\ Offset(r, k) + Count(r, k) <= AtPageSize
              /\ Count(r, k) = AtPageSize \/ k = 0 \/ k = NumPage(r) + 1
  <1> DEFINE a == AddrofPage(r)
             b == r.at \div AtPageSize
             len == Len(r.data)
             num == NumPage(r)
             last == AddrofLastPage(r)
  <1>1. PICK s \in Nat \ {0} : s = AtPageSize BY RingIs
  <1>2. PICK m \in Nat \ {0} : m = MAXCAP BY RingIs
  <1>3. a \in 0..s - 1 /\ b \in 0..m - 1 /\ len \in Nat
    <2>1. r.at \in 0..RingSize - 1 /\ len \in Nat BY AtReqIs
    <2>2. r.at \div AtPageSize \in 0..MAXCAP - 1 /\ r.at % AtPageSize \in 0..AtPageSize - 1 BY <2>1, RingIs
    <2> QED BY <2>1, <2>2, <1>1, <1>2 DEF AddrofPage
  <1>4. last \in 0..s - 1
    <2>1. PICK l \in Nat : l = len BY <1>3
    <2>2. PICK t \in Nat : t = (l % s) + a BY <1>3
    <2>3. t % s \in 0..s - 1 OBVIOUS
    <2>4. last = t % s BY <2>1, <2>2, <1>1 DEF AddrofLastPage
    <2> QED BY <2>3, <2>4
  <1>5. OnePage(r) <=> len <= (s - 1) - a BY <1>1 DEF OnePage
  <1>6. num \in 0..m - 1
    <2>1. CASE OnePage(r) BY <2>1, <1>2 DEF NumPage
    <2>2. CASE ~OnePage(r)
      <3> DEFINE y == len - ((s - 1) - a)
      <3>1. num = y \div s BY <2>2, <1>1 DEF NumPage
      <3>2. y \in 0..RingSize - 1
        <4>1. len < RingSize /\ RingSize \in Nat BY AtReqIs, RingIs
        <4> HIDE DEF a, len
        <4> QED BY <4>1, <1>3, <1>5, <2>2
      <3> HIDE DEF y
      <3>3. y \div AtPageSize \in 0..MAXCAP - 1 BY <3>2, RingIs
      <3> QED BY <3>1, <3>3, <1>1, <1>2
    <2> QED BY <2>1, <2>2
  <1>7. OnePage(r) \in BOOLEAN BY <1>1, <1>3 DEF OnePage
  <1>8. Ends(r) \in Nat \ {0} /\ Steps(r) = 0..Ends(r) - 1
    <2> HIDE DEF num
    <2>1. Ends(r) = (IF OnePage(r) THEN 1 ELSE num + 2) /\ Steps(r) = IF OnePage(r) THEN 0..0 ELSE 0..num + 1
      BY DEF Ends, Steps, num
    <2>2. CASE OnePage(r)
      <3>1. Ends(r) = 1 /\ Steps(r) = 0..0 BY <2>1, <2>2
      <3> QED BY ONLY <3>1
    <2>3. CASE ~OnePage(r)
      <3>1. Ends(r) = num + 2 /\ Steps(r) = 0..num + 1 /\ num \in Nat BY <2>1, <2>3, <1>6
      <3> QED BY ONLY <3>1
    <2> QED BY <2>2, <2>3
  <1>9. ASSUME NEW k \in Steps(r)
        PROVE  /\ Page(r, k) \in 0..MAXCAP - 1 /\ From(r, k) \in Nat
               /\ Offset(r, k) \in Nat /\ Count(r, k) \in Nat /\ Offset(r, k) + Count(r, k) <= AtPageSize
               /\ Count(r, k) = AtPageSize \/ k = 0 \/ k = NumPage(r) + 1
    <2>1. k \in Nat /\ (k = 0 \/ (~OnePage(r) /\ k <= num + 1)) /\ k <= num + 1
      <3> HIDE DEF num
      <3>1. Steps(r) = IF OnePage(r) THEN 0..0 ELSE 0..num + 1 BY DEF Steps, num
      <3> QED BY <3>1, <1>6
    <2>2. Page(r, k) = IF b + k < m THEN b + k ELSE IF b + 1 >= m THEN k - 1 ELSE ((b + k) - m) + 1 BY <1>2 DEF Page
    <2>3. From(r, k) = IF k = 0 THEN 0 ELSE (s - a) + (k - 1) * s BY <1>1 DEF From
    <2>4. Count(r, k) = IF k = 0 THEN (IF OnePage(r) THEN len ELSE s - a) ELSE IF k <= num THEN s ELSE last
      BY <2>1, <1>1 DEF Count
    <2>5. Offset(r, k) = IF k = 0 THEN a ELSE 0 BY DEF Offset
    <2> HIDE DEF a, b, len, num, last
    <2>6. Page(r, k) \in 0..m - 1 BY <2>1, <2>2, <1>3, <1>6
    <2>7. From(r, k) \in Nat
      <3>1. CASE k = 0 BY <2>3, <3>1
      <3>2. CASE k # 0
        <4>1. k - 1 \in Nat BY <3>2, <2>1
        <4>2. (k - 1) * s \in Nat BY <4>1
        <4> QED BY <2>3, <3>2, <4>2, <1>3
      <3> QED BY <3>1, <3>2
    <2>8. Offset(r, k) \in Nat /\ Count(r, k) \in Nat /\ Offset(r, k) + Count(r, k) <= s
      BY <2>1, <2>4, <2>5, <1>3, <1>4, <1>5
    <2>9. Count(r, k) = s \/ k = 0 \/ k = num + 1 BY <2>1, <2>4, <1>6
    <2> QED BY <2>6, <2>7, <2>8, <2>9, <1>1, <1>2 DEF num
  <1>10. num \in Nat BY <1>6
  <1> QED BY <1>1, <1>3, <1>8, <1>9, <1>10

\* The pieces of a request that is cut as it should be add up to it.
LEMMA PiecesAddUp ==
  ASSUME NEW r \in AtRequests, Exact(r)
  PROVE  /\ Upto(r, 0) = 0
         /\ \A k \in Steps(r) : Upto(r, k) = From(r, k) /\ Upto(r, k + 1) = From(r, k) + Count(r, k)
                                /\ From(r, k) + Count(r, k) <= Len(r.data)
  <1>1. PICK s \in Nat \ {0} : s = AtPageSize BY RingIs
  <1>2. PICK a \in 0..s - 1 : a = AddrofPage(r) BY <1>1, CutIs
  <1>3. PICK len \in Nat : len = Len(r.data) BY AtReqIs
  <1>4. OnePage(r) <=> len <= (s - 1) - a BY <1>1, <1>2, <1>3 DEF OnePage
  <1>5. CASE OnePage(r)
    <2>1. Steps(r) = {0} BY <1>5 DEF Steps
    <2>2. From(r, 0) = 0 /\ Count(r, 0) = len BY <1>3, <1>5 DEF From, Count
    <2>3. Upto(r, 0) = 0 /\ Upto(r, 1) = len BY <2>1, <2>2, <1>3 DEF Upto
    <2>4. 0 + len = len /\ 0 + 1 = 1 OBVIOUS
    <2> QED BY <2>1, <2>2, <2>3, <2>4, <1>3
  <1>6. CASE ~OnePage(r)
    <2>1. PICK rest \in Nat : rest = len - (s - a) BY <1>4, <1>6
    <2>2. PICK quot \in Int, t \in 0..s - 1 : rest = quot * s + t /\ t = rest % s
      <3>1. rest % s \in 0..s - 1 /\ \E k \in Int : rest = k * s + (rest % s)
        <4>1. rest \in Int OBVIOUS
        <4> QED BY ONLY <4>1, s \in Nat \ {0}, Quotient
      <3> QED BY <3>1
    <2>3. t # s - 1 BY <1>1, <1>2, <1>3, <1>6, <2>1, <2>2 DEF Exact
    <2>4. NumPage(r) = quot
      <3>1. NumPage(r) = (rest + 1) \div s
        <4>1. len - ((s - 1) - a) = rest + 1 BY <2>1
        <4> QED BY <4>1, <1>1, <1>2, <1>3, <1>6 DEF NumPage
      <3>2. t + 1 \in 0..s - 1 BY <2>3
      <3>3. PICK u \in Int : u = quot * s OBVIOUS
      <3>4. rest + 1 = quot * s + (t + 1) BY <2>2, <3>3
      <3> QED BY <3>1, <3>2, <3>4, Divide
    <2>5. quot \in Nat BY <2>4, CutIs
    <2>6. AddrofLastPage(r) = t
      <3>1. PICK c \in Int, l \in 0..s - 1 : len = c * s + l /\ l = len % s
        <4>1. len % s \in 0..s - 1 /\ \E k \in Int : len = k * s + (len % s)
          <5>1. len \in Int OBVIOUS
          <5> QED BY ONLY <5>1, s \in Nat \ {0}, Quotient
        <4> QED BY <4>1
      <3>2. AddrofLastPage(r) = (l + a) % s BY <3>1, <1>1, <1>2, <1>3 DEF AddrofLastPage
      <3>3. PICK e \in Int : e = (quot + 1) - c OBVIOUS
      <3>4. e * s = (quot * s + s) - c * s BY <3>3
      <3>5. PICK u \in Int : u = quot * s OBVIOUS
      <3>6. PICK v \in Int : v = c * s OBVIOUS
      <3>7. PICK w \in Int : w = e * s OBVIOUS
      <3>8. l + a = w + t
        <4>1. rest = u + t /\ len = v + l /\ w = (u + s) - v BY <2>2, <3>1, <3>4, <3>5, <3>6, <3>7
        <4> QED BY ONLY <4>1, <2>1, rest \in Nat, len \in Nat, s \in Nat, a \in 0..s - 1, t \in 0..s - 1, l \in 0..s - 1,
                        u \in Int, v \in Int, w \in Int
      <3>9. l + a \in Int /\ l + a = e * s + t BY <3>7, <3>8
      <3>10. PICK y \in Int : y = l + a BY <3>9
      <3>11. y % s = t BY ONLY <3>9, <3>10, Remainder, e \in Int, t \in 0..s - 1, s \in Nat \ {0}, y \in Int
      <3> QED BY <3>2, <3>10, <3>11
    <2>7. Steps(r) = 0..quot + 1 BY <2>4, <1>6 DEF Steps
    <2>8. \A k \in Steps(r) : From(r, k) = IF k = 0 THEN 0 ELSE (s - a) + (k - 1) * s BY <1>1, <1>2 DEF From
    <2>9. \A k \in Steps(r) : Count(r, k) = IF k = 0 THEN s - a ELSE IF k <= quot THEN s ELSE t
      BY <2>4, <2>5, <2>6, <2>7, <1>1, <1>2, <1>6 DEF Count
    <2>10. Upto(r, 0) = 0 BY <2>5, <2>7, <2>8 DEF Upto
    <2>11. ASSUME NEW k \in Steps(r)
           PROVE  /\ Upto(r, k) = From(r, k) /\ Upto(r, k + 1) = From(r, k) + Count(r, k)
                  /\ From(r, k) + Count(r, k) <= len
      <3>1. k \in 0..quot + 1 BY <2>7
      <3>2. Upto(r, k) = From(r, k) BY DEF Upto
      <3>3. PICK u \in Nat : u = quot * s BY <2>5
      <3>4. len = (s - a) + u + t BY <2>1, <2>2, <3>3
      <3>5. CASE k = 0
        <4>1. 1 \in Steps(r) BY <2>5, <2>7
        <4>2. From(r, 1) = s - a
          <5>1. (1 - 1) * s = 0 OBVIOUS
          <5> QED BY <5>1, <4>1, <2>8
        <4>3. From(r, 0) = 0 /\ Count(r, 0) = s - a BY <3>5, <2>8, <2>9
        <4>4. Upto(r, 1) = s - a BY <4>1, <4>2 DEF Upto
        <4>5. 0 + (s - a) = s - a /\ s - a <= len BY <3>4
        <4> QED BY <3>2, <3>5, <4>3, <4>4, <4>5
      <3>6. CASE k \in 1..quot
        <4>1. k + 1 \in Steps(r) /\ k + 1 # 0 BY <3>6, <2>5, <2>7
        <4>2. From(r, k + 1) = (s - a) + k * s
          <5>1. (k + 1) - 1 = k BY <3>6
          <5> QED BY <5>1, <4>1, <2>8
        <4>3. From(r, k) = (s - a) + (k - 1) * s /\ Count(r, k) = s BY <3>6, <2>8, <2>9
        <4>4. (k - 1) * s = k * s - s BY ONLY k \in 1..quot, quot \in Nat, s \in Nat, <3>6
        <4>5. PICK v \in Nat : v = k * s BY <3>6
        <4>6. v <= u BY ONLY <3>3, <4>5, k \in 1..quot, <3>6, <2>5, s \in Nat, u \in Nat, v \in Nat
        <4>7. From(r, k) + Count(r, k) = (s - a) + v BY <4>3, <4>4, <4>5
        <4>8. Upto(r, k + 1) = (s - a) + v BY <4>1, <4>2, <4>5 DEF Upto
        <4> QED BY <3>2, <4>6, <4>7, <4>8, <3>4
      <3>7. CASE k = quot + 1
        <4>1. k # 0 /\ ~(k <= quot) /\ k - 1 = quot BY <3>7, <2>5
        <4>2. From(r, k) = (s - a) + u /\ Count(r, k) = t BY <4>1, <2>8, <2>9, <3>3
        <4>3. k + 1 \notin Steps(r) BY <3>7, <2>5, <2>7
        <4>4. Upto(r, k + 1) = len BY <4>3, <1>3 DEF Upto
        <4> QED BY <3>2, <4>2, <4>4, <3>4
      <3> QED BY <3>1, <3>5, <3>6, <3>7, <2>5
    <2> QED BY <2>10, <2>11, <1>3
  <1> QED BY <1>5, <1>6

\* Each byte goes where it belongs.
LEMMA WhereIs ==
  ASSUME NEW r \in AtRequests, Exact(r), NEW k \in Steps(r), NEW i \in 1..Count(r, k)
  PROVE  LET o == (Offset(r, k) + i) - 1
             x == Where(r, From(r, k) + i)
         IN o \in 0..AtPageSize - 1 /\ x \in 0..RingSize - 1 /\ x \div AtPageSize = Page(r, k) /\ x % AtPageSize = o
  <1>1. PICK s \in Nat \ {0} : s = AtPageSize BY RingIs
  <1>2. PICK m \in Nat \ {0} : m = MAXCAP BY RingIs
  <1>3. PICK a \in 0..s - 1 : a = AddrofPage(r) BY <1>1, CutIs
  <1>4. PICK n \in Nat : n = Count(r, k) BY CutIs
  <1>5. PICK off \in Nat : off = Offset(r, k) /\ off + n <= s BY <1>1, <1>4, CutIs
  <1>6. PICK from \in Nat : from = From(r, k) BY CutIs
  <1>7. k \in Nat
    <2>1. Steps(r) = 0..Ends(r) - 1 /\ Ends(r) \in Nat BY CutIs
    <2> QED BY <2>1
  <1>8. PICK b \in 0..m - 1 : b = r.at \div s /\ r.at = b * s + a
    <2>1. r.at \in 0..RingSize - 1 BY AtReqIs
    <2>2. r.at \div AtPageSize \in 0..MAXCAP - 1 /\ r.at = (r.at \div AtPageSize) * AtPageSize + (r.at % AtPageSize)
      BY <2>1, RingIs
    <2> QED BY <2>2, <1>1, <1>2, <1>3 DEF AddrofPage
  <1>9. i \in 1..n /\ i \in Int BY <1>4
  <1>10. PICK o \in 0..s - 1 : o = (off + i) - 1 BY <1>5, <1>9
  <1>11. from = (IF k = 0 THEN 0 ELSE (s - a) + (k - 1) * s) /\ off = IF k = 0 THEN a ELSE 0
    BY <1>1, <1>3, <1>5, <1>6 DEF From, Offset
  <1>12. PICK c \in Nat : c = b + k BY <1>7
  <1>13. (r.at + (from + i)) - 1 = c * s + o
    <2>1. PICK u \in Nat : u = b * s OBVIOUS
    <2>2. c * s = u + k * s BY <1>12, <2>1, <1>7
    <2>3. CASE k = 0
      <3>1. k * s = 0 BY <2>3
      <3> QED BY <2>1, <2>2, <2>3, <3>1, <1>8, <1>9, <1>10, <1>11
    <2>4. CASE k # 0
      <3>1. PICK v \in Int : v = k * s BY <1>7
      <3>2. (k - 1) * s = v - s BY <3>1, <1>7
      <3>3. from = (s - a) + (v - s) /\ off = 0 BY <2>4, <3>2, <1>11
      <3>4. r.at = u + a /\ c * s = u + v BY <2>1, <2>2, <3>1, <1>8
      <3> QED BY ONLY <3>3, <3>4, <1>9, <1>10, u \in Nat, v \in Int, s \in Nat, a \in 0..s - 1, from \in Nat
    <2> QED BY <2>3, <2>4
  <1>14. PICK p \in 0..m - 1 : p = Page(r, k) /\ p = c % m
    <2>1. n > 0 BY <1>9
    <2>2. Page(r, k) = (r.at \div AtPageSize + k) % MAXCAP BY <2>1, <1>4 DEF Exact
    <2>3. c % m \in 0..m - 1 OBVIOUS
    <2> QED BY <2>2, <2>3, <1>1, <1>2, <1>8, <1>12
  <1>15. PICK quot \in Int : c = quot * m + p
    <2>0. c \in Int OBVIOUS
    <2>1. \E quot \in Int : c = quot * m + (c % m) BY ONLY <2>0, m \in Nat \ {0}, Quotient
    <2> QED BY <2>1, <1>14
  <1>16. PICK g \in Nat \ {0} : g = RingSize /\ g = m * s BY <1>1, <1>2, RingIs DEF RingSize
  <1>17. PICK x \in 0..g - 1 : x = p * s + o /\ x \div s = p /\ x % s = o BY <1>1, <1>2, <1>16, RingIs
  <1>18. PICK y \in Int : y = (r.at + (from + i)) - 1 /\ y = c * s + o
    <2>1. c * s + o \in Int OBVIOUS
    <2> QED BY <2>1, <1>13
  <1>19. y = quot * g + x
    <2>1. c * s = quot * (m * s) + p * s BY ONLY <1>15, quot \in Int, m \in Nat, s \in Nat, p \in 0..m - 1
    <2>2. PICK u \in Int : u = p * s OBVIOUS
    <2>3. PICK v \in Int : v = quot * g OBVIOUS
    <2>4. c * s = v + u BY <2>1, <2>2, <2>3, <1>16
    <2> QED BY <2>2, <2>3, <2>4, <1>17, <1>18
  <1>20. y % g = x BY <1>19, Remainder
  <1>21. Where(r, from + i) = x
    <2>1. Where(r, from + i) = (r.at + (from + i) - 1) % g BY <1>16 DEF Where
    <2>2. r.at + (from + i) - 1 = y
      <3>1. r.at \in Nat BY <1>8
      <3> QED BY <3>1, <1>9, <1>18
    <2> QED BY <2>1, <2>2, <1>20
  <1> QED BY <1>1, <1>5, <1>6, <1>10, <1>14, <1>16, <1>17, <1>21

\* No two bytes of a request belong in one place.
LEMMA WhereOnce ==
  ASSUME NEW r \in AtRequests, NEW i \in 1..Len(r.data), NEW j \in 1..Len(r.data), Where(r, i) = Where(r, j)
  PROVE  i = j
  <1>1. PICK g \in Nat \ {0} : g = RingSize BY RingIs
  <1>2. PICK at \in Nat : at = r.at
    <2>1. r.at \in 0..g - 1 BY <1>1, AtReqIs
    <2> QED BY <2>1
  <1>3. PICK len \in Nat : len = Len(r.data) /\ len < g BY AtReqIs, <1>1
  <1>4. i \in 1..len /\ j \in 1..len BY <1>3
  <1>5. PICK x \in Int : x = (at + i) - 1 BY <1>4
  <1>6. PICK y \in Int : y = (at + j) - 1 BY <1>4
  <1>7. x % g = y % g BY <1>1, <1>2, <1>5, <1>6 DEF Where
  <1>8. PICK k \in Int : x = k * g + (x % g) BY Quotient
  <1>9. PICK l \in Int : y = l * g + (y % g) BY Quotient
  <1>10. PICK t \in 0..g - 1 : t = x % g OBVIOUS
  <1>11. PICK d \in Int : d = k - l OBVIOUS
  <1>12. x - y = d * g
    <2>1. d * g = k * g - l * g BY <1>11
    <2>2. PICK u \in Int : u = k * g OBVIOUS
    <2>3. PICK v \in Int : v = l * g OBVIOUS
    <2>4. x = u + t /\ y = v + t /\ d * g = u - v BY <2>1, <2>2, <2>3, <1>7, <1>8, <1>9, <1>10
    <2> QED BY ONLY <2>4, x \in Int, y \in Int, u \in Int, v \in Int, t \in 0..g - 1, g \in Nat
  <1>13. x - y = i - j /\ i - j < g /\ i - j > -g BY <1>3, <1>4, <1>5, <1>6
  <1>14. d = 0
    <2>1. d >= 1 => d * g >= g BY ONLY d \in Int, g \in Nat
    <2>2. d <= -1 => d * g <= -g BY ONLY d \in Int, g \in Nat
    <2>3. PICK w \in Int : w = d * g OBVIOUS
    <2> QED BY <2>1, <2>2, <2>3, <1>12, <1>13, <1>4
  <1>15. d * g = 0 BY <1>14
  <1> QED BY <1>12, <1>13, <1>15, <1>4

-----------------------------------------------------------------------------
(* The AT45 driver: its commands and the invariant *)

AtPageData == [InAtPage -> 0..2]
AtState ==
  [mem : [Pages -> AtPageData], buf : AtPageData, busy : SUBSET Pages, req : AtRequests \cup {NoCall}, k : Nat,
   dat : Seq(0..2)]

RingHas(m, x) == m[x \div AtPageSize][x % AtPageSize]
RingCells == 0..RingSize - 1

\* The step is one of the request's, or the one after them.
AtWhere == at45.req # NoCall => at45.k <= Ends(at45.req)

\* The bytes before the next step are in the ring, and every other cell holds what it did.
AtWrites ==
  LET r == at45.req
      k == at45.k
  IN r.op = "write" /\ Exact(r) =>
       /\ \A i \in 1..Upto(r, k) : RingHas(at45.mem, Where(r, i)) = r.data[i]
       /\ \A x \in RingCells : x \in unsure \/ RingHas(at45.mem, x) = kept[x] \/ \E i \in 1..Upto(r, k) : Where(r, i) = x

\* All that a request touches which is cut wrongly is in doubt from its first step on.
AtSpoils ==
  LET r == at45.req IN r.op = "write" /\ ~Exact(r) /\ at45.k > 0 => Touched(r) \subseteq unsure

AtKeeps ==
  ~(at45.req.op = "write" /\ Exact(at45.req)) => \A x \in RingCells : x \in unsure \/ RingHas(at45.mem, x) = kept[x]

\* A read has taken the bytes before the next step.
AtReads ==
  LET r == at45.req
      k == at45.k
  IN r.op = "read" /\ Exact(r) =>
       /\ Len(at45.dat) = Upto(r, k)
       /\ \A i \in 1..Upto(r, k) : Where(r, i) \in unsure \/ at45.dat[i] = kept[Where(r, i)]

AtInv == at45 \in AtState /\ AtWhere /\ AtWrites /\ AtSpoils /\ AtKeeps /\ AtReads

\* Only the buffer, the page or the data read change.
AtStays(s, t) == t.req = s.req /\ t.k = s.k

LEMMA LoadIs ==
  ASSUME NEW s \in AtState, NEW p \in Pages
  PROVE  LET t == MainToBuffer1AT45(s, p) IN
         t \in AtState /\ t.buf = s.mem[p] /\ t.mem = s.mem /\ t.dat = s.dat /\ AtStays(s, t)
  <1>1. s.mem[p] \in AtPageData BY DEF AtState
  <1> QED BY <1>1 DEF MainToBuffer1AT45, AT45DBXX_STATUS, AtState, AtStays

\* A page of which n places from a on take what the request has from byte from on.
Changed(b, a, r, from, n) ==
  [i \in InAtPage |->
     IF i < a \/ i >= a + n THEN b[i] ELSE IF from + (i - a) < Len(r.data) THEN r.data[from + (i - a) + 1] ELSE Junk]

LEMMA ChangeIs ==
  ASSUME NEW s \in AtState, NEW a \in Nat, NEW r \in AtRequests, NEW from \in Nat, NEW n \in Nat
  PROVE  LET t == AT45Buffer1Write(s, a, r, from, n) IN
         /\ t \in AtState /\ t.mem = s.mem /\ t.dat = s.dat /\ AtStays(s, t)
         /\ t.buf = Changed(s.buf, a, r, from, n)
  <1> DEFINE buf == Changed(s.buf, a, r, from, n)
  <1>1. AtPageSize \in Nat BY RingIs
  <1>2. buf \in AtPageData
    <2> SUFFICES ASSUME NEW i \in InAtPage
                 PROVE  (IF i < a \/ i >= a + n THEN s.buf[i] ELSE IF from + (i - a) < Len(r.data) THEN r.data[from + (i - a) + 1] ELSE Junk) \in 0..2
      BY DEF AtPageData, Changed
    <2>1. i \in Nat BY <1>1 DEF InAtPage
    <2>2. s.buf[i] \in 0..2 BY DEF AtState, AtPageData
    <2>3. Junk \in 0..2 BY DEF Junk
    <2>4. ASSUME ~(i < a), from + (i - a) < Len(r.data) PROVE r.data[from + (i - a) + 1] \in 0..2
      <3>1. PICK len \in Nat : len = Len(r.data) BY AtReqIs
      <3>2. from + (i - a) + 1 \in 1..len BY <2>1, <2>4, <3>1
      <3>3. r.data \in Seq({0, 1}) BY AtReqIs
      <3>4. \A j \in 1..Len(r.data) : r.data[j] \in {0, 1} BY <3>3
      <3> QED BY <3>1, <3>2, <3>4
    <2> QED BY <2>2, <2>3, <2>4
  <1>3. AT45Buffer1Write(s, a, r, from, n) = [[s EXCEPT !.busy = {}] EXCEPT !.buf = buf]
    BY DEF AT45Buffer1Write, AT45DBXX_STATUS, Changed
  <1> HIDE DEF buf
  <1>4. LET t == [[s EXCEPT !.busy = {}] EXCEPT !.buf = buf] IN
        t \in AtState /\ t.mem = s.mem /\ t.dat = s.dat /\ AtStays(s, t) /\ t.buf = buf
    BY <1>2 DEF AtState, AtStays
  <1> QED BY <1>3, <1>4 DEF buf

LEMMA BurnIs ==
  ASSUME NEW s \in AtState, NEW p \in Pages
  PROVE  LET t == Buffer1ToMainWithErase(s, p) IN
         t \in AtState /\ t.mem = [s.mem EXCEPT ![p] = s.buf] /\ t.dat = s.dat /\ AtStays(s, t)
  <1>1. s.mem \in [Pages -> AtPageData] /\ s.buf \in AtPageData /\ {p} \in SUBSET Pages BY DEF AtState
  <1>2. [s.mem EXCEPT ![p] = s.buf] \in [Pages -> AtPageData] BY <1>1
  <1>3. Buffer1ToMainWithErase(s, p) = [[s EXCEPT !.busy = {}] EXCEPT !.mem = [s.mem EXCEPT ![p] = s.buf], !.busy = {p}]
    BY DEF Buffer1ToMainWithErase, AT45DBXX_STATUS, AtState
  <1> DEFINE m == [s.mem EXCEPT ![p] = s.buf]
  <1>4. LET t == [[s EXCEPT !.busy = {}] EXCEPT !.mem = m, !.busy = {p}] IN
        t \in AtState /\ t.mem = m /\ t.dat = s.dat /\ AtStays(s, t)
    <2> HIDE DEF m
    <2>1. m \in [Pages -> AtPageData] BY <1>2 DEF m
    <2> QED BY <1>1, <2>1 DEF AtState, AtStays
  <1> QED BY <1>3, <1>4

LEMMA TakeIs ==
  ASSUME NEW s \in AtState, NEW a \in Nat, NEW n \in Nat, a + n <= AtPageSize
  PROVE  LET t == AT45Buffer1Read(s, a, n) IN
         /\ t \in AtState /\ t.mem = s.mem /\ AtStays(s, t)
         /\ Len(t.dat) = Len(s.dat) + n
         /\ \A i \in 1..Len(s.dat) : t.dat[i] = s.dat[i]
         /\ \A i \in 1..n : t.dat[Len(s.dat) + i] = s.buf[(a + i) - 1]
  <1> DEFINE more == [i \in 1..n |-> s.buf[a + i - 1]]
             dat == s.dat \o more
  <1>1. AtPageSize \in Nat BY RingIs
  <1>2. \A i \in 1..n : a + i - 1 \in InAtPage /\ a + i - 1 = (a + i) - 1 BY <1>1 DEF InAtPage
  <1>3. s.buf \in AtPageData /\ s.dat \in Seq(0..2) BY DEF AtState
  <1>4. \A i \in 1..n : s.buf[a + i - 1] \in 0..2 BY <1>2, <1>3 DEF AtPageData
  <1>5. more \in Seq(0..2) /\ Len(more) = n /\ \A i \in 1..n : more[i] = s.buf[(a + i) - 1] BY <1>2, <1>4
  <1> HIDE DEF more
  <1>6. /\ dat \in Seq(0..2) /\ Len(dat) = Len(s.dat) + n
        /\ \A i \in 1..Len(s.dat) : dat[i] = s.dat[i]
        /\ \A i \in 1..n : dat[Len(s.dat) + i] = more[i]
    <2>1. /\ dat \in Seq(0..2) /\ Len(dat) = Len(s.dat) + Len(more)
          /\ \A i \in 1..Len(s.dat) + Len(more) : dat[i] = IF i <= Len(s.dat) THEN s.dat[i] ELSE more[i - Len(s.dat)]
      BY <1>3, <1>5, ConcatProperties
    <2>2. PICK l \in Nat : l = Len(s.dat) BY <1>3, LenProperties
    <2> HIDE DEF dat
    <2>3. Len(dat) = l + n /\ \A i \in 1..(l + n) : dat[i] = IF i <= l THEN s.dat[i] ELSE more[i - l]
      BY <2>1, <2>2, <1>5
    <2>4. \A i \in 1..l : dat[i] = s.dat[i]
      <3>1. \A i \in 1..l : i \in 1..(l + n) /\ i <= l OBVIOUS
      <3> QED BY <2>3, <3>1
    <2>5. \A i \in 1..n : dat[l + i] = more[i]
      <3>1. \A i \in 1..n : l + i \in 1..(l + n) /\ ~(l + i <= l) /\ (l + i) - l = i OBVIOUS
      <3> QED BY <2>3, <3>1
    <2> QED BY <2>1, <2>2, <2>3, <2>4, <2>5
  <1>7. AT45Buffer1Read(s, a, n) = [[s EXCEPT !.busy = {}] EXCEPT !.dat = dat]
    BY DEF AT45Buffer1Read, AT45DBXX_STATUS, AtState, more
  <1> HIDE DEF dat
  <1>8. LET t == [[s EXCEPT !.busy = {}] EXCEPT !.dat = dat] IN t \in AtState /\ t.mem = s.mem /\ AtStays(s, t) /\ t.dat = dat
    BY <1>6 DEF AtState, AtStays
  <1> QED BY <1>5, <1>6, <1>7, <1>8

LEMMA AtIni == AtInit => AtInv
  <1> SUFFICES ASSUME AtInit PROVE AtInv OBVIOUS
  <1> DEFINE blank == [p \in Pages |-> [i \in InAtPage |-> 1]]
             junk == [i \in InAtPage |-> Junk]
  <1>1. at45 = [mem |-> blank, buf |-> junk, busy |-> {}, req |-> NoCall, k |-> 0, dat |-> <<>>] BY DEF AtInit
  <1>2. kept = [x \in RingCells |-> 1] /\ unsure = {} BY DEF AtInit, RingCells
  <1>3. blank \in [Pages -> AtPageData] /\ junk \in AtPageData BY DEF AtPageData, Junk
  <1>4. \A x \in RingCells : RingHas(blank, x) = 1
    <2> SUFFICES ASSUME NEW x \in RingCells PROVE RingHas(blank, x) = 1 OBVIOUS
    <2>1. x \div AtPageSize \in 0..MAXCAP - 1 /\ x % AtPageSize \in InAtPage /\ MAXCAP \in Nat
      BY RingIs DEF RingCells, InAtPage
    <2>2. x \div AtPageSize \in Pages BY <2>1 DEF Pages
    <2> QED BY <2>1, <2>2 DEF RingHas
  <1> HIDE DEF blank, junk
  <1>5. <<>> \in Seq(0..2) OBVIOUS
  <1>6. at45 \in AtState BY <1>1, <1>3, <1>5 DEF AtState
  <1>7. at45.req = NoCall /\ NoCall.op = "none" BY <1>1 DEF NoCall
  <1> QED BY <1>1, <1>2, <1>4, <1>6, <1>7 DEF AtInv, AtWhere, AtWrites, AtSpoils, AtKeeps, AtReads

-----------------------------------------------------------------------------
(* The AT45 driver: its steps *)

LEMMA WhereInRing ==
  ASSUME NEW r \in AtRequests, NEW i \in Nat
  PROVE  i > 0 => Where(r, i) \in RingCells
  <1>1. PICK g \in Nat \ {0} : g = RingSize BY RingIs
  <1>2. r.at \in 0..g - 1 BY <1>1, AtReqIs
  <1>3. PICK at \in Nat : at = r.at BY <1>2
  <1>4. ASSUME i > 0 PROVE (at + i - 1) % g \in 0..g - 1
    <2>1. PICK y \in Nat : y = at + i - 1 BY <1>4
    <2> QED BY <2>1
  <1> QED BY <1>1, <1>3, <1>4 DEF Where, RingCells

LEMMA InRing ==
  ASSUME NEW x \in RingCells
  PROVE  /\ x \div AtPageSize \in Pages /\ x % AtPageSize \in InAtPage /\ x % AtPageSize \in Nat
         /\ x \in Cells(x \div AtPageSize)
         /\ \A y \in RingCells : y \div AtPageSize = x \div AtPageSize /\ y % AtPageSize = x % AtPageSize => y = x
  <1>1. MAXCAP \in Nat /\ AtPageSize \in Nat /\ x \div AtPageSize \in 0..MAXCAP - 1 /\ x % AtPageSize \in InAtPage
        /\ x = (x \div AtPageSize) * AtPageSize + (x % AtPageSize)
    BY RingIs DEF RingCells, InAtPage
  <1>2. x \div AtPageSize \in Pages BY <1>1 DEF Pages
  <1>3. x \in Cells(x \div AtPageSize)
    <2>1. \E i \in InAtPage : x = (x \div AtPageSize) * AtPageSize + i BY <1>1
    <2> QED BY <2>1 DEF Cells, RingCells
  <1>4. \A y \in RingCells : y = (y \div AtPageSize) * AtPageSize + (y % AtPageSize) BY RingIs DEF RingCells
  <1>5. x % AtPageSize \in Nat BY <1>1 DEF InAtPage
  <1> QED BY <1>1, <1>2, <1>3, <1>4, <1>5

\* What one step of a write changes.
LEMMA AtPageWritten ==
  ASSUME AtInv, SPIWriteFlash
  PROVE  LET r == at45.req
             k == at45.k
             p == Page(r, k)
             o == Offset(r, k)
             n == Count(r, k)
             f == From(r, k)
         IN /\ r \in AtRequests /\ k \in Steps(r) /\ k \in Nat
            /\ at45' \in AtState /\ at45'.req = r /\ at45'.k = k + 1
            /\ \A x \in RingCells :
                 /\ x \div AtPageSize # p => RingHas(at45'.mem, x) = RingHas(at45.mem, x)
                 /\ x \div AtPageSize = p =>
                      RingHas(at45'.mem, x) =
                        LET spot == x % AtPageSize IN
                        IF spot < o \/ spot >= o + n THEN RingHas(at45.mem, x)
                        ELSE IF f + (spot - o) < Len(r.data) THEN r.data[f + (spot - o) + 1] ELSE Junk
  <1> DEFINE r == at45.req
             k == at45.k
             p == Page(r, k)
             o == Offset(r, k)
             n == Count(r, k)
             f == From(r, k)
             c == IF Loads(r, k) THEN MainToBuffer1AT45(at45, p) ELSE at45
             d == AT45Buffer1Write(c, o, r, f, n)
             e == Buffer1ToMainWithErase(d, p)
             new == Changed(c.buf, o, r, f, n)
  <1>1. at45 \in AtState /\ r.op = "write" /\ k \in Steps(r) /\ at45' = [e EXCEPT !.k = k + 1] BY DEF AtInv, SPIWriteFlash
  <1>2. r \in AtRequests /\ k \in Nat BY <1>1 DEF AtState, NoCall
  <1>3. p \in 0..MAXCAP - 1 /\ MAXCAP \in Nat /\ f \in Nat /\ o \in Nat /\ n \in Nat /\ o + n <= AtPageSize
        /\ (n = AtPageSize \/ k = 0 \/ k = NumPage(r) + 1)
    BY <1>1, <1>2, CutIs, RingIs
  <1>4. p \in Pages BY <1>3 DEF Pages
  <1>5. Loads(r, k) \/ (n = AtPageSize /\ o = 0) BY <1>3 DEF Loads, Offset
  <1> HIDE DEF p, o, n, f, r, k
  <1>6. /\ c \in AtState /\ c.mem = at45.mem /\ c.req = r /\ c.k = k
        /\ Loads(r, k) => c.buf = at45.mem[p]
    BY <1>1, <1>4, LoadIs DEF AtStays, r, k
  <1> HIDE DEF c
  <1>7. d \in AtState /\ d.mem = c.mem /\ d.req = c.req /\ d.k = c.k /\ d.buf = new
    <2>1. c \in AtState /\ o \in Nat /\ r \in AtRequests /\ f \in Nat /\ n \in Nat BY <1>2, <1>3, <1>6
    <2>2. /\ AT45Buffer1Write(c, o, r, f, n) \in AtState /\ AT45Buffer1Write(c, o, r, f, n).mem = c.mem
          /\ AT45Buffer1Write(c, o, r, f, n).dat = c.dat /\ AtStays(c, AT45Buffer1Write(c, o, r, f, n))
          /\ AT45Buffer1Write(c, o, r, f, n).buf = Changed(c.buf, o, r, f, n)
      BY <2>1, ChangeIs
    <2>3. d \in AtState /\ d.mem = c.mem /\ AtStays(c, d) /\ d.buf = new BY <2>2
    <2> HIDE DEF d, new
    <2> QED BY <2>3 DEF AtStays
  <1> HIDE DEF d
  <1>8. e \in AtState /\ e.mem = [d.mem EXCEPT ![p] = d.buf] /\ e.req = d.req /\ e.k = d.k
    BY <1>4, <1>7, BurnIs DEF AtStays
  <1> HIDE DEF e
  <1>9. at45' \in AtState /\ at45'.req = e.req /\ at45'.k = k + 1 /\ at45'.mem = e.mem
    <2>1. k + 1 \in Nat BY <1>2
    <2> QED BY <1>1, <1>8, <2>1 DEF AtState
  <1>10. at45'.mem = [at45.mem EXCEPT ![p] = new] /\ at45.mem \in [Pages -> AtPageData]
    BY <1>1, <1>6, <1>7, <1>8, <1>9 DEF AtState
  <1>11. ASSUME NEW x \in RingCells
         PROVE  /\ x \div AtPageSize # p => RingHas(at45'.mem, x) = RingHas(at45.mem, x)
                /\ x \div AtPageSize = p =>
                     RingHas(at45'.mem, x) =
                       LET spot == x % AtPageSize IN
                       IF spot < o \/ spot >= o + n THEN RingHas(at45.mem, x)
                       ELSE IF f + (spot - o) < Len(r.data) THEN r.data[f + (spot - o) + 1] ELSE Junk
    <2> DEFINE spot == x % AtPageSize
    <2>1. x \div AtPageSize \in Pages /\ spot \in InAtPage BY InRing
    <2> HIDE DEF new
    <2>2. CASE x \div AtPageSize # p BY <2>1, <2>2, <1>4, <1>10 DEF RingHas
    <2>3. CASE x \div AtPageSize = p
      <3>1. RingHas(at45'.mem, x) = new[spot] BY <2>3, <1>4, <1>10 DEF RingHas
      <3>2. RingHas(at45.mem, x) = at45.mem[p][spot] BY <2>3 DEF RingHas
      <3> HIDE DEF spot
      <3>3. new[spot] = IF spot < o \/ spot >= o + n THEN c.buf[spot]
                            ELSE IF f + (spot - o) < Len(r.data) THEN r.data[f + (spot - o) + 1] ELSE Junk
        BY <2>1 DEF new, Changed
      <3>4. spot < o \/ spot >= o + n => c.buf[spot] = at45.mem[p][spot]
        <4>1. CASE Loads(r, k) BY <4>1, <1>6
        <4>2. CASE n = AtPageSize /\ o = 0
          <5>1. AtPageSize \in Nat BY RingIs
          <5>2. ~(spot < o \/ spot >= o + n) BY <4>2, <5>1, <2>1 DEF InAtPage
          <5> QED BY <5>2
        <4> QED BY <4>1, <4>2, <1>5
      <3> QED BY <2>3, <3>1, <3>2, <3>3, <3>4 DEF spot
    <2> QED BY <2>2, <2>3
  <1>12. r \in AtRequests /\ k \in Steps(r) /\ k \in Nat /\ at45' \in AtState /\ at45'.req = r /\ at45'.k = k + 1
    BY <1>1, <1>2, <1>6, <1>7, <1>8, <1>9
  <1> QED BY <1>11, <1>12 DEF p, o, n, f, r, k

LEMMA AtWriteKeeps == AtInv /\ SPIWriteFlash => AtInv'
  <1> SUFFICES ASSUME AtInv, SPIWriteFlash PROVE AtInv' OBVIOUS
  <1> DEFINE r == at45.req
             k == at45.k
             p == Page(r, k)
             o == Offset(r, k)
             n == Count(r, k)
             f == From(r, k)
  <1>1. /\ r \in AtRequests /\ k \in Steps(r) /\ k \in Nat
        /\ at45' \in AtState /\ at45'.req = r /\ at45'.k = k + 1
    BY AtPageWritten
  <1>2. \A x \in RingCells :
          /\ x \div AtPageSize # p => RingHas(at45'.mem, x) = RingHas(at45.mem, x)
          /\ x \div AtPageSize = p =>
               RingHas(at45'.mem, x) =
                 LET spot == x % AtPageSize IN
                 IF spot < o \/ spot >= o + n THEN RingHas(at45.mem, x)
                 ELSE IF f + (spot - o) < Len(r.data) THEN r.data[f + (spot - o) + 1] ELSE Junk
    BY AtPageWritten
  <1>3. r.op = "write" /\ kept' = kept /\ unsure' = IF Exact(r) THEN unsure ELSE unsure \cup Touched(r) BY DEF SPIWriteFlash
  <1>4. k + 1 <= Ends(r)
    <2>1. Steps(r) = 0..Ends(r) - 1 /\ Ends(r) \in Nat BY <1>1, CutIs
    <2> QED BY <2>1, <1>1
  <1>5. f \in Nat /\ o \in Nat /\ n \in Nat BY <1>1, CutIs
  <1>6. AtWhere' BY <1>1, <1>4 DEF AtWhere
  <1>7. AtReads' BY <1>1, <1>3 DEF AtReads
  <1>8. CASE Exact(r)
    <2>1. Upto(r, k) = f /\ Upto(r, k + 1) = f + n /\ f + n <= Len(r.data) BY <1>1, <1>8, PiecesAddUp
    <2>2. \A i \in 1..f : RingHas(at45.mem, Where(r, i)) = r.data[i]
      BY <1>3, <1>8, <2>1 DEF AtInv, AtWrites
    <2>3. \A x \in RingCells : x \in unsure \/ RingHas(at45.mem, x) = kept[x] \/ \E i \in 1..f : Where(r, i) = x
      BY <1>3, <1>8, <2>1 DEF AtInv, AtWrites
    <2>4. \A j \in 1..n : LET x == Where(r, f + j) IN x \in RingCells /\ x \div AtPageSize = p /\ x % AtPageSize = (o + j) - 1
      BY <1>1, <1>8, WhereIs DEF RingCells
    <2> HIDE DEF r, k, p, o, n, f
    <2>5. ASSUME NEW x \in RingCells
          PROVE  RingHas(at45'.mem, x) = RingHas(at45.mem, x) \/ \E j \in 1..n : Where(r, f + j) = x
      <3> DEFINE spot == x % AtPageSize
      <3>1. CASE x \div AtPageSize = p /\ spot >= o /\ spot < o + n
        <4>1. spot \in Nat BY InRing
        <4> HIDE DEF spot
        <4>2. PICK j \in 1..n : j = (spot - o) + 1 BY <3>1, <4>1, <1>5
        <4>3. (o + j) - 1 = spot BY <4>1, <4>2, <1>5
        <4>4. Where(r, f + j) \in RingCells /\ Where(r, f + j) \div AtPageSize = x \div AtPageSize
              /\ Where(r, f + j) % AtPageSize = x % AtPageSize
          BY <2>4, <3>1, <4>3 DEF spot
        <4>5. Where(r, f + j) = x BY <4>4, InRing
        <4> QED BY <4>5
      <3>2. CASE ~(x \div AtPageSize = p /\ spot >= o /\ spot < o + n)
        <4>1. spot \in Nat BY InRing
        <4>2. x \div AtPageSize = p => spot < o \/ spot >= o + n
          <5> HIDE DEF spot
          <5> QED BY <3>2, <4>1, <1>5
        <4> QED BY <4>2, <1>2
      <3> QED BY <3>1, <3>2
    <2>6. ASSUME NEW j \in 1..n PROVE RingHas(at45'.mem, Where(r, f + j)) = r.data[f + j]
      <3>1. PICK x \in RingCells : x = Where(r, f + j) /\ x \div AtPageSize = p /\ x % AtPageSize = (o + j) - 1 BY <2>4
      <3>2. PICK spot \in Nat : spot = x % AtPageSize BY InRing
      <3>3. RingHas(at45'.mem, x) = IF spot < o \/ spot >= o + n THEN RingHas(at45.mem, x)
                                    ELSE IF f + (spot - o) < Len(r.data) THEN r.data[f + (spot - o) + 1] ELSE Junk
        BY <3>1, <3>2, <1>2
      <3>4. PICK len \in Nat : len = Len(r.data) BY <1>1, AtReqIs
      <3>5. ~(spot < o \/ spot >= o + n) /\ f + (spot - o) < len /\ f + (spot - o) + 1 = f + j
        BY <3>1, <3>2, <3>4, <2>1, <1>5
      <3> QED BY <3>1, <3>3, <3>4, <3>5
    <2>7. ASSUME NEW i \in 1..f PROVE RingHas(at45'.mem, Where(r, i)) = r.data[i]
      <3>1. i \in Nat /\ i > 0 BY <1>5
      <3>2. Where(r, i) \in RingCells BY <3>1, <1>1, WhereInRing
      <3>3. ASSUME NEW j \in 1..n, Where(r, f + j) = Where(r, i) PROVE FALSE
        <4>1. PICK len \in Nat : len = Len(r.data) BY <1>1, AtReqIs
        <4>2. i \in 1..len /\ f + j \in 1..len /\ i # f + j BY <4>1, <2>1, <1>5
        <4> QED BY <4>1, <4>2, <3>3, <1>1, WhereOnce
      <3>4. RingHas(at45'.mem, Where(r, i)) = RingHas(at45.mem, Where(r, i)) BY <2>5, <3>2, <3>3
      <3> QED BY <3>4, <2>2
    <2>8. \A i \in 1..f + n : RingHas(at45'.mem, Where(r, i)) = r.data[i]
      <3> SUFFICES ASSUME NEW i \in 1..f + n PROVE RingHas(at45'.mem, Where(r, i)) = r.data[i] OBVIOUS
      <3>1. CASE i \in 1..f BY <3>1, <2>7
      <3>2. CASE i \notin 1..f
        <4>1. PICK j \in 1..n : i = f + j BY <3>2, <1>5
        <4> QED BY <4>1, <2>6
      <3> QED BY <3>1, <3>2
    <2>9. \A x \in RingCells : x \in unsure \/ RingHas(at45'.mem, x) = kept[x] \/ \E i \in 1..f + n : Where(r, i) = x
      <3> SUFFICES ASSUME NEW x \in RingCells, x \notin unsure, RingHas(at45'.mem, x) # kept[x]
                   PROVE  \E i \in 1..f + n : Where(r, i) = x
        OBVIOUS
      <3>1. CASE \E j \in 1..n : Where(r, f + j) = x
        <4>1. PICK j \in 1..n : Where(r, f + j) = x BY <3>1
        <4>2. f + j \in 1..f + n BY <1>5
        <4> QED BY <4>1, <4>2
      <3>2. CASE \E i \in 1..f : Where(r, i) = x
        <4>1. PICK i \in 1..f : Where(r, i) = x BY <3>2
        <4>2. i \in 1..f + n BY <1>5
        <4> QED BY <4>1, <4>2
      <3> QED BY <3>1, <3>2, <2>3, <2>5
    <2>10. AtWrites' BY <1>1, <1>3, <1>8, <2>1, <2>8, <2>9 DEF AtWrites
    <2>11. AtSpoils' /\ AtKeeps' BY <1>1, <1>3, <1>8 DEF AtSpoils, AtKeeps
    <2> QED BY <1>1, <1>6, <1>7, <2>10, <2>11 DEF AtInv
  <1>9. CASE ~Exact(r)
    <2>1. unsure' = unsure \cup Touched(r) BY <1>3, <1>9
    <2>2. \A x \in RingCells : x \in unsure \/ RingHas(at45.mem, x) = kept[x] BY <1>9 DEF AtInv, AtKeeps
    <2>3. Cells(p) \subseteq Touched(r) BY <1>1 DEF Touched
    <2> HIDE DEF r, k, p, o, n, f
    <2>4. ASSUME NEW x \in RingCells PROVE x \in unsure' \/ RingHas(at45'.mem, x) = kept[x]
      <3>1. CASE x \div AtPageSize = p
        <4>1. x \in Cells(p) BY <3>1, InRing
        <4> QED BY <4>1, <2>1, <2>3
      <3>2. CASE x \div AtPageSize # p BY <3>2, <2>1, <2>2, <1>2
      <3> QED BY <3>1, <3>2
    <2>5. AtKeeps' BY <2>4, <1>3 DEF AtKeeps
    <2>6. AtWrites' /\ AtSpoils' BY <1>1, <1>9, <2>1 DEF AtWrites, AtSpoils
    <2> QED BY <1>1, <1>6, <1>7, <2>5, <2>6 DEF AtInv
  <1> QED BY <1>8, <1>9

\* What one step of a read takes.
LEMMA AtReadKeeps == AtInv /\ SPIReadFlash => AtInv'
  <1> SUFFICES ASSUME AtInv, SPIReadFlash PROVE AtInv' OBVIOUS
  <1> DEFINE r == at45.req
             k == at45.k
             p == Page(r, k)
             o == Offset(r, k)
             n == Count(r, k)
             f == From(r, k)
             c == MainToBuffer1AT45(at45, p)
             d == AT45Buffer1Read(c, o, n)
  <1>1. at45 \in AtState /\ r.op = "read" /\ k \in Steps(r) /\ at45' = [d EXCEPT !.k = k + 1] /\ kept' = kept /\ unsure' = unsure
    BY DEF AtInv, SPIReadFlash
  <1>2. r \in AtRequests /\ k \in Nat BY <1>1 DEF AtState, NoCall
  <1>3. p \in 0..MAXCAP - 1 /\ MAXCAP \in Nat /\ f \in Nat /\ o \in Nat /\ n \in Nat /\ o + n <= AtPageSize
    BY <1>1, <1>2, CutIs, RingIs
  <1>4. p \in Pages BY <1>3 DEF Pages
  <1>5. k + 1 <= Ends(r)
    <2>1. Steps(r) = 0..Ends(r) - 1 /\ Ends(r) \in Nat BY <1>2, CutIs
    <2> QED BY <2>1, <1>1
  <1> HIDE DEF p, o, n, f, r, k
  <1>6. c \in AtState /\ c.buf = at45.mem[p] /\ c.mem = at45.mem /\ c.dat = at45.dat /\ c.req = r /\ c.k = k
    BY <1>1, <1>4, LoadIs DEF AtStays, r, k
  <1> HIDE DEF c
  <1>7. /\ d \in AtState /\ d.mem = c.mem /\ AtStays(c, d)
        /\ Len(d.dat) = Len(c.dat) + n
        /\ \A i \in 1..Len(c.dat) : d.dat[i] = c.dat[i]
        /\ \A i \in 1..n : d.dat[Len(c.dat) + i] = c.buf[(o + i) - 1]
    <2>1. c \in AtState /\ o \in Nat /\ n \in Nat /\ o + n <= AtPageSize BY <1>3, <1>6
    <2> QED BY <2>1, TakeIs
  <1> HIDE DEF d
  <1>8. at45' \in AtState /\ at45'.req = r /\ at45'.k = k + 1 /\ at45'.mem = at45.mem /\ at45'.dat = d.dat
    <2>1. k + 1 \in Nat BY <1>2
    <2>2. d \in AtState /\ d.mem = at45.mem /\ d.req = r BY <1>6, <1>7 DEF AtStays
    <2> QED BY <1>1, <2>1, <2>2 DEF AtState
  <1>9. \A x \in RingCells : x \in unsure \/ RingHas(at45.mem, x) = kept[x] BY <1>1 DEF AtInv, AtKeeps, r
  <1>10. AtKeeps' BY <1>1, <1>8, <1>9 DEF AtKeeps
  <1>11. AtWhere' BY <1>5, <1>8 DEF AtWhere
  <1>12. AtWrites' /\ AtSpoils' BY <1>1, <1>8 DEF AtWrites, AtSpoils
  <1>13. AtReads'
    <2> SUFFICES ASSUME Exact(r)
                 PROVE  /\ Len(d.dat) = Upto(r, k + 1)
                        /\ \A i \in 1..Upto(r, k + 1) : Where(r, i) \in unsure \/ d.dat[i] = kept[Where(r, i)]
      BY <1>1, <1>8 DEF AtReads
    <2>1. Upto(r, k) = f /\ Upto(r, k + 1) = f + n /\ f + n <= Len(r.data) BY <1>1, <1>2, PiecesAddUp DEF f, n
    <2>2. Len(at45.dat) = f /\ \A i \in 1..f : Where(r, i) \in unsure \/ at45.dat[i] = kept[Where(r, i)]
      BY <1>1, <2>1 DEF AtInv, AtReads, r, k
    <2>3. Len(d.dat) = f + n BY <2>2, <1>6, <1>7
    <2>4. \A j \in 1..n : LET x == Where(r, f + j) IN x \in RingCells /\ x \div AtPageSize = p /\ x % AtPageSize = (o + j) - 1
      BY <1>1, <1>2, WhereIs DEF RingCells, n, f, o, p
    <2>5. ASSUME NEW j \in 1..n PROVE Where(r, f + j) \in unsure \/ d.dat[f + j] = kept[Where(r, f + j)]
      <3>1. d.dat[f + j] = at45.mem[p][(o + j) - 1] BY <2>2, <1>6, <1>7
      <3>2. RingHas(at45.mem, Where(r, f + j)) = at45.mem[p][(o + j) - 1] BY <2>4 DEF RingHas
      <3> QED BY <3>1, <3>2, <2>4, <1>9
    <2>6. ASSUME NEW i \in 1..f PROVE Where(r, i) \in unsure \/ d.dat[i] = kept[Where(r, i)]
      BY <2>2, <1>6, <1>7
    <2>7. ASSUME NEW i \in 1..f + n PROVE Where(r, i) \in unsure \/ d.dat[i] = kept[Where(r, i)]
      <3>1. CASE i \in 1..f BY <3>1, <2>6
      <3>2. CASE i \notin 1..f
        <4>1. PICK j \in 1..n : i = f + j BY <3>2, <1>3
        <4> QED BY <4>1, <2>5
      <3> QED BY <3>1, <3>2
    <2> QED BY <2>1, <2>3, <2>7
  <1> QED BY <1>8, <1>10, <1>11, <1>12, <1>13 DEF AtInv

\* Where a call starts, and that no more than it asks for is done.
LEMMA UptoIs ==
  ASSUME NEW r \in AtRequests, NEW k \in Nat, Exact(r)
  PROVE  Upto(r, k) \in Nat /\ Upto(r, k) <= Len(r.data)
  <1>1. Len(r.data) \in Nat BY AtReqIs
  <1>2. CASE k \in Steps(r)
    <2>1. PICK f \in Nat : f = From(r, k) BY <1>2, CutIs
    <2>2. PICK n \in Nat : n = Count(r, k) BY <1>2, CutIs
    <2>3. Upto(r, k) = f /\ f + n <= Len(r.data) BY <1>2, <2>1, <2>2, PiecesAddUp
    <2> QED BY <1>1, <2>3
  <1>3. CASE k \notin Steps(r) BY <1>1, <1>3 DEF Upto
  <1> QED BY <1>2, <1>3

LEMMA TouchedIs ==
  ASSUME NEW r \in AtRequests, NEW i \in 1..Len(r.data)
  PROVE  Where(r, i) \in Touched(r)
  <1>1. PICK len \in Nat : len = Len(r.data) BY AtReqIs
  <1>2. PICK at \in Nat : at = r.at BY AtReqIs
  <1>3. PICK j \in 0..len - 1 : i = j + 1 /\ (at + i) - 1 = at + j
    <2>1. i - 1 \in 0..len - 1 /\ i = (i - 1) + 1 /\ (at + i) - 1 = at + (i - 1) BY <1>1
    <2> QED BY <2>1
  <1>4. Where(r, i) = (r.at + j) % RingSize BY <1>2, <1>3 DEF Where
  <1> QED BY <1>1, <1>3, <1>4 DEF Touched

\* After its last step a request is at its end.
LEMMA AtTheEnd ==
  ASSUME AtInv, at45.req # NoCall, at45.k \notin Steps(at45.req)
  PROVE  at45.req \in AtRequests /\ at45.k \in Nat /\ at45.k > 0 /\ Upto(at45.req, at45.k) = Len(at45.req.data)
  <1>1. at45.req \in AtRequests /\ at45.k \in Nat BY DEF AtInv, AtState
  <1>2. Steps(at45.req) = 0..Ends(at45.req) - 1 /\ Ends(at45.req) \in Nat \ {0} BY <1>1, CutIs
  <1>3. at45.k > 0 BY <1>1, <1>2
  <1> QED BY <1>1, <1>3 DEF Upto

LEMMA AtReturnKeeps == AtInv /\ Return => AtInv'
  <1> SUFFICES ASSUME AtInv, Return PROVE AtInv' OBVIOUS
  <1> DEFINE r == at45.req
             k == at45.k
             at(x) == {i \in 1..Len(r.data) : Where(r, i) = x}
  <1>1. /\ r # NoCall /\ k \notin Steps(r)
        /\ kept' = IF r.op = "write" THEN [x \in RingCells |-> IF at(x) = {} THEN kept[x] ELSE r.data[Max(at(x))]] ELSE kept
        /\ unsure' = IF r.op = "write" /\ Exact(r) THEN {x \in unsure : at(x) = {}} ELSE unsure
        /\ at45' = [at45 EXCEPT !.req = NoCall, !.k = 0, !.dat = <<>>]
    BY DEF Return, RingCells, Where
  <1>2. r \in AtRequests /\ k \in Nat /\ k > 0 /\ Upto(r, k) = Len(r.data) BY <1>1, AtTheEnd
  <1>3. at45' \in AtState /\ at45'.req = NoCall /\ at45'.mem = at45.mem
    <2>1. at45 \in AtState /\ <<>> \in Seq(0..2) BY DEF AtInv
    <2> QED BY <1>1, <2>1 DEF AtState
  <1>4. NoCall.op = "none" BY DEF NoCall
  <1>5. AtWhere' /\ AtWrites' /\ AtSpoils' /\ AtReads' BY <1>3, <1>4 DEF AtWhere, AtWrites, AtSpoils, AtReads
  <1>6. ASSUME NEW x \in RingCells PROVE x \in unsure' \/ RingHas(at45.mem, x) = kept'[x]
    <2>1. CASE r.op # "write" BY <2>1, <1>1 DEF AtInv, AtKeeps
    <2>2. CASE r.op = "write" /\ Exact(r)
      <3>1. \A i \in 1..Len(r.data) : RingHas(at45.mem, Where(r, i)) = r.data[i] BY <2>2, <1>2 DEF AtInv, AtWrites
      <3>2. x \in unsure \/ RingHas(at45.mem, x) = kept[x] \/ \E i \in 1..Len(r.data) : Where(r, i) = x
        BY <2>2, <1>2 DEF AtInv, AtWrites
      <3>3. CASE at(x) = {} BY <3>2, <3>3, <2>2, <1>1
      <3>4. CASE at(x) # {}
        <4>1. PICK i \in 1..Len(r.data) : Where(r, i) = x BY <3>4
        <4>2. at(x) = {i} BY <4>1, <1>2, WhereOnce
        <4>3. i \in Int
          <5>1. Len(r.data) \in Nat BY <1>2, AtReqIs
          <5> QED BY <5>1
        <4>4. Max({i}) = i BY <4>3 DEF Max
        <4>5. kept'[x] = r.data[i] BY <1>1, <2>2, <3>4, <4>2, <4>4
        <4> QED BY <3>1, <4>1, <4>5
      <3> QED BY <3>3, <3>4
    <2>3. CASE r.op = "write" /\ ~Exact(r)
      <3>1. Touched(r) \subseteq unsure /\ unsure' = unsure BY <2>3, <1>1, <1>2 DEF AtInv, AtSpoils
      <3>2. at(x) # {} => x \in Touched(r) BY <1>2, TouchedIs
      <3>3. x \in unsure \/ RingHas(at45.mem, x) = kept[x] BY <2>3 DEF AtInv, AtKeeps
      <3> QED BY <1>1, <2>3, <3>1, <3>2, <3>3
    <2> QED BY <2>1, <2>2, <2>3
  <1>7. AtKeeps' BY <1>3, <1>6 DEF AtKeeps
  <1> QED BY <1>3, <1>5, <1>7 DEF AtInv

LEMMA AtLossKeeps == AtInv /\ AtPowerLoss => AtInv'
  <1> SUFFICES ASSUME AtInv, AtPowerLoss PROVE AtInv' OBVIOUS
  <1> DEFINE r == at45.req
             k == at45.k
             mem == [p \in Pages |-> IF p \in at45.busy THEN [i \in InAtPage |-> Junk] ELSE at45.mem[p]]
             buf == [i \in InAtPage |-> Junk]
  <1>1. at45 \in AtState BY DEF AtInv
  <1>2. at45' = [at45 EXCEPT !.mem = mem, !.buf = buf, !.busy = {}, !.req = NoCall, !.k = 0, !.dat = <<>>]
        /\ unsure' = unsure \cup AtPending /\ kept' = kept
    BY DEF AtPowerLoss
  <1>3. buf \in AtPageData BY DEF AtPageData, Junk
  <1>4. mem \in [Pages -> AtPageData]
    <2>1. at45.mem \in [Pages -> AtPageData] BY <1>1 DEF AtState
    <2> HIDE DEF buf
    <2>2. \A p \in Pages : (IF p \in at45.busy THEN buf ELSE at45.mem[p]) \in AtPageData BY <2>1, <1>3
    <2> QED BY <2>2 DEF buf
  <1>5. ASSUME NEW p \in Pages, p \notin at45.busy PROVE mem[p] = at45.mem[p] BY <1>5
  <1> HIDE DEF mem, buf
  <1>6. at45' \in AtState /\ at45'.req = NoCall /\ at45'.mem = mem
    <2>1. <<>> \in Seq(0..2) OBVIOUS
    <2> QED BY <1>1, <1>2, <1>3, <1>4, <2>1 DEF AtState
  <1>7. NoCall.op = "none" BY DEF NoCall
  <1>8. AtWhere' /\ AtWrites' /\ AtSpoils' /\ AtReads' BY <1>6, <1>7 DEF AtWhere, AtWrites, AtSpoils, AtReads
  <1>9. ASSUME NEW x \in RingCells, x \notin unsure, x \notin AtPending PROVE RingHas(mem, x) = kept[x]
    <2>1. x \div AtPageSize \in Pages /\ x \in Cells(x \div AtPageSize) BY InRing
    <2>2. x \div AtPageSize \notin at45.busy BY <1>9, <2>1 DEF AtPending
    <2>3. RingHas(mem, x) = RingHas(at45.mem, x) BY <2>1, <2>2, <1>5 DEF RingHas
    <2>4. CASE r.op = "write" /\ Exact(r)
      <3>1. r \in AtRequests /\ k \in Nat BY <1>1, <1>7, <2>4 DEF AtState
      <3>2. RingHas(at45.mem, x) = kept[x] \/ \E i \in 1..Upto(r, k) : Where(r, i) = x
        BY <1>9, <2>4 DEF AtInv, AtWrites
      <3>3. ASSUME NEW i \in 1..Upto(r, k), Where(r, i) = x PROVE FALSE
        <4>1. PICK u \in Nat : u = Upto(r, k) BY <3>1, <2>4, UptoIs
        <4>2. PICK len \in Nat : len = Len(r.data) BY <3>1, AtReqIs
        <4>3. u <= len BY <3>1, <2>4, <4>1, <4>2, UptoIs
        <4>4. i \in 1..Len(r.data) BY <4>1, <4>2, <4>3
        <4>5. x \in Touched(r) BY <3>1, <3>3, <4>4, TouchedIs
        <4> QED BY <4>5, <1>9, <2>4 DEF AtPending
      <3> QED BY <2>3, <3>2, <3>3
    <2>5. CASE ~(r.op = "write" /\ Exact(r)) BY <2>3, <2>5, <1>9 DEF AtInv, AtKeeps
    <2> QED BY <2>4, <2>5
  <1>10. AtKeeps' BY <1>2, <1>6, <1>9 DEF AtKeeps
  <1> QED BY <1>6, <1>8, <1>10 DEF AtInv

LEMMA AtCallKeeps == ASSUME NEW asked \in AtRequests, AtInv, Call(asked) PROVE AtInv'
  <1>1. at45 \in AtState /\ at45.req = NoCall /\ at45' = [at45 EXCEPT !.req = asked, !.k = 0, !.dat = <<>>]
        /\ kept' = kept /\ unsure' = unsure
    BY DEF AtInv, Call
  <1>2. at45' \in AtState /\ at45'.req = asked /\ at45'.k = 0 /\ at45'.dat = <<>> /\ at45'.mem = at45.mem
    <2>1. <<>> \in Seq(0..2) OBVIOUS
    <2> QED BY <1>1, <2>1 DEF AtState
  <1>3. \A x \in RingCells : x \in unsure \/ RingHas(at45.mem, x) = kept[x]
    <2>1. at45.req.op # "write" BY <1>1 DEF NoCall
    <2> QED BY <2>1 DEF AtInv, AtKeeps
  <1>4. AtWhere'
    <2>1. Ends(asked) \in Nat BY CutIs
    <2>2. 0 <= Ends(asked) BY <2>1
    <2> QED BY <1>2, <2>2 DEF AtWhere
  <1>5. AtWrites' BY <1>1, <1>2, <1>3, PiecesAddUp DEF AtWrites
  <1>6. AtSpoils' BY <1>2 DEF AtSpoils
  <1>7. AtKeeps' BY <1>1, <1>2, <1>3 DEF AtKeeps
  <1>8. AtReads'
    <2>1. Len(<<>>) = 0 OBVIOUS
    <2> QED BY <1>1, <1>2, <2>1, PiecesAddUp DEF AtReads
  <1> QED BY <1>2, <1>4, <1>5, <1>6, <1>7, <1>8 DEF AtInv

LEMMA AtStep == AtInv /\ [AtNext]_atVars => AtInv'
  <1> SUFFICES ASSUME AtInv, [AtNext]_atVars PROVE AtInv' OBVIOUS
  <1>1. CASE SPIWriteFlash BY <1>1, AtWriteKeeps
  <1>2. CASE SPIReadFlash BY <1>2, AtReadKeeps
  <1>3. CASE Return BY <1>3, AtReturnKeeps
  <1>4. CASE AtPowerLoss BY <1>4, AtLossKeeps
  <1>5. CASE \E asked \in AtRequests : Call(asked) BY <1>5, AtCallKeeps
  <1>6. CASE UNCHANGED atVars BY <1>6 DEF atVars, AtInv, AtWhere, AtWrites, AtSpoils, AtKeeps, AtReads
  <1> QED BY <1>1, <1>2, <1>3, <1>4, <1>5, <1>6 DEF AtNext

LEMMA AtInvGives == AtInv => AtAsTold
  <1> SUFFICES ASSUME AtInv PROVE AtAsTold OBVIOUS
  <1> DEFINE r == at45.req
  <1>1. ASSUME r = NoCall, NEW x \in 0..RingSize - 1
        PROVE  x \in unsure \/ at45.mem[x \div AtPageSize][x % AtPageSize] = kept[x]
    <2>1. r.op # "write" BY <1>1 DEF NoCall
    <2> QED BY <2>1 DEF AtInv, AtKeeps, RingCells, RingHas
  <1>2. ASSUME r.op = "read", at45.k \notin Steps(r), Exact(r)
        PROVE  /\ Len(at45.dat) = Len(r.data)
               /\ \A i \in 1..Len(r.data) : Where(r, i) \in unsure \/ at45.dat[i] = kept[Where(r, i)]
    <2>1. r # NoCall BY <1>2 DEF NoCall
    <2>2. Upto(r, at45.k) = Len(r.data) BY <1>2, <2>1, AtTheEnd
    <2> QED BY <1>2, <2>2 DEF AtInv, AtReads
  <1> QED BY <1>1, <1>2 DEF AtAsTold, Where

\* spi_flash.c: for any page size and length of the ring and for any requests, what the calls that have returned
\* wrote is in the ring, up to what a loss of power or a wrongly cut request has spoilt, and a read returns that.
THEOREM RingKeepsWhatItWasTold == AtSpec => []AtAsTold
  <1>1. AtSpec => []AtInv BY AtIni, AtStep, PTL DEF AtSpec
  <1> QED BY <1>1, AtInvGives, PTL

-----------------------------------------------------------------------------
(* The drivers together, as the run has them *)

DriversInv ==
  /\ scenario = "nor" => NorInv
  /\ scenario = "ra" => RaInv
  /\ scenario = "at45" => AtInv

LEMMA DriversIni == MCInit => DriversInv
  <1> SUFFICES ASSUME MCInit PROVE DriversInv OBVIOUS
  <1>1. CASE scenario = "frames" BY <1>1 DEF DriversInv
  <1>2. CASE scenario = "nor" /\ NorInit BY <1>2, NorIni DEF DriversInv
  <1>3. CASE scenario = "ra" /\ RaInit BY <1>3, RaIni DEF DriversInv
  <1>4. CASE scenario = "at45" /\ AtInit BY <1>4, AtIni DEF DriversInv
  <1>5. CASE scenario = "settings" BY <1>5 DEF DriversInv
  <1> QED BY <1>1, <1>2, <1>3, <1>4, <1>5 DEF MCInit

LEMMA DriversStep == DriversInv /\ [MCNext]_allVars => DriversInv'
  <1> SUFFICES ASSUME DriversInv, [MCNext]_allVars PROVE DriversInv' OBVIOUS
  <1>1. scenario' = scenario BY DEF MCNext, allVars
  <1>2. scenario = "nor" => [NorNext]_norVars BY DEF MCNext, allVars
  <1>3. scenario = "ra" => [RaNext]_raVars
    <2>1. CASE UNCHANGED allVars BY <2>1 DEF allVars, norVars, raVars
    <2> QED BY <2>1 DEF MCNext
  <1>4. scenario = "at45" => [AtNext]_atVars BY DEF MCNext, allVars
  <1>5. scenario = "nor" => NorInv' BY <1>2, NorStep DEF DriversInv
  <1>6. scenario = "ra" => RaInv' BY <1>3, RaStep DEF DriversInv
  <1>7. scenario = "at45" => AtInv' BY <1>4, AtStep DEF DriversInv
  <1> QED BY <1>1, <1>5, <1>6, <1>7 DEF DriversInv

\* SpiNor, RaSpi and DataFlash: each of the three drivers keeps what it was told, in whichever scenario.
THEOREM FlashKeepsWhatItWasTold == MCSpec => []FlashAsTold
  <1>1. DriversInv => FlashAsTold
    <2>1. RaInv => RaAsTold BY DEF RaInv, RaHolds, RaWidths, RaAsTold, AsTold
    <2> QED BY <2>1, NorInvGives, AtInvGives DEF DriversInv, FlashAsTold
  <1>2. MCSpec => []DriversInv BY DriversIni, DriversStep, PTL DEF MCSpec
  <1> QED BY <1>1, <1>2, PTL
=============================================================================
