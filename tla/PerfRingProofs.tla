--------------------------- MODULE PerfRingProofs ---------------------------
(***************************************************************************)
(* Proofs about PerfRing, for any buffer size, any width of the server's   *)
(* counters that is a multiple of it, and records and fragments of any     *)
(* length: nothing unread is overwritten, and forwarding implements the    *)
(* FIFO of SampleFifo.                                                     *)
(***************************************************************************)
EXTENDS PerfRing, FiniteSetsExt, SequenceTheorems, TLAPS

-----------------------------------------------------------------------------
(***************************************************************************)
(* Remainders.                                                             *)
(***************************************************************************)

\* Quotient and remainder.
LEMMA DivMod ==
    ASSUME NEW n \in Nat \ {0}, NEW a \in Int
    PROVE  /\ a \div n \in Int
           /\ a % n \in 0..n - 1
           /\ a = n * (a \div n) + (a % n)
OBVIOUS

\* The remainder is the only one in its range.
LEMMA ModUnique ==
    ASSUME NEW n \in Nat \ {0}, NEW q \in Int, NEW r \in 0..n - 1
    PROVE  (n * q + r) % n = r
OBVIOUS

\* Numbers below n are their own remainders.
LEMMA ModSmall ==
    ASSUME NEW n \in Nat \ {0}, NEW a \in 0..n - 1
    PROVE  a % n = a
OBVIOUS

\* Adding multiples of n changes nothing.
LEMMA ModShift ==
    ASSUME NEW n \in Nat \ {0}, NEW a \in Int, NEW k \in Int
    PROVE  (a + n * k) % n = a % n
<1> DEFINE q == a \div n
           r == a % n
<1>1. q \in Int /\ r \in 0..n - 1 /\ a = n * q + r
  BY DivMod
<1> HIDE DEF q, r
<1>2. a + n * k = n * (q + k) + r /\ q + k \in Int
  BY <1>1
<1>3. (n * (q + k) + r) % n = r
  BY <1>1, <1>2, ModUnique
<1> QED
  BY <1>2, <1>3 DEF r

\* Numbers with the same remainder differ by a multiple of n.
LEMMA ModDiffer ==
    ASSUME NEW n \in Nat \ {0}, NEW a \in Int, NEW b \in Int, a % n = b % n
    PROVE  \E k \in Int : a = b + n * k
<1> DEFINE q == a \div n
           p == b \div n
<1>1. /\ q \in Int /\ p \in Int /\ a % n \in Int
      /\ a = n * q + (a % n) /\ b = n * p + (a % n)
  BY DivMod
<1> HIDE DEF q, p
<1>2. a = b + n * (q - p) /\ q - p \in Int
  BY <1>1
<1> QED
  BY <1>2

\* Equal remainders may replace each other in sums and differences.
LEMMA ModSame ==
    ASSUME NEW n \in Nat \ {0}, NEW a \in Int, NEW b \in Int, NEW c \in Int, a % n = b % n
    PROVE  /\ (a + c) % n = (b + c) % n
           /\ (a - c) % n = (b - c) % n
           /\ (c - a) % n = (c - b) % n
<1>1. PICK k \in Int : a = b + n * k
  BY ModDiffer
<1>2. (a + c) = (b + c) + n * k /\ (a - c) = (b - c) + n * k /\ (c - a) = (c - b) + n * (-k)
  BY <1>1
<1>3. /\ ((b + c) + n * k) % n = (b + c) % n
      /\ ((b - c) + n * k) % n = (b - c) % n
      /\ ((c - b) + n * (-k)) % n = (c - b) % n
  <2>1. b + c \in Int /\ b - c \in Int /\ c - b \in Int /\ -k \in Int
    OBVIOUS
  <2> QED
    BY <2>1, ModShift
<1> QED
  BY <1>2, <1>3

\* Truncating a counter to a multiple of n keeps its remainder.
LEMMA ModOfMod ==
    ASSUME NEW n \in Nat \ {0}, NEW m \in Nat \ {0}, NEW a \in Int, m % n = 0
    PROVE  (a % m) % n = a % n
<1> DEFINE q == a \div m
           p == m \div n
           r == a % m
<1>1. q \in Int /\ r \in Int /\ a = m * q + r
  BY DivMod
<1>2. p \in Int /\ m = n * p
  BY DivMod
<1> HIDE DEF q, p, r
<1>3. \A x, y, z \in Int : (x * y) * z = x * (y * z)
  OBVIOUS
<1>4. p * q \in Int /\ m * q = n * (p * q)
  BY <1>1, <1>2, <1>3
<1>5. a = r + n * (p * q)
  BY <1>1, <1>4
<1>6. (r + n * (p * q)) % n = r % n
  BY <1>1, <1>4, ModShift
<1> QED
  BY <1>5, <1>6 DEF r

\* Taking away no more than the remainder.
LEMMA ModLess ==
    ASSUME NEW n \in Nat \ {0}, NEW d \in Int, NEW x \in 0..(d % n)
    PROVE  (d - x) % n = (d % n) - x
<1> DEFINE q == d \div n
           r == d % n
<1>1. q \in Int /\ r \in 0..n - 1 /\ d = n * q + r /\ x \in 0..r
  BY DivMod
<1> HIDE DEF q, r
<1>2. r - x \in 0..n - 1 /\ d - x = n * q + (r - x)
  BY <1>1
<1>3. (n * q + (r - x)) % n = r - x
  BY <1>1, <1>2, ModUnique
<1> QED
  BY <1>2, <1>3 DEF r

\* The code's MIN() is the least of two.
LEMMA MinOfTwo ==
    ASSUME NEW a \in Int, NEW b \in Int
    PROVE  Min({a, b}) = IF a <= b THEN a ELSE b
<1> DEFINE m == IF a <= b THEN a ELSE b
<1>1. m \in {a, b} /\ \A y \in {a, b} : m <= y
  OBVIOUS
<1>2. \A x \in {a, b} : (\A y \in {a, b} : x <= y) => x = m
  OBVIOUS
<1> QED
  BY <1>1, <1>2 DEF Min

-----------------------------------------------------------------------------
(***************************************************************************)
(* The inductive invariant.  The counters the server and the kernel share  *)
(* are remainders; it relates them to the number of units that were        *)
(* received and to the number that was given back to the kernel.           *)
(***************************************************************************)

\* Units given back: those received, but for the message that is being sent.
Released == IF pc = "flushing" THEN Len(received) - (tail - data_tail) ELSE Len(received)

InStep ==
    /\ Released \in Nat /\ Released <= Len(received)
    /\ Len(received) <= data_head
    /\ data_head + copied <= MaxHead
    /\ data_head + copied < Released + Size
    /\ data_tail % Size = Released % Size

\* While a message is sent, what is left of it was published.
MessageLeft ==
    pc = "flushing" => /\ tail % Size = Len(received) % Size
                       /\ Len(received) + TAKEN(head, tail) <= data_head

InOrder == \A n \in 1..Len(received) : received[n] = n

\* UnreadIntact, for the record that the kernel is copying too.
Intact == \A n \in Len(received) + 1..data_head + copied : buffer[(n - 1) % Size] = n

IInv == TypeOK /\ InStep /\ MessageLeft /\ InOrder /\ Intact

\* An empty buffer and nothing read.
LEMMA InitInductive == Init => IInv
<1> SUFFICES ASSUME Init
             PROVE  IInv
  OBVIOUS
<1> USE RingAssumption DEF Init
<1>1. TypeOK
  BY DEF TypeOK
<1>2. InStep
  BY DEF InStep, Released
<1>3. MessageLeft /\ InOrder /\ Intact
  BY DEF MessageLeft, InOrder, Intact
<1> QED
  BY <1>1, <1>2, <1>3 DEF IInv

\* What the proofs use of the invariant: numbers.
LEMMA Numbers ==
    ASSUME IInv
    PROVE  /\ Len(received) \in Nat /\ Released \in Nat
           /\ data_head \in Nat /\ copied \in Nat /\ data_tail \in Nat
           /\ tail \in Nat /\ head \in Nat
           /\ Size \in Nat \ {0} /\ Word \in Nat \ {0} /\ Word % Size = 0
           /\ received \in Seq(0..MaxHead)
BY RingAssumption DEF IInv, TypeOK, InStep

\* The kernel's count of the units it may not overwrite is exact.
LEMMA KernelTaken ==
    ASSUME IInv
    PROVE  TAKEN(data_head, data_tail) = data_head - Released
<1>1. /\ data_head \in Int /\ data_tail \in Int /\ Released \in Int /\ Size \in Nat \ {0}
      /\ data_tail % Size = Released % Size
      /\ data_head - Released \in 0..Size - 1
  BY Numbers DEF IInv, InStep
<1> HIDE DEF Released
<1>2. (data_head - data_tail) % Size = (data_head - Released) % Size
  BY <1>1, ModSame
<1> QED
  BY <1>1, <1>2, ModSmall DEF TAKEN

-----------------------------------------------------------------------------
(***************************************************************************)
(* The kernel's steps.                                                     *)
(***************************************************************************)

\* A record goes where nothing unread is: the positions of the units from the
\* first unread one to the last of the record differ.
LEMMA BeginIntact ==
    ASSUME IInv, NEW n \in 1..MaxRecord, perf_output_begin(n)
    PROVE  Intact'
<1> DEFINE R == Len(received)
           H == data_head
<1>1. /\ copied = 0 /\ copied' = n /\ data_head' = H /\ received' = received
      /\ buffer' = [i \in 0..Size - 1 |->
                      IF (i - H) % Size < n THEN H + ((i - H) % Size) + 1 ELSE buffer[i]]
      /\ n < Size - TAKEN(H, data_tail)
  BY DEF perf_output_begin
<1>2. R \in Nat /\ H \in Nat /\ n \in Nat \ {0} /\ Size \in Nat \ {0} /\ Released \in Nat
  BY Numbers, RingAssumption
<1>3. n < Size - (H - R) /\ R <= H
  BY <1>1, <1>2, KernelTaken DEF IInv, InStep
<1> HIDE DEF R, H
<1>4. SUFFICES ASSUME NEW x \in R + 1..H + n
               PROVE  buffer'[(x - 1) % Size] = x
  BY <1>1 DEF Intact, R, H
<1> DEFINE i == (x - 1) % Size
           k == (i - H) % Size
<1>5. x \in Int /\ x >= R + 1 /\ x <= H + n
  BY <1>2
<1>6. i \in 0..Size - 1 /\ i % Size = (x - 1) % Size
  <2>1. i \in 0..Size - 1
    BY <1>2, <1>5, DivMod
  <2> QED
    BY <1>2, <2>1, ModSmall
<1>7. k = (x - 1 - H) % Size
  <2>1. i \in Int /\ x - 1 \in Int /\ H \in Int
    BY <1>2, <1>5, <1>6
  <2> HIDE DEF i
  <2> QED
    BY <1>2, <1>6, <2>1, ModSame
<1>8. buffer'[i] = IF k < n THEN H + k + 1 ELSE buffer[i]
  BY <1>1, <1>6
<1> HIDE DEF i, k
<1>9. CASE x > H
  <2>1. x - 1 - H \in 0..Size - 1 /\ x - 1 - H < n
    BY <1>2, <1>3, <1>5, <1>9
  <2>2. k = x - 1 - H
    BY <1>2, <1>7, <2>1, ModSmall
  <2> QED
    BY <1>2, <1>5, <1>8, <2>1, <2>2 DEF i
<1>10. CASE x <= H
  <2>1. x - 1 - H + Size \in 0..Size - 1 /\ x - 1 - H + Size >= n
    BY <1>2, <1>3, <1>5, <1>10
  <2>2. (x - 1 - H) % Size = (x - 1 - H + Size * 1) % Size /\ Size * 1 = Size
    <3> DEFINE y == x - 1 - H
    <3>1. y \in Int /\ 1 \in Int /\ Size * 1 = Size
      BY <1>2, <1>5
    <3> HIDE DEF y
    <3>2. (y + Size * 1) % Size = y % Size
      BY <1>2, <3>1, ModShift
    <3> QED
      BY <3>1, <3>2 DEF y
  <2>3. k = x - 1 - H + Size
    BY <1>2, <1>7, <2>1, <2>2, ModSmall
  <2>4. ~(k < n)
    BY <1>2, <1>5, <2>1, <2>3
  <2>5. x \in R + 1..H + copied
    BY <1>1, <1>2, <1>5, <1>10
  <2>6. buffer[i] = x
    BY <2>5 DEF IInv, Intact, R, H, i
  <2> QED
    BY <1>8, <2>4, <2>6 DEF i
<1> QED
  BY <1>2, <1>5, <1>9, <1>10

\* The kernel copies a record into room that was given back.
LEMMA BeginInductive ==
    ASSUME IInv, NEW n \in 1..MaxRecord, perf_output_begin(n)
    PROVE  IInv'
<1>1. /\ copied = 0 /\ copied' = n /\ data_head + n <= MaxHead
      /\ n < Size - TAKEN(data_head, data_tail)
      /\ buffer' = [i \in 0..Size - 1 |->
                      IF (i - data_head) % Size < n THEN data_head + ((i - data_head) % Size) + 1
                      ELSE buffer[i]]
      /\ UNCHANGED <<data_head, data_tail, pc, head, tail, received>>
  BY DEF perf_output_begin
<1>2. /\ data_head \in Nat /\ n \in Nat \ {0} /\ Size \in Nat \ {0} /\ Released \in Nat
      /\ MaxHead \in Nat
  BY Numbers, RingAssumption
<1>3. buffer' \in [0..Size - 1 -> 0..MaxHead]
  <2>1. SUFFICES ASSUME NEW i \in 0..Size - 1
                 PROVE  buffer'[i] \in 0..MaxHead
    BY <1>1
  <2>2. (i - data_head) % Size \in Nat
    BY <1>2, DivMod
  <2>3. buffer[i] \in 0..MaxHead
    BY DEF IInv, TypeOK
  <2> DEFINE k == (i - data_head) % Size
  <2>4. buffer'[i] = IF k < n THEN data_head + k + 1 ELSE buffer[i]
    BY <1>1
  <2> HIDE DEF k
  <2> QED
    BY <1>1, <1>2, <2>2, <2>3, <2>4 DEF k
<1>4. TypeOK'
  BY <1>1, <1>3, RingAssumption DEF IInv, TypeOK
<1>5. Released' = Released
  BY <1>1 DEF Released
<1>6. n < Size - (data_head - Released)
  BY <1>1, KernelTaken
<1>7. InStep'
  BY <1>1, <1>2, <1>5, <1>6 DEF IInv, InStep
<1>8. MessageLeft' /\ InOrder'
  BY <1>1 DEF IInv, MessageLeft, InOrder, TAKEN
<1> QED
  BY <1>4, <1>7, <1>8, BeginIntact DEF IInv

\* The kernel publishes the record.
LEMMA EndInductive ==
    ASSUME IInv, perf_output_end
    PROVE  IInv'
<1>1. /\ data_head' = data_head + copied /\ copied' = 0
      /\ UNCHANGED <<buffer, data_tail, pc, head, tail, received>>
  BY DEF perf_output_end
<1>2. /\ data_head \in Nat /\ copied \in Nat /\ MaxHead \in Nat /\ MaxRecord \in Nat
      /\ Len(received) \in Nat /\ Released \in Nat /\ Size \in Nat
  BY Numbers, RingAssumption
<1>3. Released' = Released
  BY <1>1 DEF Released
<1>4. TypeOK' /\ InStep'
  BY <1>1, <1>2, <1>3 DEF IInv, TypeOK, InStep
<1>5. MessageLeft'
  <2>1. ASSUME pc = "flushing"
        PROVE  TAKEN(head, tail) \in Int
    <3>1. head - tail \in Int /\ Size \in Nat \ {0}
      BY Numbers
    <3> QED
      BY <3>1, DivMod DEF TAKEN
  <2> QED
    BY <1>1, <1>2, <2>1 DEF IInv, MessageLeft, TAKEN
<1>6. InOrder' /\ Intact'
  BY <1>1, <1>2 DEF IInv, InOrder, Intact
<1> QED
  BY <1>4, <1>5, <1>6 DEF IInv

-----------------------------------------------------------------------------
(***************************************************************************)
(* The server's steps.                                                     *)
(***************************************************************************)

\* Looking for data changes nothing.
LEMMA PendingInductive ==
    ASSUME IInv, perf_stream_data_pending
    PROVE  IInv'
<1>1. pc = "idle" /\ pc' = "pending"
  BY DEF perf_stream_data_pending
<1>2. UNCHANGED <<data_head, copied, buffer, data_tail, head, tail, received>>
  BY DEF perf_stream_data_pending, kernelVars
<1>3. Released' = Released
  BY <1>1, <1>2 DEF Released
<1> QED
  BY <1>1, <1>2, <1>3 DEF IInv, TypeOK, InStep, MessageLeft, InOrder, Intact

\* The message is what is between the truncated head and tail: all that was
\* published and not received.
LEMMA FlushInductive ==
    ASSUME IInv, flush_perf_stream_samples
    PROVE  IInv'
<1>1. /\ pc = "pending" /\ pc' = "flushing"
      /\ head' = data_head % Word /\ tail' = data_tail
      /\ UNCHANGED <<data_head, copied, buffer, data_tail, received>>
  BY DEF flush_perf_stream_samples, kernelVars, read_perf_head
<1>2. /\ data_head \in Nat /\ data_tail \in Nat /\ Len(received) \in Nat
      /\ Size \in Nat \ {0} /\ Word \in Nat \ {0} /\ Word % Size = 0
  BY Numbers
<1>3. Released = Len(received) /\ Released' = Len(received)
  BY <1>1, <1>2 DEF Released
<1>4. data_head % Word \in 0..Word - 1
  BY <1>2, DivMod
<1>5. TypeOK'
  BY <1>1, <1>2, <1>4, RingAssumption DEF IInv, TypeOK
<1>6. InStep'
  BY <1>1, <1>3 DEF IInv, InStep
<1>7. TAKEN(data_head % Word, data_tail) = TAKEN(data_head, data_tail)
  <2> DEFINE h == data_head % Word
  <2>1. data_head \in Int /\ h \in Int /\ data_tail \in Int
    BY <1>2, <1>4
  <2>2. h % Size = data_head % Size
    BY <1>2, <2>1, ModOfMod
  <2> HIDE DEF h
  <2>3. (h - data_tail) % Size = (data_head - data_tail) % Size
    BY <1>2, <2>1, <2>2, ModSame, ZenonT(60)
  <2> QED
    BY <2>3 DEF TAKEN, h
<1>8. MessageLeft'
  BY <1>1, <1>2, <1>3, <1>7, KernelTaken, SMTT(60) DEF IInv, InStep, MessageLeft, TAKEN
<1>9. InOrder' /\ Intact'
  BY <1>1 DEF IInv, InOrder, Intact
<1> QED
  BY <1>5, <1>6, <1>8, <1>9 DEF IInv

\* Reading x units of the message leaves x fewer, wherever the buffer ends.
LEMMA TakenLess ==
    ASSUME IInv, NEW x \in 0..TAKEN(head, tail)
    PROVE  /\ TAKEN(head, tail) \in 0..Size - 1
           /\ TAKEN(head, tail + x) = TAKEN(head, tail) - x
<1>1. /\ Size \in Nat \ {0} /\ head \in Int /\ tail \in Int
      /\ head - tail \in Int /\ x \in 0..((head - tail) % Size)
  BY Numbers DEF TAKEN
<1>2. (head - tail) % Size \in 0..Size - 1
  BY <1>1, DivMod
<1>3. ((head - tail) - x) % Size = ((head - tail) % Size) - x
  BY <1>1, ModLess
<1>4. head - (tail + x) = (head - tail) - x
  BY <1>1, <1>2
<1> QED
  BY <1>2, <1>3, <1>4 DEF TAKEN

\* Copying n units of the message that do not cross the end of the buffer
\* copies the n units that follow the x already read.
LEMMA MemcpyUnits ==
    ASSUME IInv, pc = "flushing", NEW x \in Nat, NEW n \in Nat,
           x + n <= TAKEN(head, tail), offset(tail + x) + n <= Size
    PROVE  memcpy(offset(tail + x), n) = [k \in 1..n |-> Len(received) + x + k]
<1> DEFINE R == Len(received)
           p == offset(tail + x)
<1>1. R \in Nat /\ Size \in Nat \ {0} /\ tail \in Nat /\ data_head \in Nat /\ copied \in Nat
  BY Numbers
<1>2. tail % Size = R % Size /\ R + TAKEN(head, tail) <= data_head
  BY DEF IInv, MessageLeft
<1>3. TAKEN(head, tail) \in Int
  <2>1. head - tail \in Int /\ Size \in Nat \ {0}
    BY Numbers
  <2> QED
    BY <2>1, DivMod DEF TAKEN
<1>4. p \in 0..Size - 1 /\ p + n <= Size /\ p = (tail + x) % Size
  <2>1. tail + x \in Int
    BY <1>1
  <2> QED
    BY <1>1, <2>1, DivMod DEF offset
<1> HIDE DEF R, p
<1>5. ASSUME NEW k \in 1..n
      PROVE  p + k - 1 < Size /\ buffer[p + k - 1] = R + x + k
  <2>1. p + k - 1 \in 0..Size - 1 /\ k \in Int /\ k >= 1 /\ k <= n
    BY <1>1, <1>4
  <2>2. p % Size = (tail + x) % Size
    BY <1>1, <1>4, ModSmall
  <2>3. (tail + x) % Size = (R + x) % Size
    <3>1. tail \in Int /\ R \in Int /\ x \in Int
      BY <1>1
    <3> QED
      BY <1>1, <1>2, <3>1, ModSame, Zenon
  <2>4. (p + (k - 1)) % Size = ((R + x) + (k - 1)) % Size
    <3>1. p \in Int /\ R + x \in Int /\ k - 1 \in Int
      BY <1>1, <1>4, <2>1
    <3>2. p % Size = (R + x) % Size
      BY <2>2, <2>3
    <3> QED
      BY <1>1, <3>1, <3>2, ModSame, Zenon
  <2>5. (p + k - 1) % Size = p + k - 1
    BY <1>1, <2>1, ModSmall
  <2>6. p + (k - 1) = p + k - 1 /\ (R + x) + (k - 1) = (R + x + k) - 1
    BY <1>1, <1>4, <2>1
  <2>7. R + x + k \in R + 1..data_head + copied
    BY <1>1, <1>2, <1>3, <2>1
  <2>8. buffer[((R + x + k) - 1) % Size] = R + x + k
    BY <2>7 DEF IInv, Intact, R
  <2>9. p + k - 1 = ((R + x + k) - 1) % Size
    BY <2>4, <2>5, <2>6, Zenon
  <2>10. p + k - 1 < Size
    BY <1>1, <2>1
  <2> QED
    BY <2>8, <2>9, <2>10, Zenon
<1>6. memcpy(p, n) = [k \in 1..n |-> R + x + k]
  BY <1>5 DEF memcpy
<1> QED
  BY <1>6 DEF R, p

\* Units in order, continued in order.
LEMMA Continue ==
    ASSUME NEW q \in Seq(0..MaxHead), \A i \in 1..Len(q) : q[i] = i,
           NEW n \in Nat, Len(q) + n <= MaxHead
    PROVE  LET r == q \o [k \in 1..n |-> Len(q) + k] IN
           /\ r \in Seq(0..MaxHead)
           /\ Len(r) = Len(q) + n
           /\ \A i \in 1..Len(r) : r[i] = i
<1> DEFINE m == Len(q)
           t == [k \in 1..n |-> m + k]
           r == q \o t
<1>1. m \in Nat /\ MaxHead \in Nat /\ m + n <= MaxHead
  BY RingAssumption
<1>2. t \in Seq(0..MaxHead) /\ Len(t) = n /\ \A k \in 1..n : t[k] = m + k
  <2>1. t \in [1..n -> 0..MaxHead]
    BY <1>1
  <2>2. [1..n -> 0..MaxHead] \subseteq Seq(0..MaxHead)
    BY SeqDef
  <2>3. t \in Seq(0..MaxHead) /\ DOMAIN t = 1..n
    BY <2>1, <2>2
  <2>4. Len(t) \in Nat /\ 1..Len(t) = 1..n
    BY <2>3, LenProperties
  <2> QED
    BY <2>3, <2>4
<1> HIDE DEF t
<1>3. /\ r \in Seq(0..MaxHead) /\ Len(r) = m + n
      /\ \A i \in 1..m + n : r[i] = IF i <= m THEN q[i] ELSE t[i - m]
  BY <1>2, ConcatProperties
<1>4. ASSUME NEW i \in 1..m + n
      PROVE  r[i] = i
  <2>1. CASE i <= m
    BY <1>1, <1>3, <2>1
  <2>2. CASE ~(i <= m)
    <3>1. i - m \in 1..n /\ m + (i - m) = i
      BY <1>1, <2>2
    <3> QED
      BY <1>2, <1>3, <2>2, <3>1
  <2> QED
    BY <2>1, <2>2
<1> QED
  BY <1>3, <1>4 DEF t

\* How much fragmented_perf_read_cb() copies before the end of the buffer and
\* after it: never more than the message has, and never across the end.
LEMMA ReadAmounts ==
    ASSUME IInv, NEW len \in Nat
    PROVE  LET before == IF offset(head) < offset(tail)
                         THEN Min({Size - offset(tail), len}) ELSE 0
               rest == Min({TAKEN(head, tail + before), len - before})
           IN  /\ before \in Nat /\ rest \in Nat
               /\ before + rest <= TAKEN(head, tail)
               /\ offset(tail) + before <= Size
               /\ offset(tail + before) + rest <= Size
               /\ TAKEN(head, tail + before + rest) = TAKEN(head, tail) - (before + rest)
<1> DEFINE h == offset(head)
           t == offset(tail)
           P == TAKEN(head, tail)
           before == IF h < t THEN Min({Size - t, len}) ELSE 0
           rest == Min({TAKEN(head, tail + before), len - before})
<1>1. Size \in Nat \ {0} /\ head \in Int /\ tail \in Int
  BY Numbers
<1>2. h \in 0..Size - 1 /\ t \in 0..Size - 1
  BY <1>1, DivMod DEF offset
<1>3. P = IF h < t THEN h - t + Size ELSE h - t
  <2> DEFINE q == head \div Size
             p == tail \div Size
  <2>1. q \in Int /\ p \in Int /\ head = Size * q + h /\ tail = Size * p + t
    BY <1>1, DivMod DEF offset
  <2> HIDE DEF q, p, h, t
  <2>2. CASE h < t
    <3>1. h - t + Size \in 0..Size - 1 /\ q - p - 1 \in Int
      BY <1>1, <1>2, <2>1, <2>2
    <3>2. head - tail = Size * (q - p - 1) + (h - t + Size)
      BY <1>1, <1>2, <2>1
    <3>3. (Size * (q - p - 1) + (h - t + Size)) % Size = h - t + Size
      BY <1>1, <3>1, ModUnique
    <3> QED
      BY <2>2, <3>2, <3>3 DEF TAKEN
  <2>3. CASE ~(h < t)
    <3>1. h - t \in 0..Size - 1 /\ q - p \in Int
      BY <1>1, <1>2, <2>1, <2>3
    <3>2. head - tail = Size * (q - p) + (h - t)
      BY <1>1, <1>2, <2>1
    <3>3. (Size * (q - p) + (h - t)) % Size = h - t
      BY <1>1, <3>1, ModUnique
    <3> QED
      BY <2>3, <3>2, <3>3 DEF TAKEN
  <2> QED
    BY <2>2, <2>3
<1>4. /\ P \in 0..Size - 1
      /\ \A x \in 0..P : TAKEN(head, tail + x) = P - x
  <2>1. head - tail \in Int
    BY <1>1
  <2>2. P \in 0..Size - 1
    BY <1>1, <2>1, DivMod DEF TAKEN
  <2> QED
    BY <2>2, TakenLess
<1> HIDE DEF h, t, P
<1>5. /\ before \in Nat /\ before <= P /\ before <= len /\ t + before <= Size
      /\ h < t => before = Size - t \/ before = len
      /\ ~(h < t) => before = 0
  <2>1. Size - t \in Int /\ len \in Int
    BY <1>1, <1>2
  <2>2. Min({Size - t, len}) = IF Size - t <= len THEN Size - t ELSE len
    BY <2>1, MinOfTwo
  <2> QED
    BY <1>1, <1>2, <1>3, <2>2
<1> HIDE DEF before
<1>6. TAKEN(head, tail + before) = P - before
  BY <1>4, <1>5
<1>7. rest = IF P - before <= len - before THEN P - before ELSE len - before
  <2>1. P - before \in Int /\ len - before \in Int
    BY <1>4, <1>5
  <2> QED
    BY <1>6, <2>1, MinOfTwo
<1> HIDE DEF rest
<1>8. rest \in Nat /\ before + rest <= P
  BY <1>4, <1>5, <1>7
<1>9. TAKEN(head, tail + before + rest) = P - (before + rest)
  <2>1. before + rest \in 0..P /\ tail + before + rest = tail + (before + rest)
    BY <1>1, <1>4, <1>5, <1>8
  <2> QED
    BY <1>4, <2>1
<1>10. offset(tail + before) + rest <= Size
  <2>1. offset(tail + before) \in 0..Size - 1
    <3>1. tail + before \in Int
      BY <1>1, <1>5
    <3> QED
      BY <1>1, <3>1, DivMod DEF offset
  <2>2. CASE rest = 0
    BY <1>1, <2>1, <2>2
  <2>3. CASE h < t /\ rest # 0
    <3>1. before = Size - t
      BY <1>2, <1>4, <1>5, <1>7, <2>3
    <3>2. offset(tail + before) = 0
      <4> DEFINE p == tail \div Size
      <4>1. p \in Int /\ tail = Size * p + t
        BY <1>1, DivMod DEF offset, t
      <4> HIDE DEF p
      <4>2. tail + before = Size * (p + 1) + 0 /\ p + 1 \in Int /\ 0 \in 0..Size - 1
        BY <1>1, <1>2, <3>1, <4>1
      <4>3. (Size * (p + 1) + 0) % Size = 0
        BY <1>1, <4>2, ModUnique
      <4> QED
        BY <4>2, <4>3 DEF offset
    <3> QED
      BY <1>1, <1>4, <1>5, <1>8, <3>2
  <2>4. CASE ~(h < t)
    <3>1. before = 0 /\ tail + before = tail
      BY <1>1, <1>5, <2>4
    <3>2. t + rest <= Size
      BY <1>1, <1>2, <1>3, <1>8, <2>4, <3>1
    <3> QED
      BY <3>1, <3>2 DEF t
  <2> QED
    BY <2>2, <2>3, <2>4
<1> QED
  BY <1>5, <1>8, <1>9, <1>10 DEF h, t, P, before, rest

\* A fragment carries the units that come next, as many as it has room for.
LEMMA ReadUnits ==
    ASSUME IInv, NEW len \in 1..MaxLen, fragmented_perf_read_cb(len)
    PROVE  \E n \in 0..TAKEN(head, tail) :
              /\ tail' = tail + n
              /\ TAKEN(head, tail') = TAKEN(head, tail) - n
              /\ received' \in Seq(0..MaxHead)
              /\ Len(received') = Len(received) + n
              /\ \A i \in 1..Len(received') : received'[i] = i
<1> DEFINE before == IF offset(head) < offset(tail)
                     THEN Min({Size - offset(tail), len}) ELSE 0
           rest == Min({TAKEN(head, tail + before), len - before})
           P == TAKEN(head, tail)
           R == Len(received)
<1>1. /\ pc = "flushing"
      /\ tail' = tail + before + rest
      /\ received' = received \o memcpy(offset(tail), before)
                              \o memcpy(offset(tail + before), rest)
  BY DEF fragmented_perf_read_cb
<1>2. /\ before \in Nat /\ rest \in Nat /\ before + rest <= P
      /\ offset(tail) + before <= Size /\ offset(tail + before) + rest <= Size
      /\ TAKEN(head, tail + before + rest) = P - (before + rest)
  <2>1. len \in Nat
    BY RingAssumption
  <2> QED
    BY <2>1, ReadAmounts
<1> HIDE DEF before, rest
<1>3. R \in Nat /\ tail \in Nat /\ received \in Seq(0..MaxHead) /\ data_head \in Nat
  BY Numbers
<1>4. P \in Int /\ R + P <= MaxHead /\ MaxHead \in Nat
  <2>1. head - tail \in Int /\ Size \in Nat \ {0} /\ copied \in Nat
    BY Numbers
  <2>2. P \in Int
    BY <2>1, DivMod DEF TAKEN
  <2> QED
    BY <1>1, <1>3, <2>1, <2>2, RingAssumption DEF IInv, InStep, MessageLeft
<1> HIDE DEF P
<1>5. memcpy(offset(tail), before) = [k \in 1..before |-> R + k]
  <2>1. tail + 0 = tail /\ 0 + before <= P /\ offset(tail + 0) + before <= Size
    BY <1>2, <1>3, <1>4
  <2>2. memcpy(offset(tail + 0), before) = [k \in 1..before |-> R + 0 + k]
    BY <1>1, <1>2, <2>1, MemcpyUnits DEF P
  <2> QED
    BY <1>3, <2>1, <2>2
<1>6. memcpy(offset(tail + before), rest) = [k \in 1..rest |-> R + before + k]
  BY <1>1, <1>2, MemcpyUnits DEF P
<1>7. \A i \in 1..R : received[i] = i
  BY DEF IInv, InOrder
<1> DEFINE s == received \o [k \in 1..before |-> R + k]
<1>8. s \in Seq(0..MaxHead) /\ Len(s) = R + before /\ \A i \in 1..Len(s) : s[i] = i
  <2>1. R + before <= MaxHead
    BY <1>2, <1>3, <1>4
  <2> QED
    BY <1>2, <1>3, <1>7, <2>1, Continue
<1>9. received' = s \o [k \in 1..rest |-> R + before + k]
  BY <1>1, <1>5, <1>6
<1> HIDE DEF s, R
<1>10. /\ received' \in Seq(0..MaxHead) /\ Len(received') = R + (before + rest)
       /\ \A i \in 1..Len(received') : received'[i] = i
  <2>1. Len(s) + rest <= MaxHead
    BY <1>2, <1>3, <1>4, <1>8
  <2>2. received' = s \o [k \in 1..rest |-> Len(s) + k]
    BY <1>8, <1>9
  <2>3. /\ received' \in Seq(0..MaxHead) /\ Len(received') = Len(s) + rest
        /\ \A i \in 1..Len(received') : received'[i] = i
    BY <1>2, <1>8, <2>1, <2>2, Continue
  <2> QED
    BY <1>2, <1>3, <1>8, <2>3
<1>11. tail' = tail + (before + rest) /\ before + rest \in 0..P
  BY <1>1, <1>2, <1>3, <1>4
<1>12. TAKEN(head, tail') = P - (before + rest)
  BY <1>1, <1>2
<1> QED
  BY <1>10, <1>11, <1>12 DEF P, R

\* A fragment is copied.
LEMMA ReadInductive ==
    ASSUME IInv, NEW len \in 1..MaxLen, fragmented_perf_read_cb(len)
    PROVE  IInv'
<1> DEFINE P == TAKEN(head, tail)
           R == Len(received)
<1>1. PICK n \in 0..P :
         /\ tail' = tail + n
         /\ TAKEN(head, tail') = P - n
         /\ received' \in Seq(0..MaxHead)
         /\ Len(received') = R + n
         /\ \A i \in 1..Len(received') : received'[i] = i
  BY ReadUnits
<1>2. /\ pc = "flushing" /\ head' = head
      /\ data_head' = data_head /\ copied' = copied /\ buffer' = buffer
  BY DEF fragmented_perf_read_cb, kernelVars
<1>3. \/ TAKEN(head, tail') = 0 /\ data_tail' = tail' % Word /\ pc' = "idle"
      \/ TAKEN(head, tail') # 0 /\ data_tail' = data_tail /\ pc' = pc
  BY DEF fragmented_perf_read_cb, write_perf_tail
<1>4. /\ R \in Nat /\ tail \in Nat /\ head \in Nat /\ data_head \in Nat /\ copied \in Nat
      /\ data_tail \in Nat /\ Size \in Nat \ {0} /\ Word \in Nat \ {0} /\ Word % Size = 0
  BY Numbers
<1>5. P \in 0..Size - 1
  <2>1. head - tail \in Int
    BY <1>4
  <2> QED
    BY <1>4, <2>1, DivMod DEF TAKEN
<1>6. /\ tail % Size = R % Size /\ R + P <= data_head
      /\ Released = R - (tail - data_tail) /\ Released \in Nat /\ Released <= R
      /\ data_head + copied <= MaxHead /\ data_head + copied < Released + Size
      /\ data_tail % Size = Released % Size
  BY <1>2 DEF IInv, InStep, MessageLeft, Released
<1> HIDE DEF P, R
<1>7. n \in Nat /\ n <= P
  BY <1>5
<1>8. tail' % Size = Len(received') % Size
  <2>1. tail \in Int /\ R \in Int /\ n \in Int
    BY <1>4, <1>7
  <2>2. (tail + n) % Size = (R + n) % Size
    BY <1>4, <1>6, <2>1, ModSame, ZenonT(60)
  <2> QED
    BY <1>1, <2>2
<1>9. InStep' /\ data_tail' \in 0..Word - 1 /\ Released' \in Nat
  <2>1. CASE TAKEN(head, tail') = 0 /\ data_tail' = tail' % Word /\ pc' = "idle"
    <3>1. Released' = R + n
      BY <1>1, <2>1 DEF Released
    <3>2. tail' \in Int /\ tail' % Word \in 0..Word - 1
      <4>1. tail' \in Int
        BY <1>1, <1>4, <1>7
      <4> QED
        BY <1>4, <4>1, DivMod
    <3>3. (tail' % Word) % Size = tail' % Size
      BY <1>4, <3>2, ModOfMod
    <3>4. data_tail' % Size = Released' % Size
      BY <1>1, <1>8, <2>1, <3>1, <3>3
    <3> QED
      BY <1>1, <1>2, <1>4, <1>5, <1>6, <1>7, <2>1, <3>1, <3>2, <3>4, SMTT(60) DEF InStep
  <2>2. CASE data_tail' = data_tail /\ pc' = pc
    <3>1. Released' = (R + n) - ((tail + n) - data_tail)
      BY <1>1, <1>2, <2>2 DEF Released
    <3>2. Released' = Released
      BY <1>4, <1>6, <1>7, <3>1
    <3>3. data_tail \in 0..Word - 1
      BY DEF IInv, TypeOK
    <3> QED
      BY <1>1, <1>2, <1>4, <1>5, <1>6, <1>7, <2>2, <3>2, <3>3 DEF InStep
  <2> QED
    BY <1>3, <2>1, <2>2
<1>10. TypeOK'
  <2>1. tail' \in 0..Word + Size - 1
    <3>1. data_tail <= Word - 1 /\ Released >= 0 /\ tail = data_tail + (R - Released)
      BY <1>4, <1>6 DEF IInv, TypeOK
    <3> QED
      BY <1>1, <1>4, <1>5, <1>6, <1>7, <3>1
  <2>2. pc' \in {"idle", "pending", "flushing"}
    BY <1>2, <1>3
  <2> QED
    BY <1>1, <1>2, <1>9, <2>1, <2>2 DEF IInv, TypeOK
<1>11. MessageLeft'
  <2>1. Len(received') + TAKEN(head, tail') <= data_head
    BY <1>1, <1>4, <1>5, <1>6, <1>7
  <2> QED
    BY <1>2, <1>8, <2>1 DEF MessageLeft, TAKEN
<1>12. InOrder'
  BY <1>1 DEF InOrder
<1>13. Intact'
  BY <1>1, <1>2, <1>4, <1>7 DEF IInv, Intact, R
<1> QED
  BY <1>9, <1>10, <1>11, <1>12, <1>13 DEF IInv

\* Every step preserves the invariant.
LEMMA NextInductive ==
    ASSUME IInv, [Next]_vars
    PROVE  IInv'
<1>1. CASE UNCHANGED vars
  BY <1>1 DEF vars, kernelVars, IInv, TypeOK, InStep, Released, MessageLeft, InOrder, Intact, TAKEN
<1>2. CASE kernel
  BY <1>2, EndInductive, BeginInductive DEF kernel
<1>3. CASE server
  BY <1>3, PendingInductive, FlushInductive, ReadInductive DEF server
<1> QED
  BY <1>1, <1>2, <1>3 DEF Next

-----------------------------------------------------------------------------
(***************************************************************************)
(* The theorems.                                                           *)
(***************************************************************************)

\* Every reachable state satisfies the inductive invariant.
THEOREM Inductive == Spec => []IInv
BY InitInductive, NextInductive, PTL DEF Spec

\* Every variable has its type; in particular the tail, which the server
\* counts on past the truncation, stays below the word and the buffer.
THEOREM TypeCorrect == Spec => []TypeOK
<1>1. IInv => TypeOK
  BY DEF IInv
<1> QED
  BY <1>1, Inductive, PTL

\* The kernel overwrites nothing that the server is still to read.
THEOREM NothingOverwritten == Spec => []UnreadIntact
<1>1. ASSUME IInv
      PROVE  UnreadIntact
  <2>1. data_head \in Nat /\ copied \in Nat /\ Len(received) \in Nat
    BY <1>1, Numbers
  <2> QED
    BY <1>1, <2>1 DEF IInv, Intact, UnreadIntact
<1> QED
  BY <1>1, Inductive, PTL

\* A step of the ring is a step of the FIFO or leaves what it shows alone.
LEMMA StepSimulation ==
    ASSUME IInv, [Next]_vars
    PROVE  [Fifo!Next]_<<data_head, received>>
<1>1. CASE UNCHANGED vars
  BY <1>1 DEF vars, kernelVars
<1>2. CASE perf_output_end
  <2>1. data_head' = data_head + copied /\ copied > 0 /\ received' = received
    BY <1>2 DEF perf_output_end
  <2>2. data_head \in Nat /\ copied \in Nat
    BY Numbers
  <2>3. data_head' \in Nat /\ data_head' > data_head
    BY <2>1, <2>2
  <2> QED
    BY <2>1, <2>3 DEF Fifo!Next, Fifo!Publish
<1>3. CASE \E n \in 1..MaxRecord : perf_output_begin(n)
  BY <1>3 DEF perf_output_begin
<1>4. CASE perf_stream_data_pending \/ flush_perf_stream_samples
  BY <1>4 DEF perf_stream_data_pending, flush_perf_stream_samples, kernelVars
<1>5. CASE \E len \in 1..MaxLen : fragmented_perf_read_cb(len)
  <2>1. PICK len \in 1..MaxLen : fragmented_perf_read_cb(len)
    BY <1>5
  <2> DEFINE P == TAKEN(head, tail)
             R == Len(received)
  <2>2. PICK n \in 0..P :
           /\ received' \in Seq(0..MaxHead)
           /\ Len(received') = R + n
           /\ \A i \in 1..Len(received') : received'[i] = i
    BY <2>1, ReadUnits
  <2>3. data_head' = data_head /\ pc = "flushing"
    BY <2>1 DEF fragmented_perf_read_cb, kernelVars
  <2>4. /\ R \in Nat /\ data_head \in Nat /\ P \in Int /\ R + P <= data_head
        /\ received \in Seq(0..MaxHead)
        /\ \A i \in 1..R : received[i] = i
    <3>1. head - tail \in Int /\ Size \in Nat \ {0}
      BY Numbers
    <3>2. P \in Int
      BY <3>1, DivMod DEF TAKEN
    <3> QED
      BY <2>3, <3>2, Numbers DEF IInv, MessageLeft, InOrder
  <2> HIDE DEF P
  <2>5. n \in Nat /\ n <= P
    BY <2>4
  <2>6. CASE n = 0
    <3>1. Len(received') = R
      BY <2>2, <2>4, <2>6
    <3>2. received' = received
      BY <2>2, <2>4, <3>1, SeqEqual
    <3> QED
      BY <2>3, <3>2
  <2>7. CASE n # 0
    <3>1. Len(received') > R /\ Len(received') <= data_head
      BY <2>2, <2>4, <2>5, <2>7
    <3>2. received' = [i \in 1..Len(received') |-> IF i <= R THEN received[i] ELSE i]
      <4>1. received' = [i \in 1..Len(received') |-> received'[i]]
        BY <2>2, LenProperties
      <4>2. \A i \in 1..Len(received') :
               received'[i] = IF i <= R THEN received[i] ELSE i
        BY <2>2, <2>4, <2>5
      <4> QED
        BY <4>1, <4>2
    <3> QED
      BY <2>3, <3>1, <3>2 DEF Fifo!Next, Fifo!Receive
  <2> QED
    BY <2>6, <2>7
<1> QED
  BY <1>1, <1>2, <1>3, <1>4, <1>5 DEF Next, kernel, server

\* Forwarding implements the FIFO: whatever the fragments and however often the
\* counters wrap, the client receives each published unit once, in order.
THEOREM Refinement == Spec => Implements
<1>1. Init => Fifo!Init
  BY DEF Init, Fifo!Init
<1> QED
  BY <1>1, Inductive, StepSimulation, PTL DEF Spec, Implements, Fifo!Spec

=============================================================================
