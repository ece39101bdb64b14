--------------------------- MODULE HeaderBufProofs ---------------------------
(***************************************************************************)
(* Proofs about HeaderBuf, for any buffer size, any number of offsets and  *)
(* records of any sizes: the offsets kept are those of records that can    *)
(* still be parsed, as long as no record ends exactly where the buffer     *)
(* ends the first time around.                                             *)
(***************************************************************************)
EXTENDS HeaderBuf, WellFoundedInduction, SequenceTheorems, TLAPS

-----------------------------------------------------------------------------
(***************************************************************************)
(* Remainders and least elements.                                          *)
(***************************************************************************)

\* Quotient and remainder.
LEMMA DivMod ==
    ASSUME NEW n \in Nat \ {0}, NEW a \in Int
    PROVE  /\ a \div n \in Int
           /\ a % n \in 0..n - 1
           /\ a = n * (a \div n) + (a % n)
OBVIOUS

\* The remainder is the only one in its range.
LEMMA ModUnique ==
    ASSUME NEW n \in Nat \ {0}, NEW q \in Int, NEW r \in 0..n - 1
    PROVE  (n * q + r) % n = r
OBVIOUS

\* Numbers below n are their own remainders.
LEMMA ModSmall ==
    ASSUME NEW n \in Nat \ {0}, NEW a \in 0..n - 1
    PROVE  a % n = a
OBVIOUS

\* Adding multiples of n changes nothing.
LEMMA ModShift ==
    ASSUME NEW n \in Nat \ {0}, NEW a \in Int, NEW k \in Int
    PROVE  (a + n * k) % n = a % n
<1> DEFINE q == a \div n
           r == a % n
<1>1. q \in Int /\ r \in 0..n - 1 /\ a = n * q + r
  BY DivMod
<1> HIDE DEF q, r
<1>2. a + n * k = n * (q + k) + r /\ q + k \in Int
  BY <1>1
<1>3. (n * (q + k) + r) % n = r
  BY <1>1, <1>2, ModUnique
<1> QED
  BY <1>2, <1>3 DEF r

\* Numbers with the same remainder differ by a multiple of n.
LEMMA ModDiffer ==
    ASSUME NEW n \in Nat \ {0}, NEW a \in Int, NEW b \in Int, a % n = b % n
    PROVE  \E k \in Int : a = b + n * k
<1> DEFINE q == a \div n
           p == b \div n
<1>1. /\ q \in Int /\ p \in Int /\ a % n \in Int
      /\ a = n * q + (a % n) /\ b = n * p + (a % n)
  BY DivMod
<1> HIDE DEF q, p
<1>2. a = b + n * (q - p) /\ q - p \in Int
  BY <1>1
<1> QED
  BY <1>2

\* Numbers less than n apart have different remainders.
LEMMA ModApart ==
    ASSUME NEW n \in Nat \ {0}, NEW a \in Int, NEW b \in Int, a < b, b - a < n
    PROVE  a % n # b % n
<1> SUFFICES ASSUME a % n = b % n
             PROVE  FALSE
  OBVIOUS
<1>1. PICK k \in Int : b = a + n * k
  BY ModDiffer
<1>2. k > 0 => n * k >= n
  OBVIOUS
<1>3. k <= 0 => n * k <= 0
  OBVIOUS
<1> QED
  BY <1>1, <1>2, <1>3

\* Where a position at most a buffer ahead of another is in the buffer.
LEMMA ModAhead ==
    ASSUME NEW n \in Nat \ {0}, NEW a \in Int, NEW d \in 0..n - 1
    PROVE  (a + d) % n = IF (a % n) + d < n THEN (a % n) + d ELSE (a % n) + d - n
<1> DEFINE q == a \div n
           r == a % n
<1>1. q \in Int /\ r \in 0..n - 1 /\ a = n * q + r
  BY DivMod
<1> HIDE DEF q, r
<1>2. CASE r + d < n
  <2>1. r + d \in 0..n - 1 /\ a + d = n * q + (r + d)
    BY <1>1, <1>2
  <2>2. (n * q + (r + d)) % n = r + d
    BY <1>1, <2>1, ModUnique
  <2> QED
    BY <1>2, <2>1, <2>2 DEF r
<1>3. CASE ~(r + d < n)
  <2>1. r + d - n \in 0..n - 1 /\ a + d = n * (q + 1) + (r + d - n) /\ q + 1 \in Int
    BY <1>1, <1>3
  <2>2. (n * (q + 1) + (r + d - n)) % n = r + d - n
    BY <1>1, <2>1, ModUnique
  <2> QED
    BY <1>3, <2>1, <2>2 DEF r
<1> QED
  BY <1>2, <1>3

\* A set of numbers has a least element, and Min is it.
LEMMA LeastElement ==
    ASSUME NEW T \in SUBSET Nat, T # {}
    PROVE  Min(T) \in T /\ \A y \in T : Min(T) <= y
<1>1. PICK x \in T : \A y \in T : ~(<<y, x>> \in OpToRel(<, Nat))
  BY NatLessThanWellFounded, WFMin
<1>2. \A y \in T : x <= y
  <2>1. OpToRel(<, Nat) = {p \in Nat \X Nat : p[1] < p[2]}
    BY Zenon DEF OpToRel
  <2>2. ASSUME NEW y \in T, y < x
        PROVE  FALSE
    BY <1>1, <2>1, <2>2
  <2> QED
    BY <2>2
<1>3. \E m \in T : \A y \in T : m <= y
  BY <1>2
<1> QED
  BY <1>3 DEF Min

-----------------------------------------------------------------------------
(***************************************************************************)
(* The inductive invariant.                                                *)
(***************************************************************************)

\* The kernel's records lie one behind the other.
Recorded ==
    /\ records \in Seq([start : Nat, size : Sizes])
    /\ data_head \in Nat
    /\ Len(records) = 0 => data_head = 0
    /\ \A k \in 1..Len(records) :
          /\ k = 1 => records[k].start = 0
          /\ k = Len(records) => records[k].start + records[k].size = data_head
          /\ k < Len(records) => records[k + 1].start = records[k].start + records[k].size
          /\ records[k].start + records[k].size <= data_head
          /\ \A j \in 1..k - 1 : records[j].start + records[j].size <= records[k].start

\* The update is where the next record begins that it has not seen.
Position ==
    /\ data_tail \in Nat /\ perf_tail \in Nat /\ perf_head \in Nat
    /\ perf_head <= data_head
    /\ head \in 0..Len(records)
    /\ perf_tail = IF head = Len(records) THEN data_head ELSE records[head + 1].start
    /\ pc \in {"idle", "update"}
    /\ pc = "idle" => data_tail = perf_tail
    /\ offsets \in [0..HdrLen - 1 -> Nat]
    /\ full \in BOOLEAN

\* The offsets kept are those of the newest records.
Kept ==
    /\ tail \in 0..head /\ head - tail <= HdrLen
    /\ head > 0 => tail < head
    /\ \A k \in tail + 1..head : offsets[(k - 1) % HdrLen] = records[k].start % Size

Good == Kept /\ DropsOverwritten /\ SearchStopsAtKept

\* Before the buffer is full nothing is overwritten, and then nothing kept.
Intactness == (~full => perf_tail <= Size) /\ KeptIntact

\* KeptIntact alone is not inductive: that a kept record survives a step
\* follows from where the update is among the kernel's records.
IInv == Recorded /\ Position /\ Good /\ (NoExactFill => Intactness)

\* The numbers the proofs compute with.
LEMMA Numbers ==
    /\ Size \in Nat \ {0} /\ HdrLen \in Nat \ {0} /\ HdrLen >= 2
    /\ \A n \in Sizes : n \in Nat /\ 0 < n /\ n < Size
    /\ \A m, n \in Sizes : m + n < Size
BY HeaderAssumption

\* A sequence over S has its elements in S.
LEMMA Element ==
    ASSUME NEW S, NEW q \in Seq(S), NEW k \in 1..Len(q)
    PROVE  q[k] \in S
OBVIOUS

\* The fields of the kernel's records.
LEMMA RecordTypes ==
    ASSUME NEW q \in Seq([start : Nat, size : Sizes])
    PROVE  \A k \in 1..Len(q) :
              /\ q[k].start \in Nat /\ q[k].size \in Sizes
              /\ q[k].size \in Nat /\ 0 < q[k].size /\ q[k].size < Size
<1> SUFFICES ASSUME NEW k \in 1..Len(q)
             PROVE  /\ q[k].start \in Nat /\ q[k].size \in Sizes
                    /\ q[k].size \in Nat /\ 0 < q[k].size /\ q[k].size < Size
  OBVIOUS
<1>1. q[k] \in [start : Nat, size : Sizes]
  BY Element, Zenon
<1>2. q[k].start \in Nat /\ q[k].size \in Sizes
  BY <1>1
<1> QED
  BY <1>2, Numbers

\* Nothing recorded, nothing kept.
LEMMA InitInductive == Init => IInv
<1> SUFFICES ASSUME Init
             PROVE  IInv
  OBVIOUS
<1>1. Recorded
  <2>1. records = <<>> /\ Len(records) = 0 /\ data_head = 0
    BY DEF Init
  <2>2. records \in Seq([start : Nat, size : Sizes])
    BY <2>1
  <2> QED
    BY <2>1, <2>2 DEF Recorded
<1>2. Position
  <2>1. /\ Len(records) = 0 /\ data_head = 0 /\ data_tail = 0
        /\ head = 0 /\ pc = "idle" /\ perf_head = 0 /\ perf_tail = 0
    BY DEF Init
  <2>2. offsets \in [0..HdrLen - 1 -> Nat]
    BY DEF Init
  <2>3. 0 \in Nat /\ 0 \in 0..Len(records) /\ 0 <= 0
    BY <2>1
  <2>4. full \in BOOLEAN
    BY Zenon DEF Init
  <2> QED
    BY <2>1, <2>2, <2>3, <2>4 DEF Position
<1>3. Good /\ Intactness
  BY HeaderAssumption DEF Init, Good, Intactness, Kept, KeptIntact, DropsOverwritten, SearchStopsAtKept
<1> QED
  BY <1>1, <1>2, <1>3 DEF IInv

-----------------------------------------------------------------------------
(***************************************************************************)
(* The kernel adds a record.                                               *)
(***************************************************************************)

\* A record the kernel adds is behind all that the update has seen.
LEMMA OutputInductive ==
    ASSUME IInv, NEW n \in Sizes, perf_output(n)
    PROVE  IInv'
<1> DEFINE r == [start |-> data_head, size |-> n]
           l == Len(records)
<1>1. /\ n \in Nat /\ n > 0 /\ data_head \in Nat /\ records' = Append(records, r)
      /\ data_head' = data_head + n
      /\ UNCHANGED <<data_tail, offsets, head, tail, full, pc, perf_head, perf_tail, hung>>
  BY HeaderAssumption DEF IInv, Recorded, perf_output, hdrVars, perfVars
<1>2. records \in Seq([start : Nat, size : Sizes]) /\ r \in [start : Nat, size : Sizes]
  BY <1>1 DEF IInv, Recorded
<1>3. /\ records' \in Seq([start : Nat, size : Sizes])
      /\ l \in Nat /\ Len(records') = l + 1 /\ records'[l + 1] = r
      /\ \A k \in 1..l : records'[k] = records[k]
  <2> HIDE DEF r
  <2>1. /\ Append(records, r) \in Seq([start : Nat, size : Sizes])
        /\ Len(Append(records, r)) = Len(records) + 1 /\ Len(records) \in Nat
        /\ Append(records, r)[Len(records) + 1] = r
        /\ \A k \in 1..Len(records) : Append(records, r)[k] = records[k]
    BY <1>2, AppendProperties, LenProperties
  <2> QED
    BY <1>1, <2>1
<1>4. records'[l + 1].start = data_head /\ records'[l + 1].size = n
  BY <1>3
<1>5. \A k \in 1..l : records[k].start \in Nat /\ records[k].size \in Nat
  BY <1>2, RecordTypes
<1>6. Recorded'
  <2>1. ASSUME NEW k \in 1..l
        PROVE  /\ k = 1 => records'[k].start = 0
               /\ records'[k + 1].start = records'[k].start + records'[k].size
               /\ records'[k].start + records'[k].size <= data_head
               /\ records'[k].start + records'[k].size <= data_head'
               /\ \A j \in 1..k - 1 : records'[j].start + records'[j].size <= records'[k].start
    <3>1. k + 1 \in 1..l \/ (k = l /\ k + 1 = l + 1)
      BY <1>3
    <3>2. \A j \in 1..k - 1 : j \in 1..l
      BY <1>3
    <3>3. /\ k = 1 => records[k].start = 0
          /\ k = l => records[k].start + records[k].size = data_head
          /\ k < l => records[k + 1].start = records[k].start + records[k].size
          /\ records[k].start + records[k].size <= data_head
          /\ \A j \in 1..k - 1 : records[j].start + records[j].size <= records[k].start
      BY DEF IInv, Recorded
    <3>4. records'[k] = records[k] /\ \A j \in 1..k - 1 : records'[j] = records[j]
      BY <1>3, <3>2
    <3>5. records'[k + 1].start = records'[k].start + records'[k].size
      BY <1>3, <1>4, <3>1, <3>3, <3>4
    <3>6. records[k].start + records[k].size <= data_head + n
      BY <1>1, <1>5, <3>3
    <3> QED
      BY <1>1, <3>3, <3>4, <3>5, <3>6
  <2>2. l = 0 => records'[l + 1].start = 0
    BY <1>4 DEF IInv, Recorded
  <2>3. \A k \in 1..l + 1 : k \in 1..l \/ k = l + 1
    BY <1>3
  <2>4. \A j \in 1..(l + 1) - 1 : j \in 1..l
    BY <1>3
  <2> QED
    BY <1>1, <1>3, <1>4, <2>1, <2>2, <2>3, <2>4 DEF Recorded
<1>7. Position'
  <2>1. head \in 0..l /\ (head = l => perf_tail = data_head)
    BY DEF IInv, Position
  <2>2. head # l => head + 1 \in 1..l /\ perf_tail = records[head + 1].start
    BY <1>3, <2>1 DEF IInv, Position
  <2>3. perf_tail = records'[head + 1].start /\ head # l + 1
    BY <1>3, <1>4, <2>1, <2>2
  <2> QED
    BY <1>1, <1>3, <2>1, <2>3 DEF IInv, Position
<1>8. Good' /\ (NoExactFill' => Intactness')
  <2>1. NoExactFill' => NoExactFill
    BY <1>3 DEF NoExactFill
  <2>2. Kept /\ DropsOverwritten /\ SearchStopsAtKept /\ head \in 0..l
    BY DEF IInv, Good, Position
  <2>3. tail \in 0..l /\ \A k \in tail + 1..head : k \in 1..l
    BY <1>3, <2>2 DEF Kept
  <2>4. tail > 0 => tail \in 1..l
    BY <1>3, <2>3
  <2>5. Good'
    BY <1>1, <1>3, <2>2, <2>3, <2>4 DEF Good, Kept, DropsOverwritten, SearchStopsAtKept
  <2>6. Intactness => Intactness'
    BY <1>1, <1>3, <2>3 DEF Intactness, KeptIntact
  <2> QED
    BY <2>1, <2>5, <2>6 DEF IInv
<1> QED
  BY <1>6, <1>7, <1>8 DEF IInv

-----------------------------------------------------------------------------
(***************************************************************************)
(* The update looks at a record.                                           *)
(***************************************************************************)

\* Whether a kept record survives the new one.
LEMMA AheadMeans ==
    ASSUME NEW p \in Nat, NEW s \in Nat, NEW o, NEW n \in Nat, n < Size,
           s >= p - Size, s < p, o = s % Size
    PROVE  LET m == p % Size IN
           (m + n < (IF o < m THEN o + Size ELSE o)) <=> s > p + n - Size
<1> DEFINE m == p % Size
           d == s - (p - Size)
<1>1. Size \in Nat \ {0} /\ p \in Int /\ d \in 0..Size - 1 /\ m \in 0..Size - 1
  BY Numbers, DivMod
<1>2. (p + d) % Size = IF m + d < Size THEN m + d ELSE m + d - Size
  BY <1>1, ModAhead
<1>3. (p + d) % Size = o
  <2>1. p + d = s + Size * 1 /\ 1 \in Int /\ s \in Int
    BY <1>1
  <2> QED
    BY <1>1, <2>1, ModShift
<1>4. o = IF m + d < Size THEN m + d ELSE m + d - Size
  BY <1>2, <1>3
<1> HIDE DEF m
<1>5. s > p + n - Size <=> d > n
  BY <1>1
<1>6. (m + n < (IF o < m THEN o + Size ELSE o)) <=> d > n
  <2>1. CASE m + d < Size
    BY <1>1, <1>4, <2>1
  <2>2. CASE ~(m + d < Size)
    BY <1>1, <1>4, <2>2
  <2> QED
    BY <2>1, <2>2
<1> QED
  BY <1>5, <1>6 DEF m

\* The record the update has got to, and the records before it.
LEMMA Current ==
    ASSUME Recorded, Position, perf_tail < perf_head
    PROVE  /\ head \in Nat /\ head + 1 \in 1..Len(records)
           /\ Record.size \in Nat /\ 0 < Record.size /\ Record.size < Size
           /\ perf_tail = Record.start
           /\ perf_tail + Record.size
                 = IF head + 1 = Len(records) THEN data_head ELSE records[head + 2].start
           /\ perf_tail + Record.size <= data_head
           /\ head = 0 => perf_tail = 0
           /\ head > 0 => /\ records[head].start + records[head].size = perf_tail
                           /\ records[head].size + Record.size < Size
           /\ \A k \in 1..head : records[k].start \in Nat /\ records[k].start < perf_tail
<1>1. /\ head \in 0..Len(records) /\ perf_head <= data_head
      /\ perf_tail \in Nat /\ perf_head \in Nat /\ data_head \in Nat
      /\ perf_tail = IF head = Len(records) THEN data_head ELSE records[head + 1].start
  BY DEF Position, Recorded
<1>2. Len(records) \in Nat
  BY LenProperties DEF Recorded
<1>3. head \in Nat /\ head + 1 \in 1..Len(records) /\ perf_tail = Record.start
  BY <1>1, <1>2 DEF Record
<1>4. \A k \in 1..Len(records) :
         /\ records[k].start \in Nat /\ records[k].size \in Sizes
         /\ records[k].size \in Nat /\ 0 < records[k].size /\ records[k].size < Size
  BY RecordTypes DEF Recorded
<1>5. Record.size \in Nat /\ 0 < Record.size /\ Record.size < Size /\ Record.size \in Sizes
  BY <1>3, <1>4 DEF Record
<1>6. /\ perf_tail + Record.size
            = IF head + 1 = Len(records) THEN data_head ELSE records[head + 2].start
      /\ perf_tail + Record.size <= data_head
  <2>1. /\ head + 1 = Len(records) => records[head + 1].start + records[head + 1].size = data_head
        /\ head + 1 < Len(records)
              => records[(head + 1) + 1].start = records[head + 1].start + records[head + 1].size
        /\ records[head + 1].start + records[head + 1].size <= data_head
    BY <1>3 DEF Recorded
  <2>2. (head + 1) + 1 = head + 2 /\ (head + 1 = Len(records) \/ head + 1 < Len(records))
    BY <1>2, <1>3
  <2> QED
    BY <1>3, <2>1, <2>2 DEF Record
<1>7. head = 0 => perf_tail = 0
  BY <1>3 DEF Recorded, Record
<1>8. head > 0 => /\ records[head].start + records[head].size = perf_tail
                  /\ records[head].size + Record.size < Size
  <2> SUFFICES ASSUME head > 0
               PROVE  /\ records[head].start + records[head].size = perf_tail
                      /\ records[head].size + Record.size < Size
    OBVIOUS
  <2>1. head \in 1..Len(records) /\ head < Len(records)
    BY <1>2, <1>3
  <2>2. records[head + 1].start = records[head].start + records[head].size
    BY <2>1 DEF Recorded
  <2>3. records[head].size \in Sizes
    BY <1>4, <2>1
  <2> QED
    BY <1>3, <1>5, <2>2, <2>3, Numbers DEF Record
<1>9. ASSUME NEW k \in 1..head
      PROVE  records[k].start \in Nat /\ records[k].start < perf_tail
  <2>1. k \in 1..Len(records) /\ k \in 1..(head + 1) - 1
    BY <1>2, <1>3
  <2>2. records[k].start + records[k].size <= records[head + 1].start
    BY <1>3, <2>1 DEF Recorded
  <2> QED
    BY <1>3, <1>4, <2>1, <2>2 DEF Record
<1> QED
  BY <1>3, <1>5, <1>6, <1>7, <1>8, <1>9

\* The tail once there is room for an offset.
Room == IF head - tail = HdrLen THEN tail + 1 ELSE tail

\* What the update makes of `full'.
Filled == full \/ perf_offset + Record.size > Size

\* A kept offset is ahead of the new record exactly when its record survives.
LEMMA Survives ==
    ASSUME Recorded, Position, Kept, perf_tail < perf_head,
           NEW u \in tail..head - 1, records[u + 1].start >= perf_tail - Size
    PROVE  Ahead(offsets[u % HdrLen]) <=> records[u + 1].start > perf_tail + Record.size - Size
<1>1. /\ tail \in Nat /\ head \in Nat /\ u \in Nat
      /\ u + 1 \in tail + 1..head /\ u + 1 \in 1..head /\ (u + 1) - 1 = u
  BY Current DEF Kept
<1>2. records[u + 1].start \in Nat /\ records[u + 1].start < perf_tail
  BY <1>1, Current
<1>3. offsets[u % HdrLen] = records[u + 1].start % Size
  BY <1>1 DEF Kept
<1>4. perf_tail \in Nat
  BY DEF Position
<1>5. Record.size \in Nat /\ Record.size < Size
  BY Current
<1> DEFINE o == offsets[u % HdrLen]
           s == records[u + 1].start
           n == Record.size
<1>6. /\ s \in Nat /\ n \in Nat /\ n < Size /\ s >= perf_tail - Size /\ s < perf_tail
      /\ o = s % Size
  BY <1>2, <1>3, <1>5
<1> HIDE DEF o, s, n
<1>7. ((perf_tail % Size) + n < (IF o < perf_tail % Size THEN o + Size ELSE o))
         <=> s > perf_tail + n - Size
  BY <1>4, <1>6, AheadMeans
<1> QED
  BY <1>7, Zenon DEF o, s, n, Ahead, perf_offset

\* Before the buffer is full the update is still on its first way through it,
\* and when it becomes full there are records to give up.
LEMMA FirstLap ==
    ASSUME Recorded, Position, Good, perf_tail < perf_head
    PROVE  /\ NoExactFill /\ Intactness /\ ~Filled => perf_tail + Record.size <= Size
           /\ Filled => head > 0
<1>1. /\ Size \in Nat \ {0} /\ perf_tail \in Nat /\ head \in Nat /\ tail \in Nat
      /\ Record.size \in Nat /\ Record.size < Size /\ (head = 0 => perf_tail = 0)
  BY Numbers, Current DEF Position, Good, Kept
<1>2. NoExactFill /\ Intactness /\ ~full => perf_tail < Size
  <2>1. NoExactFill /\ head > 0 => perf_tail # Size
    <3>1. head > 0 => records[head].start + records[head].size = perf_tail /\ head \in 1..Len(records)
      BY Current, LenProperties, SMTT(60) DEF Recorded
    <3> QED
      BY <3>1 DEF NoExactFill
  <2>2. Intactness /\ ~full => perf_tail <= Size
    BY DEF Intactness
  <2> QED
    BY <1>1, <2>1, <2>2
<1>3. perf_tail < Size => perf_offset = perf_tail
  BY <1>1, ModSmall DEF perf_offset
<1>4. full => head > 0
  BY <1>1 DEF Good, SearchStopsAtKept
<1> QED
  BY <1>1, <1>2, <1>3, <1>4 DEF Filled

\* The search stops at the oldest of the kept records that survive.
LEMMA Search ==
    ASSUME Recorded, Position, Good, perf_tail < perf_head, Filled
    PROVE  /\ Intact(Room) # {}
           /\ Min(Intact(Room)) \in Room..head - 1
           /\ KeptIntact => records[Min(Intact(Room)) + 1].start > perf_tail + Record.size - Size
           /\ Min(Intact(Room)) > Room =>
                 records[Min(Intact(Room))].start <= perf_tail + Record.size - Size
<1> DEFINE T == Intact(Room)
           m == Min(T)
<1>1. head \in Nat /\ head > 0 /\ tail \in 0..head /\ tail < head /\ head - tail <= HdrLen
  BY FirstLap, Current DEF Good, Kept
<1>2. /\ HdrLen \in Nat \ {0} /\ HdrLen >= 2 /\ Room \in Nat /\ Room >= tail
      /\ head - 1 \in Room..Room + HdrLen - 1 /\ head - 1 \in tail..head - 1
  BY <1>1, Numbers DEF Room
<1>3. T = {u \in Room..Room + HdrLen - 1 : Ahead(offsets[u % HdrLen])}
  BY DEF Intact
<1>4. T \in SUBSET Nat
  BY <1>2, <1>3
<1>5. head - 1 \in T
  <2>1. /\ records[head].start + records[head].size = perf_tail
        /\ records[head].size + Record.size < Size
        /\ records[head].start \in Nat /\ records[head].size \in Nat
        /\ Record.size \in Nat /\ (head - 1) + 1 = head /\ perf_tail \in Nat /\ Size \in Nat
    <3>1. head \in 1..Len(records)
      BY <1>1, LenProperties DEF Position, Recorded
    <3>2. /\ records[head].start + records[head].size = perf_tail
          /\ records[head].size + Record.size < Size /\ Record.size \in Nat
      BY <1>1, Current
    <3>3. records[head].start \in Nat /\ records[head].size \in Nat
      BY <3>1, RecordTypes DEF Recorded
    <3> QED
      BY <1>1, <3>2, <3>3, Numbers DEF Position
  <2>2. /\ records[(head - 1) + 1].start > perf_tail + Record.size - Size
        /\ records[(head - 1) + 1].start >= perf_tail - Size
    BY <2>1
  <2>3. Ahead(offsets[(head - 1) % HdrLen])
    BY <1>2, <2>2, Survives DEF Good
  <2> QED
    BY <1>2, <1>3, <2>3
<1> HIDE DEF T
<1>6. m \in T /\ \A y \in T : m <= y
  BY <1>4, <1>5, LeastElement
<1>7. m \in Room..head - 1 /\ m \in tail..head - 1 /\ Ahead(offsets[m % HdrLen])
  <2> HIDE DEF m
  <2>1. m \in Room..Room + HdrLen - 1 /\ m <= head - 1 /\ Ahead(offsets[m % HdrLen])
    BY <1>3, <1>5, <1>6
  <2> QED
    BY <1>1, <1>2, <2>1
<1>8. KeptIntact => records[m + 1].start > perf_tail + Record.size - Size
  <2> HIDE DEF m
  <2>1. m + 1 \in tail + 1..head
    BY <1>1, <1>7
  <2>2. KeptIntact => records[m + 1].start >= perf_tail - Size
    BY <2>1 DEF KeptIntact
  <2> QED
    BY <1>7, <2>2, Survives DEF Good
<1>9. ASSUME m > Room
      PROVE  records[m].start <= perf_tail + Record.size - Size
  <2> HIDE DEF m
  <2>1. /\ m - 1 \in Room..Room + HdrLen - 1 /\ m - 1 \in tail..head - 1
        /\ (m - 1) + 1 = m /\ ~(m <= m - 1) /\ m \in 1..head
    BY <1>1, <1>2, <1>7, <1>9
  <2>2. ~Ahead(offsets[(m - 1) % HdrLen])
    BY <1>3, <1>6, <2>1
  <2>3. records[(m - 1) + 1].start >= perf_tail - Size
           => ~(records[(m - 1) + 1].start > perf_tail + Record.size - Size)
    BY <2>1, <2>2, Survives DEF Good
  <2>4. records[m].start \in Nat /\ Record.size \in Nat /\ perf_tail \in Nat /\ Size \in Nat
    BY <2>1, Current, Numbers DEF Position
  <2> QED
    BY <2>1, <2>3, <2>4
<1> QED
  BY <1>5, <1>7, <1>8, <1>9 DEF T

\* What a look at a record that does not hang does.
LEMMA Looked ==
    ASSUME Recorded, Position, next_record, ~(Filled /\ Intact(Room) = {})
    PROVE  /\ full' = Filled
           /\ tail' = IF Filled THEN Min(Intact(Room)) ELSE Room
           /\ offsets' = [offsets EXCEPT ![head % HdrLen] = perf_offset]
           /\ head' = head + 1 /\ perf_tail' = perf_tail + Record.size
           /\ UNCHANGED <<hung, records, data_head, data_tail, pc, perf_head>>
<1>1. full' = Filled
  BY Zenon DEF next_record, Filled
<1>2. /\ IF full' /\ Intact(Room) = {}
         THEN hung' = TRUE /\ UNCHANGED <<offsets, head, tail, perf_tail>>
         ELSE /\ tail' = IF full' THEN Min(Intact(Room)) ELSE Room
              /\ offsets' = [offsets EXCEPT ![head % HdrLen] = perf_offset]
              /\ head' = head + 1
              /\ perf_tail' = perf_tail + Record.size
              /\ UNCHANGED hung
      /\ UNCHANGED <<records, data_head, data_tail, pc, perf_head>>
  BY Zenon DEF next_record, Room
<1> HIDE DEF Filled, Intact, Room, Record, perf_offset
<1>3. /\ tail' = IF full' THEN Min(Intact(Room)) ELSE Room
      /\ offsets' = [offsets EXCEPT ![head % HdrLen] = perf_offset]
      /\ head' = head + 1
      /\ perf_tail' = perf_tail + Record.size
      /\ UNCHANGED hung
  BY <1>1, <1>2, Zenon
<1>4. tail' = IF Filled THEN Min(Intact(Room)) ELSE Room
  BY <1>1, <1>3, Zenon
<1> QED
  BY <1>1, <1>2, <1>3, <1>4

\* The update goes on to the record that follows.
LEMMA NextPosition ==
    ASSUME Recorded, Position, next_record
    PROVE  Position' /\ perf_tail < perf_head /\ Recorded'
<1>1. perf_tail < perf_head /\ pc = "update"
  BY DEF next_record
<1>2. Recorded' /\ UNCHANGED <<records, data_head, data_tail, pc, perf_head>>
  <2>1. UNCHANGED <<records, data_head, data_tail, pc, perf_head>>
    BY DEF next_record
  <2> QED
    BY <2>1 DEF Recorded
<1>3. full' \in BOOLEAN
  BY Zenon DEF next_record
<1>4. CASE Filled /\ Intact(Room) = {}
  <2>1. UNCHANGED <<offsets, head, perf_tail>>
    BY <1>4, Zenon DEF next_record, Filled, Room
  <2> QED
    BY <1>1, <1>2, <1>3, <2>1 DEF Position
<1>5. CASE ~(Filled /\ Intact(Room) = {})
  <2>1. /\ offsets' = [offsets EXCEPT ![head % HdrLen] = perf_offset]
        /\ head' = head + 1 /\ perf_tail' = perf_tail + Record.size
    BY <1>5, Looked, Zenon
  <2>2. perf_offset \in Nat
    <3>1. Size \in Nat \ {0} /\ perf_tail \in Int
      BY Numbers DEF Position
    <3>2. perf_tail % Size \in 0..Size - 1
      BY <3>1, DivMod
    <3> QED
      BY <3>1, <3>2 DEF perf_offset
  <2>3. offsets' \in [0..HdrLen - 1 -> Nat]
    BY <2>1, <2>2 DEF Position
  <2>4. /\ head + 1 \in 0..Len(records) /\ perf_tail + Record.size \in Nat
        /\ (head + 1) + 1 = head + 2
        /\ perf_tail + Record.size
              = IF head + 1 = Len(records) THEN data_head ELSE records[head + 2].start
    <3>1. head \in Nat /\ head + 1 \in 1..Len(records) /\ Record.size \in Nat
      BY <1>1, Current
    <3> QED
      BY <1>1, <3>1, Current DEF Position
  <2> HIDE DEF Record, perf_offset
  <2> QED
    BY <1>1, <1>2, <1>3, <2>1, <2>3, <2>4 DEF Position
<1> QED
  BY <1>1, <1>2, <1>4, <1>5

\* A look at a record keeps what is known of the kept offsets.
LEMMA NextGood ==
    ASSUME Recorded, Position, Good, NoExactFill => Intactness, next_record
    PROVE  Good' /\ (NoExactFill => Intactness')
<1> DEFINE n == Record.size
           t == IF Filled THEN Min(Intact(Room)) ELSE Room
<1>1. perf_tail < perf_head /\ ~hung
  BY DEF next_record
<1>2. /\ head \in Nat /\ n \in Nat /\ 0 < n /\ n < Size /\ perf_tail \in Nat
      /\ Size \in Nat \ {0} /\ HdrLen \in Nat \ {0} /\ HdrLen >= 2
      /\ head + 1 \in 1..Len(records) /\ perf_tail = records[head + 1].start
  BY <1>1, Current, Numbers DEF Position, Record
<1>3. /\ tail \in 0..head /\ head - tail <= HdrLen /\ (head > 0 => tail < head)
      /\ Room \in tail..head
      /\ Room = tail \/ (Room = tail + 1 /\ head - tail = HdrLen)
      /\ head + 1 - Room <= HdrLen
  BY <1>2 DEF Good, Kept, Room
<1>4. ~(Filled /\ Intact(Room) = {})
  BY <1>1, Search
<1>5. /\ full' = Filled /\ tail' = t
      /\ offsets' = [offsets EXCEPT ![head % HdrLen] = perf_offset]
      /\ head' = head + 1 /\ perf_tail' = perf_tail + n /\ hung' = hung /\ records' = records
  BY <1>4, Looked, Zenon
<1>6. t \in Room..head /\ t \in Nat /\ (Filled => t \in Room..head - 1)
  BY <1>1, <1>2, <1>3, Search
<1>7. Filled => /\ KeptIntact => records[t + 1].start > perf_tail + n - Size
                /\ t > Room => records[t].start <= perf_tail + n - Size
  BY <1>1, Search
<1>8. ~Filled => t = Room /\ (NoExactFill => perf_tail + n <= Size)
  BY <1>1, FirstLap
<1> HIDE DEF t, n
<1>9. ASSUME NEW k \in t + 1..head + 1
      PROVE  /\ offsets'[(k - 1) % HdrLen] = records[k].start % Size
             /\ NoExactFill => records[k].start >= perf_tail + n - Size
  <2>1. CASE k = head + 1
    <3>1. k - 1 = head /\ head \in Int
      BY <1>2, <2>1
    <3>2. (k - 1) % HdrLen = head % HdrLen /\ head % HdrLen \in 0..HdrLen - 1
      BY <1>2, <3>1, DivMod
    <3>3. offsets'[(k - 1) % HdrLen] = perf_offset
      BY <1>5, <3>2 DEF Position
    <3> QED
      BY <1>2, <2>1, <3>3 DEF perf_offset
  <2>2. CASE k # head + 1
    <3>1. k \in tail + 1..head /\ k \in 1..head /\ t + 1 \in 1..k /\ k - 1 \in Int /\ k \in Int
      BY <1>2, <1>3, <1>6, <2>2
    <3>2. offsets[(k - 1) % HdrLen] = records[k].start % Size
      BY <3>1 DEF Good, Kept
    <3>3. (k - 1) % HdrLen # head % HdrLen
      <4>1. k - 1 < head /\ head - (k - 1) < HdrLen /\ head \in Int
        BY <1>2, <1>3, <1>6, <3>1
      <4> QED
        BY <1>2, <3>1, <4>1, ModApart
    <3>4. offsets'[(k - 1) % HdrLen] = offsets[(k - 1) % HdrLen]
      <4>1. (k - 1) % HdrLen \in 0..HdrLen - 1
        BY <1>2, <3>1, DivMod
      <4> QED
        BY <1>5, <3>3, <4>1 DEF Position
    <3>5. ASSUME NoExactFill
          PROVE  records[k].start >= perf_tail + n - Size
      <4>1. records[k].start \in Nat /\ records[t + 1].start \in Nat
        BY <1>1, <3>1, <1>2, Current
      <4>2. records[t + 1].start <= records[k].start
        <5>1. t + 1 = k \/ t + 1 \in 1..k - 1
          BY <1>6, <3>1
        <5>2. k \in 1..Len(records) /\ t + 1 \in 1..Len(records)
          BY <1>2, <3>1, LenProperties DEF Recorded
        <5>3. records[t + 1].size \in Nat
          BY <5>2, RecordTypes DEF Recorded
        <5>4. t + 1 \in 1..k - 1 => records[t + 1].start + records[t + 1].size <= records[k].start
          BY <5>2 DEF Recorded
        <5> QED
          BY <4>1, <5>1, <5>3, <5>4
      <4>3. KeptIntact
        BY <3>5 DEF Intactness
      <4>4. CASE Filled
        BY <1>2, <1>7, <4>1, <4>2, <4>3, <4>4, SMTT(60)
      <4>5. CASE ~Filled
        <5>1. perf_tail + n <= Size
          BY <1>8, <3>5, <4>5, Zenon
        <5> QED
          BY <1>2, <4>1, <5>1, SMTT(60)
      <4> QED
        BY <4>4, <4>5
    <3> QED
      BY <3>2, <3>4, <3>5
  <2> QED
    BY <2>1, <2>2
<1>10. Kept'
  <2>1. /\ tail' \in 0..head' /\ head' - tail' <= HdrLen /\ (head' > 0 => tail' < head')
    BY <1>2, <1>3, <1>5, <1>6
  <2>2. \A k \in tail' + 1..head' : offsets'[(k - 1) % HdrLen] = records'[k].start % Size
    BY <1>5, <1>9
  <2> QED
    BY <2>1, <2>2, Zenon DEF Kept
<1>11. DropsOverwritten'
  <2> SUFFICES ASSUME t > 0, (head + 1) - t < HdrLen
               PROVE  records[t].start <= perf_tail + n - Size
    <3>1. DropsOverwritten' <=> (tail' > 0 /\ head' - tail' < HdrLen
                                    => records'[tail'].start <= perf_tail' - Size)
      BY Zenon DEF DropsOverwritten
    <3> QED
      BY <1>2, <1>3, <1>5, <1>6, <3>1
  <2>1. CASE t > Room
    BY <1>3, <1>7, <1>8, <2>1
  <2>2. CASE t = Room
    <3>1. t = tail /\ head - tail < HdrLen
      BY <1>2, <1>3, <2>2
    <3>2. records[tail].start <= perf_tail - Size
      BY <3>1 DEF Good, DropsOverwritten
    <3>3. tail \in 1..head
      BY <1>2, <1>3, <3>1
    <3>4. records[tail].start \in Nat
      BY <1>1, <3>3, Current
    <3> QED
      BY <1>2, <3>1, <3>2, <3>4, SMTT(60)
  <2> QED
    BY <1>3, <1>6, <2>1, <2>2
<1>12. SearchStopsAtKept'
  BY <1>1, <1>2, <1>5, <1>6 DEF SearchStopsAtKept
<1>13. ASSUME NoExactFill
       PROVE  Intactness'
  <2>1. ~full' => perf_tail' <= Size
    BY <1>5, <1>8, <1>13
  <2>2. ASSUME NEW k \in tail' + 1..head'
        PROVE  /\ offsets'[(k - 1) % HdrLen] = records'[k].start % Size
               /\ records'[k].start >= perf_tail' - Size
    <3>1. k \in t + 1..head + 1
      BY <1>5, <2>2
    <3>2. /\ offsets'[(k - 1) % HdrLen] = records[k].start % Size
          /\ records[k].start >= perf_tail + n - Size
      BY <1>9, <1>13, <3>1
    <3>3. records' = records /\ perf_tail' = perf_tail + n
      BY <1>5
    <3>4. perf_tail' - Size = perf_tail + n - Size
      BY <1>2, <3>3
    <3> QED
      BY <3>2, <3>3, <3>4, Zenon
  <2>3. KeptIntact'
    BY <2>2, Zenon DEF KeptIntact
  <2> QED
    BY <2>1, <2>3 DEF Intactness
<1> QED
  BY <1>10, <1>11, <1>12, <1>13 DEF Good

-----------------------------------------------------------------------------
(***************************************************************************)
(* The update begins and ends.                                             *)
(***************************************************************************)

\* Good reads nothing that a step which leaves these alone could change.
LEMMA GoodKept ==
    ASSUME Good, NoExactFill => Intactness,
           UNCHANGED <<records, offsets, head, tail, full, perf_tail, hung>>
    PROVE  Good' /\ (NoExactFill' => Intactness')
BY DEF NoExactFill, Good, Kept, Intactness, KeptIntact, DropsOverwritten, SearchStopsAtKept

\* The update begins where the last one ended.
LEMMA BeginInductive ==
    ASSUME IInv, update_begin
    PROVE  IInv'
<1>1. /\ UNCHANGED <<records, data_head, data_tail, offsets, head, tail, full, hung>>
      /\ pc = "idle" /\ pc' = "update" /\ perf_head' = data_head /\ perf_tail' = data_tail
  BY DEF update_begin, hdrVars
<1>2. perf_tail' = perf_tail
  BY <1>1 DEF IInv, Position
<1>3. data_head \in Nat /\ data_head <= data_head
  BY DEF IInv, Recorded
<1>4. Recorded'
  BY <1>1 DEF IInv, Recorded
<1>5. Position'
  BY <1>1, <1>2, <1>3 DEF IInv, Position
<1>6. Good' /\ (NoExactFill' => Intactness')
  BY <1>1, <1>2, GoodKept DEF IInv
<1> QED
  BY <1>4, <1>5, <1>6 DEF IInv

\* The update ends where the kernel's head was when it began.
LEMMA EndInductive ==
    ASSUME IInv, update_end
    PROVE  IInv'
<1>1. /\ UNCHANGED <<records, data_head, offsets, head, tail, full, perf_head, perf_tail, hung>>
      /\ pc' = "idle" /\ data_tail' = perf_head /\ perf_tail = perf_head
  BY DEF update_end, hdrVars, perfVars
<1>2. Recorded'
  BY <1>1 DEF IInv, Recorded
<1>3. Position'
  BY <1>1 DEF IInv, Position
<1>4. Good' /\ (NoExactFill' => Intactness')
  BY <1>1, GoodKept DEF IInv
<1> QED
  BY <1>2, <1>3, <1>4 DEF IInv

\* Every step preserves the invariant.
LEMMA NextInductive ==
    ASSUME IInv, [Next]_vars
    PROVE  IInv'
<1>1. CASE update_begin
  BY <1>1, BeginInductive
<1>2. CASE next_record
  <2>1. Position' /\ Recorded' /\ records' = records
    BY <1>2, NextPosition DEF IInv, next_record
  <2>2. Good' /\ (NoExactFill => Intactness')
    BY <1>2, NextGood DEF IInv
  <2>3. NoExactFill' => NoExactFill
    BY <2>1 DEF NoExactFill
  <2> QED
    BY <2>1, <2>2, <2>3 DEF IInv
<1>3. CASE update_end
  BY <1>3, EndInductive
<1>4. CASE \E n \in Sizes : perf_output(n)
  BY <1>4, OutputInductive
<1>5. CASE UNCHANGED vars
  <2>1. /\ UNCHANGED <<records, offsets, head, tail, full, perf_tail, hung>>
        /\ UNCHANGED <<data_head, data_tail, pc, perf_head>>
    BY <1>5 DEF vars, hdrVars, perfVars
  <2>2. Recorded' /\ Position'
    BY <2>1 DEF IInv, Recorded, Position
  <2>3. Good' /\ (NoExactFill' => Intactness')
    BY <2>1, GoodKept DEF IInv
  <2> QED
    BY <2>2, <2>3 DEF IInv
<1> QED
  BY <1>1, <1>2, <1>3, <1>4, <1>5 DEF Next, gputop_perf_update_header_offsets

-----------------------------------------------------------------------------
(***************************************************************************)
(* The theorems.                                                           *)
(***************************************************************************)

\* Every reachable state satisfies the inductive invariant.
THEOREM Inductive == Spec => []IInv
<1>1. Init => IInv
  BY InitInductive
<1>2. IInv /\ [Next]_vars => IInv'
  BY NextInductive
<1> QED
  BY <1>1, <1>2, PTL DEF Spec

\* As long as no record ends where the buffer ends the first time around, the
\* offsets gputop_perf_update_header_offsets() keeps are those of the newest
\* records, and no record it has seen overwrites one of them.
THEOREM KeptCanBeParsed == Spec => []TrackedIntact
<1>1. IInv => TrackedIntact
  BY DEF IInv, Intactness, TrackedIntact
<1> QED
  BY <1>1, Inductive, PTL

\* The update gives up a record only if the newest ones reach it or the ring of
\* offsets is full.
THEOREM NoMoreIsDropped == Spec => []DropsOverwritten
<1>1. IInv => DropsOverwritten
  BY DEF IInv, Good
<1> QED
  BY <1>1, Inductive, PTL

\* The update's inner loop ends, at a record that is kept: buf_tail never
\* overtakes buf_head.
THEOREM SearchEnds == Spec => []SearchStopsAtKept
<1>1. IInv => SearchStopsAtKept
  BY DEF IInv, Good
<1> QED
  BY <1>1, Inductive, PTL
=============================================================================
