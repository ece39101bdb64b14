------------------------- MODULE ClientContextProofs -------------------------
(***************************************************************************)
(* Proofs about ClientContext, for any names, addresses and numbers of     *)
(* CPUs, connections, ids, clicks and messages: the client and the server  *)
(* agree on the streams that are open, the table handle_perf_data() uses   *)
(* is in step, find_stream() returns, and what ends the process has the    *)
(* causes EndsOnlyAfter names.                                             *)
(*                                                                         *)
(* The handlers are loops over CPUs and tracepoints that open and close    *)
(* streams.  What each loop preserves is proved once: it does not leave a  *)
(* set of contexts that opening one stream, closing one stream and         *)
(* removing one tracepoint do not leave (Stable, RemovesWithin).  The      *)
(* invariant is then made of such sets.                                    *)
(***************************************************************************)
EXTENDS ClientContext, WellFoundedInduction, FiniteSetTheorems, SequenceTheorems, TLAPS

-----------------------------------------------------------------------------
(***************************************************************************)
(* Induction over numbers, stated for the set of those that have the       *)
(* property.                                                               *)
(***************************************************************************)

\* A set of numbers has a least element, and Min is it.
LEMMA LeastElement ==
    ASSUME NEW T \in SUBSET Nat, T # {}
    PROVE  Min(T) \in T /\ \A y \in T : Min(T) <= y
<1>1. PICK x \in T : \A y \in T : ~(<<y, x>> \in OpToRel(<, Nat))
  BY NatLessThanWellFounded, WFMin
<1>2. \A y \in T : x <= y
  <2>1. OpToRel(<, Nat) = {p \in Nat \X Nat : p[1] < p[2]}
    BY Zenon DEF OpToRel
  <2>2. ASSUME NEW y \in T, y < x
        PROVE  FALSE
    BY <1>1, <2>1, <2>2
  <2> QED
    BY <2>2
<1>3. \E m \in T : \A y \in T : m <= y
  BY <1>2
<1> QED
  BY <1>3 DEF Min

\* A property of numbers that 0 has and that the next number keeps.
LEMMA NumberInduction ==
    ASSUME NEW T \in SUBSET Nat, 0 \in T, \A n \in T : n + 1 \in T
    PROVE  \A n \in Nat : n \in T
<1> DEFINE R == Nat \ T
           m == Min(R)
<1> SUFFICES ASSUME R # {}
             PROVE  FALSE
  OBVIOUS
<1>1. R \in SUBSET Nat
  OBVIOUS
<1>2. m \in R /\ \A y \in R : m <= y
  <2> HIDE DEF R
  <2> QED
    BY <1>1, LeastElement
<1> HIDE DEF m
<1>3. m \in Nat /\ m # 0 /\ m - 1 \in Nat /\ m \notin T /\ ~(m <= m - 1)
  BY <1>2
<1>4. m - 1 \in T
  BY <1>2, <1>3
<1>5. (m - 1) + 1 \in T
  BY <1>4
<1> QED
  BY <1>3, <1>5

-----------------------------------------------------------------------------
(***************************************************************************)
(* Sequences.                                                              *)
(***************************************************************************)

\* A sequence that is not empty ends with some element.
LEMMA EndsWith ==
    ASSUME NEW A, NEW l \in Seq(A), NEW n \in Nat, Len(l) = n + 1
    PROVE  \E p \in Seq(A) : \E x \in A : Len(p) = n /\ l = Append(p, x)
<1> DEFINE p == [i \in 1..n |-> l[i]]
           x == l[n + 1]
<1>1. p \in Seq(A) /\ x \in A /\ Len(p) = n
  OBVIOUS
<1>2. l = Append(p, x)
  <2>1. Append(p, x) \in Seq(A) /\ Len(Append(p, x)) = n + 1
    BY <1>1
  <2>2. \A i \in 1..n + 1 : l[i] = Append(p, x)[i]
    BY <1>1
  <2> QED
    BY <2>1, <2>2, SeqEqual
<1> QED
  BY <1>1, <1>2

\* A property of sequences that the empty one has and that another element keeps.
LEMMA SequenceInduction ==
    ASSUME NEW A, NEW F \in SUBSET Seq(A), <<>> \in F,
           \A l \in F : \A x \in A : Append(l, x) \in F
    PROVE  \A l \in Seq(A) : l \in F
<1> DEFINE T == {n \in Nat : \A l \in Seq(A) : Len(l) = n => l \in F}
<1>1. 0 \in T
  OBVIOUS
<1>2. ASSUME NEW n \in T
      PROVE  n + 1 \in T
  <2>1. SUFFICES ASSUME NEW l \in Seq(A), Len(l) = n + 1
                 PROVE  l \in F
    OBVIOUS
  <2>2. PICK p \in Seq(A), x \in A : Len(p) = n /\ l = Append(p, x)
    <3>1. n \in Nat
      OBVIOUS
    <3>2. \E p \in Seq(A) : \E x \in A : Len(p) = n /\ l = Append(p, x)
      BY ONLY <2>1, <3>1, l \in Seq(A), EndsWith
    <3> QED
      BY <3>2
  <2>3. p \in F
    BY <2>2
  <2> QED
    BY <2>2, <2>3, Zenon
<1>3. T \in SUBSET Nat
  OBVIOUS
<1>4. \A n \in Nat : n \in T
  <2> HIDE DEF T
  <2> QED
    BY <1>1, <1>2, <1>3, NumberInduction
<1> QED
  BY <1>4

\* An element more at the end.
LEMMA AppendAfter ==
    ASSUME NEW A, NEW a \in Seq(A), NEW b \in Seq(A), NEW x \in A
    PROVE  a \o b \in Seq(A) /\ a \o Append(b, x) = Append(a \o b, x)
<1> DEFINE l == a \o Append(b, x)
           m == Append(a \o b, x)
<1>1. a \o b \in Seq(A) /\ l \in Seq(A) /\ m \in Seq(A)
  OBVIOUS
<1>2. Len(l) = Len(m)
  OBVIOUS
<1>3. \A i \in 1..Len(l) : l[i] = m[i]
  OBVIOUS
<1> HIDE DEF l, m
<1>4. l = m
  BY <1>1, <1>2, <1>3, SeqEqual
<1> QED
  BY <1>1, <1>4 DEF l, m

\* Appending adds one element.
LEMMA RangeAppend ==
    ASSUME NEW A, NEW l \in Seq(A), NEW x \in A
    PROVE  Range(Append(l, x)) = Range(l) \cup {x}
<1> DEFINE m == Append(l, x)
           n == Len(l)
<1>1. /\ n \in Nat /\ DOMAIN l = 1..n /\ DOMAIN m = 1..n + 1 /\ m[n + 1] = x
      /\ \A i \in 1..n : m[i] = l[i]
  OBVIOUS
<1> HIDE DEF m, n
<1>2. 1..n + 1 = (1..n) \cup {n + 1}
  BY <1>1
<1>3. Range(m) = Range(l) \cup {x}
  BY <1>1, <1>2 DEF Range
<1> QED
  BY <1>3 DEF m

-----------------------------------------------------------------------------
(***************************************************************************)
(* Contexts, and what the operations on them change.                       *)
(***************************************************************************)

\* Tracepoints, requests, and contexts of any stream ids.
Tps == [name : Names, has_fields : BOOLEAN]

Reqs == {[req |-> "features"]}
        \cup [req : {"open"}, id : Nat, stream : Streams]
        \cup [req : {"close"}, id : Nat]
        \cup [req : {"info"}, uuid : Addrs]

Ctx == [stream_id : Nat, id : [Streams -> Nat],
        next : [Nodes -> Nodes \cup {None}], prev : [Nodes -> Nodes \cup {None}],
        is_sampling : BOOLEAN, features : BOOLEAN, metric_set : BOOLEAN,
        perf_tracepoints : Seq(Addrs), tps : [Addrs -> Tps \cup {None}],
        names : [Names -> Addrs \cup {None}], uuids : SUBSET Addrs,
        table : [1..MaxId -> TpStreams \cup {None}], data : SUBSET Addrs, out : Seq(Reqs)]

\* What opening and closing streams leaves alone.
Kept(c, d) ==
    /\ d.is_sampling = c.is_sampling /\ d.features = c.features /\ d.metric_set = c.metric_set
    /\ d.perf_tracepoints = c.perf_tracepoints /\ d.tps = c.tps /\ d.names = c.names
    /\ d.uuids = c.uuids /\ d.data = c.data

\* The head of the list is no stream, and the streams are different.
LEMMA DifferentNodes ==
    /\ ListHead \notin Streams /\ Oa # Cpu /\ Oa \notin TpStreams /\ Cpu \notin TpStreams
    /\ None \notin Nodes /\ ListHead \in Nodes /\ Streams \subseteq Nodes
    /\ \A s \in TpStreams : s[1] \in Addrs
<1>1. /\ "streams" \notin Addrs /\ "oa_stream" \notin Addrs /\ "cpu_stats_stream" \notin Addrs
  BY ClientAssumption
<1>2. NCpus \in Nat
  BY ClientAssumption
<1>3. \A s \in TpStreams : s \in Addrs \X Nat /\ s[1] \in Addrs
  BY <1>2 DEF TpStreams
<1>4. ListHead[1] = "streams" /\ Oa[1] = "oa_stream" /\ Cpu[1] = "cpu_stats_stream"
  BY DEF ListHead, Oa, Cpu
<1>5. ListHead # Oa /\ ListHead # Cpu /\ Oa # Cpu
  BY <1>4
<1>6. ListHead \notin TpStreams /\ Oa \notin TpStreams /\ Cpu \notin TpStreams
  BY <1>1, <1>3, <1>4
<1>7. None # ListHead /\ None # Oa /\ None # Cpu
  <2>1. None \notin {"streams", "oa_stream", "cpu_stats_stream"} \X Nat
    BY ClientAssumption
  <2> QED
    BY <2>1 DEF ListHead, Oa, Cpu
<1>8. None \notin TpStreams
  BY <1>3, ClientAssumption
<1> QED
  BY <1>3, <1>5, <1>6, <1>7, <1>8 DEF Streams, Nodes

\* Opening a stream.
LEMMA OpenFields ==
    ASSUME NEW c \in Ctx, NEW s \in Streams
    PROVE  LET d == open_stream(c, s) IN
           /\ d \in Ctx
           /\ d.stream_id = c.stream_id + 1
           /\ d.id = [c.id EXCEPT ![s] = c.stream_id]
           /\ d.next = [[c.next EXCEPT ![s] = c.next[ListHead]] EXCEPT ![ListHead] = s]
           /\ d.prev = [[c.prev EXCEPT ![s] = ListHead] EXCEPT ![c.next[ListHead]] = s]
           /\ d.table = c.table
           /\ d.out = Append(c.out, [req |-> "open", id |-> c.stream_id, stream |-> s])
           /\ Kept(c, d)
<1> DEFINE c1 == [c EXCEPT !.id[s] = c.stream_id, !.stream_id = @ + 1]
           first == c1.next[ListHead]
           pv == [[c1.prev EXCEPT ![s] = ListHead] EXCEPT ![first] = s]
           nx == [[c1.next EXCEPT ![s] = first] EXCEPT ![ListHead] = s]
           c2 == [c1 EXCEPT !.prev = pv, !.next = nx]
           m == [req |-> "open", id |-> c.stream_id, stream |-> s]
           d == [c2 EXCEPT !.out = Append(c2.out, m)]
<1>1. /\ c1 \in Ctx /\ c1.stream_id = c.stream_id + 1 /\ c1.id = [c.id EXCEPT ![s] = c.stream_id]
      /\ c1.next = c.next /\ c1.prev = c.prev /\ c1.table = c.table /\ c1.out = c.out /\ Kept(c, c1)
  <2> DEFINE i == [c.id EXCEPT ![s] = c.stream_id]
             k == c.stream_id + 1
  <2>1. i \in [Streams -> Nat] /\ k \in Nat
    BY DEF Ctx
  <2>2. c1 = [c EXCEPT !.id = i, !.stream_id = k]
    BY DEF Ctx
  <2> HIDE DEF i, k, c1
  <2>3. /\ c1 \in Ctx /\ c1.stream_id = k /\ c1.id = i /\ c1.next = c.next /\ c1.prev = c.prev
        /\ c1.table = c.table /\ c1.out = c.out /\ Kept(c, c1)
    BY <2>1, <2>2 DEF Ctx, Kept
  <2> QED
    BY <2>3 DEF i, k
<1> HIDE DEF c1
<1>2. s \in Nodes /\ ListHead \in Nodes
  BY DifferentNodes
<1>3. c1.next \in [Nodes -> Nodes \cup {None}] /\ c1.prev \in [Nodes -> Nodes \cup {None}]
  BY <1>1 DEF Ctx
<1>4. first \in Nodes \cup {None}
  BY <1>2, <1>3
<1>5. pv \in [Nodes -> Nodes \cup {None}] /\ nx \in [Nodes -> Nodes \cup {None}]
  BY <1>2, <1>3, <1>4
<1>6. /\ pv = [[c.prev EXCEPT ![s] = ListHead] EXCEPT ![c.next[ListHead]] = s]
      /\ nx = [[c.next EXCEPT ![s] = c.next[ListHead]] EXCEPT ![ListHead] = s]
  BY <1>1
<1> HIDE DEF first, pv, nx
<1>7. /\ c2 \in Ctx /\ c2.stream_id = c1.stream_id /\ c2.id = c1.id /\ c2.prev = pv /\ c2.next = nx
      /\ c2.table = c1.table /\ c2.out = c1.out /\ Kept(c1, c2)
  BY <1>1, <1>5 DEF Ctx, Kept
<1>8. c2.out \in Seq(Reqs)
  BY <1>7 DEF Ctx
<1>9. m \in Reqs
  BY DEF Reqs, Ctx
<1>10. Append(c2.out, m) \in Seq(Reqs)
  BY <1>8, <1>9
<1>11. open_stream(c, s) = d
  BY DEF open_stream, send, list_add, c1, first, pv, nx
<1> HIDE DEF c2
<1> DEFINE o == Append(c2.out, m)
<1>12. o \in Seq(Reqs) /\ o = Append(c.out, m)
  BY <1>1, <1>7, <1>10
<1> HIDE DEF o, m
<1>13. /\ d \in Ctx /\ d.stream_id = c2.stream_id /\ d.id = c2.id /\ d.prev = c2.prev
       /\ d.next = c2.next /\ d.table = c2.table /\ d.out = o /\ Kept(c2, d)
  <2>1. d = [c2 EXCEPT !.out = o]
    BY DEF o
  <2> QED
    BY <1>7, <1>12, <2>1 DEF Ctx, Kept
<1> HIDE DEF d
<1>14. Kept(c, d)
  BY <1>1, <1>7, <1>13 DEF Kept
<1> QED
  BY <1>1, <1>6, <1>7, <1>11, <1>12, <1>13, <1>14 DEF m

\* Closing a stream that is open.
LEMMA CloseFields ==
    ASSUME NEW c \in Ctx, NEW s \in Streams, c.id[s] # 0
    PROVE  LET d == close_stream(c, s) IN
           /\ d \in Ctx
           /\ d.stream_id = c.stream_id
           /\ d.id = [c.id EXCEPT ![s] = 0]
           /\ d.next = [[c.next EXCEPT ![c.prev[s]] = c.next[s]] EXCEPT ![s] = None]
           /\ d.prev = [[c.prev EXCEPT ![c.next[s]] = c.prev[s]] EXCEPT ![s] = None]
           /\ d.table = c.table
           /\ d.out = Append(c.out, [req |-> "close", id |-> c.id[s]])
           /\ Kept(c, d)
<1> DEFINE m == [req |-> "close", id |-> c.id[s]]
           o == Append(c.out, m)
           c1 == [c EXCEPT !.out = o]
           p == c1.prev[s]
           n == c1.next[s]
           nx == [[c1.next EXCEPT ![p] = n] EXCEPT ![s] = None]
           pv == [[c1.prev EXCEPT ![n] = p] EXCEPT ![s] = None]
           c2 == [c1 EXCEPT !.next = nx, !.prev = pv]
           i == [c2.id EXCEPT ![s] = 0]
           d == [c2 EXCEPT !.id = i]
<1>1. o \in Seq(Reqs)
  <2>1. m \in Reqs
    BY DEF Reqs, Ctx
  <2> QED
    BY <2>1 DEF Ctx
<1>2. close_stream(c, s) = [[c1 EXCEPT !.next = nx, !.prev = pv] EXCEPT !.id[s] = 0]
  BY DEF close_stream, is_stream_opened, send, list_del
<1> HIDE DEF o
<1>3. /\ c1 \in Ctx /\ c1.stream_id = c.stream_id /\ c1.id = c.id /\ c1.next = c.next
      /\ c1.prev = c.prev /\ c1.table = c.table /\ c1.out = o /\ Kept(c, c1)
  BY <1>1 DEF Ctx, Kept
<1> HIDE DEF c1
<1>4. s \in Nodes
  BY DifferentNodes
<1>5. c1.next \in [Nodes -> Nodes \cup {None}] /\ c1.prev \in [Nodes -> Nodes \cup {None}]
  BY <1>3 DEF Ctx
<1>6. p \in Nodes \cup {None} /\ n \in Nodes \cup {None}
  BY <1>4, <1>5
<1>7. pv \in [Nodes -> Nodes \cup {None}] /\ nx \in [Nodes -> Nodes \cup {None}]
  BY <1>4, <1>5, <1>6
<1>8. /\ nx = [[c.next EXCEPT ![c.prev[s]] = c.next[s]] EXCEPT ![s] = None]
      /\ pv = [[c.prev EXCEPT ![c.next[s]] = c.prev[s]] EXCEPT ![s] = None]
  BY <1>3
<1> HIDE DEF p, n, nx, pv
<1>9. /\ c2 \in Ctx /\ c2.stream_id = c1.stream_id /\ c2.id = c1.id /\ c2.prev = pv /\ c2.next = nx
      /\ c2.table = c1.table /\ c2.out = c1.out /\ Kept(c1, c2)
  BY <1>3, <1>7 DEF Ctx, Kept
<1>10. close_stream(c, s) = d
  <2>1. close_stream(c, s) = [c2 EXCEPT !.id[s] = 0]
    BY <1>2
  <2> HIDE DEF c2
  <2> QED
    BY <1>9, <2>1 DEF Ctx
<1> HIDE DEF c2
<1>11. i \in [Streams -> Nat] /\ i = [c.id EXCEPT ![s] = 0]
  BY <1>3, <1>9 DEF Ctx
<1> HIDE DEF i
<1>12. /\ d \in Ctx /\ d.stream_id = c2.stream_id /\ d.id = i /\ d.prev = c2.prev
       /\ d.next = c2.next /\ d.table = c2.table /\ d.out = c2.out /\ Kept(c2, d)
  BY <1>9, <1>11 DEF Ctx, Kept
<1> HIDE DEF d
<1>13. Kept(c, d)
  BY <1>3, <1>9, <1>12 DEF Kept
<1> QED
  BY <1>3, <1>8, <1>9, <1>10, <1>11, <1>12, <1>13 DEF o

\* Writing to the table.
LEMMA TableFields ==
    ASSUME NEW c \in Ctx, NEW i, NEW x \in TpStreams \cup {None}
    PROVE  LET d == [c EXCEPT !.table[i] = x] IN
           /\ d \in Ctx /\ d.stream_id = c.stream_id /\ d.id = c.id /\ d.next = c.next
           /\ d.prev = c.prev /\ d.table = [c.table EXCEPT ![i] = x] /\ d.out = c.out /\ Kept(c, d)
<1> DEFINE t == [c.table EXCEPT ![i] = x]
           d == [c EXCEPT !.table = t]
<1>1. t \in [1..MaxId -> TpStreams \cup {None}]
  BY DEF Ctx
<1>2. d = [c EXCEPT !.table[i] = x]
  BY DEF Ctx
<1> HIDE DEF t
<1>3. /\ d \in Ctx /\ d.stream_id = c.stream_id /\ d.id = c.id /\ d.next = c.next
      /\ d.prev = c.prev /\ d.table = t /\ d.out = c.out /\ Kept(c, d)
  BY <1>1 DEF Ctx, Kept
<1> HIDE DEF d
<1> QED
  BY <1>2, <1>3 DEF t

\* The streams of tracepoints are in the table, too.
LEMMA CloseCpuFields ==
    ASSUME NEW c \in Ctx, NEW s \in Streams, c.id[s] # 0
    PROVE  LET d == close_cpu_stream(c, s) IN
           /\ d \in Ctx
           /\ d.stream_id = c.stream_id
           /\ d.id = [c.id EXCEPT ![s] = 0]
           /\ d.next = [[c.next EXCEPT ![c.prev[s]] = c.next[s]] EXCEPT ![s] = None]
           /\ d.prev = [[c.prev EXCEPT ![c.next[s]] = c.prev[s]] EXCEPT ![s] = None]
           /\ d.table = [c.table EXCEPT ![c.id[s]] = None]
           /\ d.out = Append(c.out, [req |-> "close", id |-> c.id[s]])
           /\ Kept(c, d)
<1> DEFINE e == [c EXCEPT !.table[c.id[s]] = None]
           d == close_stream(e, s)
<1>1. /\ e \in Ctx /\ e.stream_id = c.stream_id /\ e.id = c.id /\ e.next = c.next
      /\ e.prev = c.prev /\ e.table = [c.table EXCEPT ![c.id[s]] = None] /\ e.out = c.out
      /\ Kept(c, e)
  BY TableFields
<1>2. close_cpu_stream(c, s) = d
  BY DEF close_cpu_stream, is_stream_opened
<1> HIDE DEF e
<1>3. /\ d \in Ctx
      /\ d.stream_id = e.stream_id
      /\ d.id = [e.id EXCEPT ![s] = 0]
      /\ d.next = [[e.next EXCEPT ![e.prev[s]] = e.next[s]] EXCEPT ![s] = None]
      /\ d.prev = [[e.prev EXCEPT ![e.next[s]] = e.prev[s]] EXCEPT ![s] = None]
      /\ d.table = e.table
      /\ d.out = Append(e.out, [req |-> "close", id |-> e.id[s]])
      /\ Kept(e, d)
  BY <1>1, CloseFields
<1> HIDE DEF d
<1>4. Kept(c, d)
  BY <1>1, <1>3 DEF Kept
<1> QED
  BY <1>1, <1>2, <1>3, <1>4

\* open_cpu_stream(): as open_stream(), and the id is put in the table.
LEMMA OpenCpuFields ==
    ASSUME NEW c \in Ctx, NEW s \in TpStreams
    PROVE  LET d == open_cpu_stream(c, s) IN
           /\ d \in Ctx
           /\ d.stream_id = c.stream_id + 1
           /\ d.id = [c.id EXCEPT ![s] = c.stream_id]
           /\ d.next = [[c.next EXCEPT ![s] = c.next[ListHead]] EXCEPT ![ListHead] = s]
           /\ d.prev = [[c.prev EXCEPT ![s] = ListHead] EXCEPT ![c.next[ListHead]] = s]
           /\ d.table = [c.table EXCEPT ![c.stream_id] = s]
           /\ d.out = Append(c.out, [req |-> "open", id |-> c.stream_id, stream |-> s])
           /\ Kept(c, d)
<1> DEFINE e == open_stream(c, s)
           d == [e EXCEPT !.table[c.stream_id] = s]
<1>0. s \in Streams
  BY DEF Streams
<1>1. /\ e \in Ctx
      /\ e.stream_id = c.stream_id + 1
      /\ e.id = [c.id EXCEPT ![s] = c.stream_id]
      /\ e.next = [[c.next EXCEPT ![s] = c.next[ListHead]] EXCEPT ![ListHead] = s]
      /\ e.prev = [[c.prev EXCEPT ![s] = ListHead] EXCEPT ![c.next[ListHead]] = s]
      /\ e.table = c.table
      /\ e.out = Append(c.out, [req |-> "open", id |-> c.stream_id, stream |-> s])
      /\ Kept(c, e)
  BY <1>0, OpenFields
<1>2. open_cpu_stream(c, s) = d
  BY DEF open_cpu_stream
<1> HIDE DEF e
<1>3. /\ d \in Ctx /\ d.stream_id = e.stream_id /\ d.id = e.id /\ d.next = e.next
      /\ d.prev = e.prev /\ d.table = [e.table EXCEPT ![c.stream_id] = s] /\ d.out = e.out
      /\ Kept(e, d)
  BY <1>1, TableFields
<1> HIDE DEF d
<1>4. Kept(c, d)
  BY <1>1, <1>3 DEF Kept
<1> QED
  BY <1>1, <1>2, <1>3, <1>4

-----------------------------------------------------------------------------
(***************************************************************************)
(* Loops.                                                                  *)
(***************************************************************************)

\* A function that repeats steps on the elements of a set.
Loop(n, D, c, g) ==
    \E f \in [0..n -> D] : f[0] = c /\ \A i \in 1..n : f[i] = g[i][f[i - 1]]

\* A loop of n steps within D exists.
LEMMA Iterates ==
    ASSUME NEW n \in Nat, NEW D, NEW c \in D, NEW g \in [1..n -> [D -> D]]
    PROVE  Loop(n, D, c, g)
<1> DEFINE Good(f, m) == f[0] = c /\ \A i \in 1..n : i <= m => f[i] = g[i][f[i - 1]]
           T == {m \in Nat : \E f \in [0..n -> D] : Good(f, m)}
<1>1. 0 \in T
  <2> DEFINE f == [i \in 0..n |-> c]
  <2>1. f \in [0..n -> D] /\ f[0] = c
    OBVIOUS
  <2>2. Good(f, 0)
    BY <2>1
  <2> HIDE DEF f, Good
  <2> QED
    BY <2>1, <2>2
<1>2. ASSUME NEW m \in T
      PROVE  m + 1 \in T
  <2>1. PICK f \in [0..n -> D] : Good(f, m)
    OBVIOUS
  <2> DEFINE h == [i \in 0..n |-> IF i = 0 THEN c ELSE g[i][f[i - 1]]]
  <2>2. \A i \in 1..n : i - 1 \in 0..n /\ f[i - 1] \in D /\ g[i][f[i - 1]] \in D
    OBVIOUS
  <2>3. h \in [0..n -> D] /\ h[0] = c
    BY <2>2
  <2>4. \A i \in 0..n : i <= m => h[i] = f[i]
    BY <2>1
  <2>5. ASSUME NEW i \in 1..n, i <= m + 1
        PROVE  h[i] = g[i][h[i - 1]]
    <3>1. h[i] = g[i][f[i - 1]]
      OBVIOUS
    <3>2. i - 1 \in 0..n /\ i - 1 <= m
      BY <2>5
    <3>3. h[i - 1] = f[i - 1]
      BY <2>4, <3>2
    <3> HIDE DEF h
    <3> QED
      BY <3>1, <3>3
  <2>6. m + 1 \in Nat
    OBVIOUS
  <2>7. Good(h, m + 1)
    <3> HIDE DEF h
    <3> QED
      BY <2>3, <2>5
  <2> HIDE DEF h, Good
  <2> QED
    BY <2>3, <2>6, <2>7
<1>3. T \in SUBSET Nat
  OBVIOUS
<1>4. n \in T
  <2> HIDE DEF T
  <2> QED
    BY <1>1, <1>2, <1>3, NumberInduction
<1>5. PICK f \in [0..n -> D] : Good(f, n)
  BY <1>4
<1> QED
  BY <1>5 DEF Loop

-----------------------------------------------------------------------------
(***************************************************************************)
(* What requests make of the streams that are open.                        *)
(***************************************************************************)

\* Streams of a server.
StreamSet == [id : Nat, stream : Streams]

\* A request makes streams of streams.
LEMMA HandledType ==
    ASSUME NEW S \in SUBSET StreamSet, NEW r \in Reqs
    PROVE  Handled(S, r) \in SUBSET StreamSet
<1>1. CASE r.req = "open"
  <2>1. r.id \in Nat /\ r.stream \in Streams
    BY <1>1 DEF Reqs
  <2> QED
    BY <1>1, <2>1 DEF Handled, StreamSet
<1>2. CASE r.req # "open"
  BY <1>2 DEF Handled
<1> QED
  BY <1>1, <1>2

\* The loop of HandledAll.
LEMMA HandledLoop ==
    ASSUME NEW S \in SUBSET StreamSet, NEW l \in Seq(Reqs)
    PROVE  \E f : /\ f[0] = S /\ HandledAll(S, l) = f[Len(l)]
                  /\ \A i \in 1..Len(l) : f[i] = Handled(f[i - 1], l[i])
<1> DEFINE n == Len(l)
           D == SUBSET StreamSet
           g == [i \in 1..n |-> [d \in D |-> Handled(d, l[i])]]
           fun == CHOOSE f : f = [i \in 0..n |-> IF i = 0 THEN S ELSE Handled(f[i - 1], l[i])]
<1>0. n \in Nat
  OBVIOUS
<1>1. g \in [1..n -> [D -> D]]
  <2>1. \A i \in 1..n : l[i] \in Reqs
    OBVIOUS
  <2> HIDE DEF n
  <2>2. \A i \in 1..n : \A d \in D : Handled(d, l[i]) \in D
    BY <2>1, HandledType DEF n
  <2> HIDE DEF D
  <2> QED
    BY <2>2
<1>2. HandledAll(S, l) = fun[n]
  BY Zenon DEF HandledAll
<1> HIDE DEF n, D
<1>3. S \in D
  BY DEF D
<1>4. PICK f \in [0..n -> D] : f[0] = S /\ \A i \in 1..n : f[i] = g[i][f[i - 1]]
  <2> HIDE DEF g
  <2> QED
    <3>1. Loop(n, D, S, g)
      BY <1>0, <1>1, <1>3, Iterates, Zenon
    <3> QED
      BY <3>1 DEF Loop
<1>5. \A i \in 1..n : i - 1 \in 0..n /\ f[i - 1] \in D /\ f[i] = Handled(f[i - 1], l[i])
  BY <1>0, <1>4
<1>6. f = [i \in 0..n |-> IF i = 0 THEN S ELSE Handled(f[i - 1], l[i])]
  <2> DEFINE h == [i \in 0..n |-> IF i = 0 THEN S ELSE Handled(f[i - 1], l[i])]
  <2>1. \A i \in 0..n : f[i] = h[i]
    BY <1>0, <1>4, <1>5
  <2> QED
    BY <1>4, <2>1
<1>7. fun = [i \in 0..n |-> IF i = 0 THEN S ELSE Handled(fun[i - 1], l[i])]
  BY ONLY <1>6, Zenon DEF fun
<1> HIDE DEF fun
<1>8. fun[0] = S /\ \A i \in 1..n : fun[i] = Handled(fun[i - 1], l[i])
  <2>1. 0 \in 0..n /\ \A i \in 1..n : i \in 0..n /\ i # 0
    BY <1>0
  <2> QED
    BY <1>7, <2>1
<1> QED
  BY <1>2, <1>8 DEF n

\* No request changes nothing.
LEMMA HandledNone ==
    ASSUME NEW S \in SUBSET StreamSet
    PROVE  HandledAll(S, <<>>) = S
<1> DEFINE e == <<>>
<1>1. e \in Seq(Reqs) /\ Len(e) = 0
  OBVIOUS
<1> HIDE DEF e
<1>2. PICK f : /\ f[0] = S /\ HandledAll(S, e) = f[Len(e)]
               /\ \A i \in 1..Len(e) : f[i] = Handled(f[i - 1], e[i])
  BY <1>1, HandledLoop
<1>3. HandledAll(S, e) = S
  BY <1>1, <1>2
<1> QED
  BY <1>3 DEF e

\* The last request is handled last.
LEMMA HandledAppend ==
    ASSUME NEW S \in SUBSET StreamSet, NEW l \in Seq(Reqs), NEW r \in Reqs
    PROVE  HandledAll(S, Append(l, r)) = Handled(HandledAll(S, l), r)
<1> DEFINE m == Append(l, r)
           n == Len(l)
<1>1. m \in Seq(Reqs) /\ Len(m) = n + 1 /\ n \in Nat /\ m[n + 1] = r /\ \A i \in 1..n : l[i] = m[i]
  OBVIOUS
<1> HIDE DEF m
<1>2. PICK f : /\ f[0] = S /\ HandledAll(S, l) = f[Len(l)]
               /\ \A i \in 1..Len(l) : f[i] = Handled(f[i - 1], l[i])
  BY HandledLoop
<1>3. PICK g : /\ g[0] = S /\ HandledAll(S, m) = g[Len(m)]
               /\ \A i \in 1..Len(m) : g[i] = Handled(g[i - 1], m[i])
  BY <1>1, HandledLoop
<1>4. f[n] = g[n]
  <2> HIDE DEF n
  <2>1. \A i \in 1..n : /\ f[i] = Handled(f[i - 1], l[i])
                        /\ g[i] = Handled(g[i - 1], m[i]) /\ l[i] = m[i]
    BY <1>1, <1>2, <1>3 DEF n
  <2>2. f[0] = g[0]
    BY <1>2, <1>3
  <2> DEFINE T == {i \in Nat : i <= n => f[i] = g[i]}
  <2>3. 0 \in T
    BY <2>2
  <2>4. ASSUME NEW i \in T
        PROVE  i + 1 \in T
    <3>1. SUFFICES ASSUME i + 1 <= n
                   PROVE  f[i + 1] = g[i + 1]
      OBVIOUS
    <3>2. i + 1 \in 1..n /\ (i + 1) - 1 = i /\ f[i] = g[i]
      BY <1>1, <3>1
    <3> QED
      BY <2>1, <3>2
  <2>5. T \in SUBSET Nat
    OBVIOUS
  <2>6. n \in T
    <3> HIDE DEF T
    <3> QED
      BY <1>1, <2>3, <2>4, <2>5, NumberInduction
  <2> QED
    BY <1>1, <2>6
<1>5. n + 1 \in 1..Len(m) /\ (n + 1) - 1 = n
  BY <1>1
<1>6. HandledAll(S, m) = Handled(g[n], r)
  BY <1>1, <1>3, <1>5
<1> QED
  BY <1>2, <1>4, <1>6 DEF m

\* Requests make streams of streams.
LEMMA HandledAllType ==
    ASSUME NEW S \in SUBSET StreamSet, NEW q \in Seq(Reqs)
    PROVE  HandledAll(S, q) \in SUBSET StreamSet
<1> DEFINE F == {l \in Seq(Reqs) : HandledAll(S, l) \in SUBSET StreamSet}
<1>1. <<>> \in F
  <2>1. <<>> \in Seq(Reqs)
    OBVIOUS
  <2> QED
    BY <2>1, HandledNone
<1>2. ASSUME NEW l \in F, NEW r \in Reqs
      PROVE  Append(l, r) \in F
  <2>1. l \in Seq(Reqs) /\ Append(l, r) \in Seq(Reqs) /\ HandledAll(S, l) \in SUBSET StreamSet
    OBVIOUS
  <2>2. HandledAll(S, Append(l, r)) = Handled(HandledAll(S, l), r)
    BY <2>1, HandledAppend
  <2>3. Handled(HandledAll(S, l), r) \in SUBSET StreamSet
    BY <2>1, HandledType
  <2> QED
    BY <2>1, <2>2, <2>3
<1>3. F \in SUBSET Seq(Reqs)
  OBVIOUS
<1>4. q \in F
  <2> HIDE DEF F
  <2> QED
    BY <1>1, <1>2, <1>3, SequenceInduction
<1> QED
  BY <1>4

\* Requests after others.
LEMMA HandledConcat ==
    ASSUME NEW S \in SUBSET StreamSet, NEW a \in Seq(Reqs), NEW b \in Seq(Reqs)
    PROVE  HandledAll(S, a \o b) = HandledAll(HandledAll(S, a), b)
<1> DEFINE R == HandledAll(S, a)
           F == {l \in Seq(Reqs) : HandledAll(S, a \o l) = HandledAll(R, l)}
<1>0. R \in SUBSET StreamSet
  BY HandledAllType
<1> HIDE DEF R
<1>1. <<>> \in F
  <2>1. <<>> \in Seq(Reqs) /\ a \o <<>> = a
    OBVIOUS
  <2> QED
    BY <1>0, <2>1, HandledNone DEF R
<1>2. ASSUME NEW l \in F, NEW r \in Reqs
      PROVE  Append(l, r) \in F
  <2>1. /\ l \in Seq(Reqs) /\ Append(l, r) \in Seq(Reqs)
        /\ HandledAll(S, a \o l) = HandledAll(R, l)
    OBVIOUS
  <2>2. a \o l \in Seq(Reqs) /\ a \o Append(l, r) = Append(a \o l, r)
    BY <2>1, AppendAfter
  <2> DEFINE al == a \o l
  <2>3. HandledAll(S, Append(al, r)) = Handled(HandledAll(S, al), r)
    <3>1. al \in Seq(Reqs)
      BY <2>2
    <3> HIDE DEF al
    <3> QED
      BY <3>1, HandledAppend
  <2>4. HandledAll(R, Append(l, r)) = Handled(HandledAll(R, l), r)
    BY <1>0, <2>1, HandledAppend
  <2>5. HandledAll(S, a \o Append(l, r)) = HandledAll(R, Append(l, r))
    BY <2>1, <2>2, <2>3, <2>4, Zenon
  <2> QED
    BY <2>1, <2>5
<1>3. F \in SUBSET Seq(Reqs)
  OBVIOUS
<1>4. b \in F
  <2> HIDE DEF F
  <2> QED
    BY <1>1, <1>2, <1>3, SequenceInduction
<1> QED
  BY <1>4 DEF R

\* The first request.
LEMMA HandledFirst ==
    ASSUME NEW S \in SUBSET StreamSet, NEW l \in Seq(Reqs), l # <<>>
    PROVE  HandledAll(S, l) = HandledAll(Handled(S, l[1]), Tail(l))
<1> DEFINE e == <<>>
           h == Append(e, l[1])
           t == Tail(l)
<1>1. l[1] \in Reqs /\ t \in Seq(Reqs) /\ h \in Seq(Reqs) /\ e \in Seq(Reqs)
  OBVIOUS
<1>2. l = h \o t
  <2>1. h \o t \in Seq(Reqs) /\ Len(h \o t) = Len(l)
    BY <1>1
  <2>2. \A i \in 1..Len(l) : (h \o t)[i] = l[i]
    BY <1>1
  <2> QED
    BY <2>1, <2>2, SeqEqual
<1>3. HandledAll(S, e) = S
  BY HandledNone
<1> HIDE DEF e
<1>4. HandledAll(S, h) = Handled(HandledAll(S, e), l[1])
  BY <1>1, HandledAppend
<1> HIDE DEF h, t
<1>5. HandledAll(S, h \o t) = HandledAll(HandledAll(S, h), t)
  BY <1>1, HandledConcat
<1> QED
  BY <1>2, <1>3, <1>4, <1>5 DEF t

-----------------------------------------------------------------------------
(***************************************************************************)
(* Sets of contexts that opening and closing streams does not leave.  What *)
(* holds of every context of such a set holds after each loop.             *)
(***************************************************************************)

\* d is c after the stream s was closed
ClosedTo(c, d, s) ==
    /\ d \in Ctx
    /\ d.stream_id = c.stream_id
    /\ d.id = [c.id EXCEPT ![s] = 0]
    /\ d.next = [[c.next EXCEPT ![c.prev[s]] = c.next[s]] EXCEPT ![s] = None]
    /\ d.prev = [[c.prev EXCEPT ![c.next[s]] = c.prev[s]] EXCEPT ![s] = None]
    /\ d.table = IF s \in TpStreams THEN [c.table EXCEPT ![c.id[s]] = None] ELSE c.table
    /\ d.out = Append(c.out, [req |-> "close", id |-> c.id[s]])
    /\ Kept(c, d)

\* d is c after the stream s was opened
OpenedTo(c, d, s) ==
    /\ d \in Ctx
    /\ d.stream_id = c.stream_id + 1
    /\ d.id = [c.id EXCEPT ![s] = c.stream_id]
    /\ d.next = [[c.next EXCEPT ![s] = c.next[ListHead]] EXCEPT ![ListHead] = s]
    /\ d.prev = [[c.prev EXCEPT ![s] = ListHead] EXCEPT ![c.next[ListHead]] = s]
    /\ d.table = IF s \in TpStreams THEN [c.table EXCEPT ![c.stream_id] = s] ELSE c.table
    /\ d.out = Append(c.out, [req |-> "open", id |-> c.stream_id, stream |-> s])
    /\ Kept(c, d)

\* What open_stream() is called for: a stream that is closed, with an id that is
\* not 0, and with a place in the table if it is of a tracepoint.
MayOpen(c, s) ==
    /\ c.id[s] = 0 /\ c.stream_id >= 1
    /\ s \in TpStreams => c.stream_id <= MaxId /\ Live(c, s[1])

\* d is c but for the data and for is_sampling
Touched(c, d) ==
    /\ d \in Ctx
    /\ d.stream_id = c.stream_id /\ d.id = c.id /\ d.next = c.next /\ d.prev = c.prev
    /\ d.table = c.table /\ d.out = c.out
    /\ d.features = c.features /\ d.metric_set = c.metric_set
    /\ d.perf_tracepoints = c.perf_tracepoints /\ d.tps = c.tps /\ d.names = c.names
    /\ d.uuids = c.uuids

\* D is not left by closing streams of T, by opening them, and by what is done
\* beside.
ClosesWithin(D, T) ==
    \A c \in D : \A s \in T : \A d \in Ctx : c.id[s] # 0 /\ ClosedTo(c, d, s) => d \in D

OpensWithin(D, T) ==
    \A c \in D : \A s \in T : \A d \in Ctx : MayOpen(c, s) /\ OpenedTo(c, d, s) => d \in D

TouchesWithin(D) == \A c \in D : \A d \in Ctx : Touched(c, d) => d \in D

Stable(D, T) == ClosesWithin(D, T) /\ OpensWithin(D, T) /\ TouchesWithin(D)

\* The streams of a tracepoint.
TpOf(a) == {s \in TpStreams : s[1] = a}

\* The streams of a tracepoint are those of the CPUs.
LEMMA CpuStreams ==
    ASSUME NEW a \in Addrs
    PROVE  /\ \A i \in 0..NCpus - 1 : <<a, i>> \in TpStreams /\ <<a, i>>[1] = a
           /\ \A s \in TpOf(a) : \E i \in 0..NCpus - 1 : s = <<a, i>>
           /\ NCpus \in Nat /\ MaxId \in Nat
<1>1. NCpus \in Nat /\ MaxId \in Nat
  BY ClientAssumption
<1> QED
  BY <1>1 DEF TpStreams, TpOf

\* close_stream() and the body of the loop of close_perf_tracepoint().
LEMMA CloseStep ==
    ASSUME NEW c \in Ctx, NEW s \in Streams
    PROVE  /\ (c.id[s] # 0 /\ s \notin TpStreams) => ClosedTo(c, close_stream(c, s), s)
           /\ (c.id[s] # 0 /\ s \in TpStreams) => ClosedTo(c, close_cpu_stream(c, s), s)
           /\ c.id[s] = 0 => close_stream(c, s) = c /\ close_cpu_stream(c, s) = c
<1>1. ASSUME c.id[s] # 0, s \notin TpStreams PROVE ClosedTo(c, close_stream(c, s), s)
  BY <1>1, CloseFields DEF ClosedTo
<1>2. ASSUME c.id[s] # 0, s \in TpStreams PROVE ClosedTo(c, close_cpu_stream(c, s), s)
  BY <1>2, CloseCpuFields DEF ClosedTo
<1>3. c.id[s] = 0 => close_stream(c, s) = c /\ close_cpu_stream(c, s) = c
  BY DEF close_stream, close_cpu_stream, is_stream_opened
<1> QED
  BY <1>1, <1>2, <1>3

\* open_stream() and the body of the loop of open_perf_tracepoint().
LEMMA OpenStep ==
    ASSUME NEW c \in Ctx, NEW s \in Streams
    PROVE  /\ s \notin TpStreams => OpenedTo(c, open_stream(c, s), s)
           /\ s \in TpStreams => OpenedTo(c, open_cpu_stream(c, s), s)
<1>1. ASSUME s \notin TpStreams PROVE OpenedTo(c, open_stream(c, s), s)
  BY <1>1, OpenFields DEF OpenedTo
<1>2. ASSUME s \in TpStreams PROVE OpenedTo(c, open_cpu_stream(c, s), s)
  BY <1>2, OpenCpuFields DEF OpenedTo
<1> QED
  BY <1>1, <1>2

\* What closing a stream does to the ids.
LEMMA ClosedIds ==
    ASSUME NEW c \in Ctx, NEW s \in TpStreams
    PROVE  LET d == close_cpu_stream(c, s) IN
           /\ d \in Ctx /\ Kept(c, d) /\ d.stream_id = c.stream_id /\ d.id[s] = 0
           /\ \A t \in Streams \ {s} : d.id[t] = c.id[t]
<1> DEFINE d == close_cpu_stream(c, s)
<1>0. s \in Streams /\ c.id \in [Streams -> Nat]
  BY DEF Streams, Ctx
<1>1. CASE c.id[s] = 0
  <2>1. d = c
    BY <1>0, <1>1, CloseStep
  <2> HIDE DEF d
  <2> QED
    BY <1>1, <2>1 DEF Kept, d
<1>2. CASE c.id[s] # 0
  <2>1. ClosedTo(c, d, s)
    BY <1>0, <1>2, CloseStep
  <2> HIDE DEF d
  <2>2. d \in Ctx /\ Kept(c, d) /\ d.stream_id = c.stream_id /\ d.id = [c.id EXCEPT ![s] = 0]
    BY <2>1 DEF ClosedTo
  <2>3. d.id[s] = 0 /\ \A t \in Streams \ {s} : d.id[t] = c.id[t]
    BY <1>0, <2>2
  <2> QED
    BY <2>2, <2>3 DEF d
<1> QED
  BY <1>1, <1>2

\* ... and of the loop that opens.
LEMMA OpenedIds ==
    ASSUME NEW c \in Ctx, NEW s \in TpStreams
    PROVE  LET d == open_cpu_stream(c, s) IN
           /\ d \in Ctx /\ Kept(c, d) /\ d.stream_id = c.stream_id + 1
           /\ \A t \in Streams \ {s} : d.id[t] = c.id[t]
<1> DEFINE d == open_cpu_stream(c, s)
<1>0. s \in Streams /\ c.id \in [Streams -> Nat]
  BY DEF Streams, Ctx
<1>1. OpenedTo(c, d, s)
  BY <1>0, OpenStep
<1> HIDE DEF d
<1>2. d \in Ctx /\ Kept(c, d) /\ d.stream_id = c.stream_id + 1 /\ d.id = [c.id EXCEPT ![s] = c.stream_id]
  BY <1>1 DEF OpenedTo
<1>3. \A t \in Streams \ {s} : d.id[t] = c.id[t]
  BY <1>0, <1>2
<1> QED
  BY <1>2, <1>3 DEF d

\* The loop of close_perf_tracepoint().
LEMMA CloseTpLoop ==
    ASSUME NEW c \in Ctx, NEW a \in Addrs
    PROVE  \E f : /\ f[0] = c /\ close_perf_tracepoint(c, a) = f[NCpus]
                  /\ \A i \in 0..NCpus : f[i] \in Ctx
                  /\ \A i \in 1..NCpus : f[i] = close_cpu_stream(f[i - 1], <<a, NCpus - i>>)
<1> DEFINE n == NCpus
           g == [i \in 1..n |-> [d \in Ctx |-> close_cpu_stream(d, <<a, n - i>>)]]
           fun == CHOOSE f : f = [i \in 0..n |-> IF i = 0 THEN c
                                                 ELSE close_cpu_stream(f[i - 1], <<a, n - i>>)]
<1>0. n \in Nat
  BY CpuStreams
<1>1. g \in [1..n -> [Ctx -> Ctx]]
  <2>1. ASSUME NEW i \in 1..n, NEW d \in Ctx
        PROVE  close_cpu_stream(d, <<a, n - i>>) \in Ctx
    <3>1. n - i \in 0..NCpus - 1
      BY <1>0
    <3>2. <<a, n - i>> \in TpStreams
      BY <3>1, CpuStreams
    <3> DEFINE s == <<a, n - i>>
    <3>3. s \in TpStreams
      BY <3>2
    <3> HIDE DEF s
    <3>4. close_cpu_stream(d, s) \in Ctx
      BY <3>3, ClosedIds
    <3> QED
      BY <3>4 DEF s
  <2> QED
    BY <2>1
<1>2. close_perf_tracepoint(c, a) = fun[n]
  BY Zenon DEF close_perf_tracepoint
<1> HIDE DEF n
<1>4. PICK f \in [0..n -> Ctx] : f[0] = c /\ \A i \in 1..n : f[i] = g[i][f[i - 1]]
  <2> HIDE DEF g
  <2> QED
    <3>1. Loop(n, Ctx, c, g)
      BY <1>0, <1>1, Iterates, Zenon
    <3> QED
      BY <3>1 DEF Loop
<1>5. \A i \in 1..n : i - 1 \in 0..n /\ f[i - 1] \in Ctx /\ f[i] = close_cpu_stream(f[i - 1], <<a, n - i>>)
  <2>1. ASSUME NEW i \in 1..n
        PROVE  i - 1 \in 0..n /\ f[i - 1] \in Ctx /\ f[i] = close_cpu_stream(f[i - 1], <<a, n - i>>)
    <3>1. i - 1 \in 0..n
      BY <1>0
    <3>2. f[i - 1] \in Ctx /\ f[i] = g[i][f[i - 1]]
      BY <1>4, <3>1
    <3>3. \A d \in Ctx : g[i][d] = close_cpu_stream(d, <<a, n - i>>)
      OBVIOUS
    <3> HIDE DEF g
    <3> QED
      BY <3>1, <3>2, <3>3
  <2> QED
    BY <2>1
<1>6. f = [i \in 0..n |-> IF i = 0 THEN c ELSE close_cpu_stream(f[i - 1], <<a, n - i>>)]
  <2> DEFINE h == [i \in 0..n |-> IF i = 0 THEN c ELSE close_cpu_stream(f[i - 1], <<a, n - i>>)]
  <2>1. \A i \in 0..n : f[i] = h[i]
    BY <1>0, <1>4, <1>5
  <2> QED
    BY <1>4, <2>1
<1>7. fun = [i \in 0..n |-> IF i = 0 THEN c ELSE close_cpu_stream(fun[i - 1], <<a, n - i>>)]
  BY ONLY <1>6, Zenon DEF fun
<1> HIDE DEF fun
<1>8. fun[0] = c /\ \A i \in 1..n : fun[i] = close_cpu_stream(fun[i - 1], <<a, n - i>>)
  <2>1. 0 \in 0..n /\ \A i \in 1..n : i \in 0..n /\ i # 0
    BY <1>0
  <2> QED
    BY <1>7, <2>1
<1>9. \A i \in 0..n : fun[i] \in Ctx
  <2> DEFINE T == {i \in Nat : i <= n => fun[i] \in Ctx}
  <2>1. 0 \in T
    BY <1>8
  <2>2. ASSUME NEW i \in T
        PROVE  i + 1 \in T
    <3>1. SUFFICES ASSUME i + 1 <= n
                   PROVE  fun[i + 1] \in Ctx
      OBVIOUS
    <3>2. i + 1 \in 1..n /\ (i + 1) - 1 = i /\ fun[i] \in Ctx /\ n - (i + 1) \in 0..NCpus - 1
      BY <1>0, <3>1 DEF n
    <3> DEFINE s == <<a, n - (i + 1)>>
               d == fun[i]
    <3>3. s \in TpStreams /\ d \in Ctx
      BY <3>2, CpuStreams
    <3>4. fun[i + 1] = close_cpu_stream(d, s)
      BY <1>8, <3>2
    <3> HIDE DEF s, d
    <3>5. close_cpu_stream(d, s) \in Ctx
      BY <3>3, ClosedIds
    <3> QED
      BY <3>4, <3>5
  <2>3. T \in SUBSET Nat
    OBVIOUS
  <2>4. \A i \in Nat : i \in T
    <3> HIDE DEF T
    <3> QED
      BY <2>1, <2>2, <2>3, NumberInduction
  <2> QED
    BY <1>0, <2>4
<1> QED
  BY <1>2, <1>8, <1>9 DEF n

\* close_perf_tracepoint() closes the streams of the tracepoint, and no other.
LEMMA CloseTp ==
    ASSUME NEW D \in SUBSET Ctx, NEW T, ClosesWithin(D, T), TpStreams \subseteq T,
           NEW c \in D, NEW a \in Addrs
    PROVE  LET d == close_perf_tracepoint(c, a) IN
           /\ d \in D /\ Kept(c, d) /\ d.stream_id = c.stream_id
           /\ \A s \in TpOf(a) : d.id[s] = 0
           /\ \A s \in Streams \ TpOf(a) : d.id[s] = c.id[s]
<1>0. NCpus \in Nat
  BY CpuStreams
<1>1. PICK f : /\ f[0] = c /\ close_perf_tracepoint(c, a) = f[NCpus]
               /\ \A i \in 0..NCpus : f[i] \in Ctx
               /\ \A i \in 1..NCpus : f[i] = close_cpu_stream(f[i - 1], <<a, NCpus - i>>)
  BY CloseTpLoop
<1> DEFINE Done(d, i) == /\ d \in D /\ Kept(c, d) /\ d.stream_id = c.stream_id
                         /\ \A j \in 0..NCpus - 1 : j >= NCpus - i => d.id[<<a, j>>] = 0
                         /\ \A s \in Streams \ TpOf(a) : d.id[s] = c.id[s]
           I == {i \in Nat : i <= NCpus => Done(f[i], i)}
<1>2. 0 \in I
  BY <1>0, <1>1 DEF Kept
<1>3. ASSUME NEW i \in I
      PROVE  i + 1 \in I
  <2>1. SUFFICES ASSUME i + 1 <= NCpus
                 PROVE  Done(f[i + 1], i + 1)
    OBVIOUS
  <2>2. i \in Nat /\ i + 1 \in 1..NCpus /\ (i + 1) - 1 = i /\ NCpus - (i + 1) \in 0..NCpus - 1
    BY <1>0, <2>1
  <2> DEFINE k == NCpus - (i + 1)
             s == <<a, k>>
             d == f[i]
             e == close_cpu_stream(d, s)
  <2>3. s \in TpStreams /\ s \in TpOf(a) /\ k \in 0..NCpus - 1
    BY <2>2, CpuStreams DEF TpOf
  <2>4. f[i + 1] = e
    BY <1>1, <2>2
  <2>5. Done(d, i)
    <3>1. i <= NCpus
      BY <1>0, <2>1, <2>2
    <3> HIDE DEF Done
    <3>2. i <= NCpus => Done(f[i], i)
      OBVIOUS
    <3> QED
      BY <3>1, <3>2
  <2>6. d \in Ctx /\ d \in D
    BY <2>5
  <2>7. \A j \in 0..NCpus - 1 : j # k => <<a, j>> # s /\ <<a, j>> \in Streams
    BY CpuStreams DEF Streams
  <2>8. \A j \in 0..NCpus - 1 : j >= NCpus - (i + 1) => j = k \/ j >= NCpus - i
    BY <1>0, <2>2
  <2> HIDE DEF s, d
  <2>9. /\ e \in Ctx /\ Kept(d, e) /\ e.stream_id = d.stream_id /\ e.id[s] = 0
        /\ \A t \in Streams \ {s} : e.id[t] = d.id[t]
    BY <2>3, <2>6, ClosedIds
  <2>10. e \in D
    <3>1. s \in Streams /\ s \in T
      BY <2>3 DEF Streams
    <3>2. CASE d.id[s] = 0
      BY <2>6, <3>1, <3>2, CloseStep
    <3>3. CASE d.id[s] # 0
      <4>1. ClosedTo(d, e, s)
        BY <2>3, <2>6, <3>1, <3>3, CloseStep
      <4> HIDE DEF e
      <4> QED
        BY <2>6, <2>9, <3>1, <3>3, <4>1 DEF ClosesWithin
    <3> QED
      BY <3>2, <3>3
  <2> HIDE DEF e
  <2>11. Kept(c, e) /\ e.stream_id = c.stream_id
    BY <2>5, <2>9 DEF Kept
  <2>12. ASSUME NEW j \in 0..NCpus - 1, j >= NCpus - (i + 1)
         PROVE  e.id[<<a, j>>] = 0
    <3>1. CASE j = k
      BY <2>9, <3>1 DEF s
    <3>2. CASE j # k
      <4>1. <<a, j>> # s /\ <<a, j>> \in Streams /\ j >= NCpus - i
        BY <2>7, <2>8, <2>12, <3>2
      <4>2. e.id[<<a, j>>] = d.id[<<a, j>>]
        BY <2>9, <4>1
      <4> QED
        BY <2>5, <4>1, <4>2
    <3> QED
      BY <3>1, <3>2
  <2>13. ASSUME NEW t \in Streams \ TpOf(a)
         PROVE  e.id[t] = c.id[t]
    <3>1. t # s
      BY <2>3
    <3> QED
      BY <2>5, <2>9, <3>1
  <2> QED
    BY <2>4, <2>10, <2>11, <2>12, <2>13
<1>4. I \in SUBSET Nat
  OBVIOUS
<1>5. NCpus \in I
  <2> HIDE DEF I
  <2> QED
    BY <1>0, <1>2, <1>3, <1>4, NumberInduction
<1>6. Done(f[NCpus], NCpus)
  BY <1>0, <1>5
<1> DEFINE d == f[NCpus]
<1>7. \A s \in TpOf(a) : d.id[s] = 0
  <2> SUFFICES ASSUME NEW s \in TpOf(a) PROVE d.id[s] = 0
    OBVIOUS
  <2>1. PICK j \in 0..NCpus - 1 : s = <<a, j>>
    BY CpuStreams
  <2>2. j >= NCpus - NCpus
    BY <1>0
  <2> QED
    BY <1>6, <2>1, <2>2
<1> QED
  BY <1>1, <1>6, <1>7

\* The loop of open_perf_tracepoint().
LEMMA OpenTpLoop ==
    ASSUME NEW c, NEW a \in Addrs, NEW c0 \in Ctx, c0 = close_perf_tracepoint(c, a)
    PROVE  \E f : /\ f[0] = c0 /\ open_perf_tracepoint(c, a) = f[NCpus]
                  /\ \A i \in 1..NCpus : f[i] = open_cpu_stream(f[i - 1], <<a, i - 1>>)
<1> DEFINE n == NCpus
           g == [i \in 1..n |-> [d \in Ctx |-> open_cpu_stream(d, <<a, i - 1>>)]]
           fun == CHOOSE f : f = [i \in 0..n |-> IF i = 0 THEN close_perf_tracepoint(c, a)
                                                 ELSE open_cpu_stream(f[i - 1], <<a, i - 1>>)]
<1>0. n \in Nat
  BY CpuStreams
<1>1. g \in [1..n -> [Ctx -> Ctx]]
  <2>1. ASSUME NEW i \in 1..n, NEW d \in Ctx
        PROVE  open_cpu_stream(d, <<a, i - 1>>) \in Ctx
    <3>1. i - 1 \in 0..NCpus - 1
      BY <1>0
    <3> DEFINE s == <<a, i - 1>>
    <3>2. s \in TpStreams
      BY <3>1, CpuStreams
    <3> HIDE DEF s
    <3>3. open_cpu_stream(d, s) \in Ctx
      BY <3>2, OpenedIds
    <3> QED
      BY <3>3 DEF s
  <2> QED
    BY <2>1
<1>2. open_perf_tracepoint(c, a) = fun[n]
  BY Zenon DEF open_perf_tracepoint
<1> HIDE DEF n
<1>3. PICK f \in [0..n -> Ctx] : f[0] = c0 /\ \A i \in 1..n : f[i] = g[i][f[i - 1]]
  <2> HIDE DEF g
  <2>1. Loop(n, Ctx, c0, g)
    BY <1>0, <1>1, Iterates, Zenon
  <2> QED
    BY <2>1 DEF Loop
<1>4. \A i \in 1..n : f[i] = open_cpu_stream(f[i - 1], <<a, i - 1>>)
  <2>1. ASSUME NEW i \in 1..n
        PROVE  f[i] = open_cpu_stream(f[i - 1], <<a, i - 1>>)
    <3>1. i - 1 \in 0..n
      BY <1>0
    <3>2. f[i - 1] \in Ctx /\ f[i] = g[i][f[i - 1]]
      BY <1>3, <3>1
    <3>3. \A d \in Ctx : g[i][d] = open_cpu_stream(d, <<a, i - 1>>)
      OBVIOUS
    <3> HIDE DEF g
    <3> QED
      BY <3>1, <3>2, <3>3
  <2> QED
    BY <2>1
<1>5. f = [i \in 0..n |-> IF i = 0 THEN close_perf_tracepoint(c, a)
                          ELSE open_cpu_stream(f[i - 1], <<a, i - 1>>)]
  <2> DEFINE h == [i \in 0..n |-> IF i = 0 THEN close_perf_tracepoint(c, a)
                                  ELSE open_cpu_stream(f[i - 1], <<a, i - 1>>)]
  <2>1. \A i \in 0..n : f[i] = h[i]
    BY <1>0, <1>3, <1>4
  <2> QED
    BY <1>3, <2>1
<1>6. fun = [i \in 0..n |-> IF i = 0 THEN close_perf_tracepoint(c, a)
                            ELSE open_cpu_stream(fun[i - 1], <<a, i - 1>>)]
  BY ONLY <1>5, Zenon DEF fun
<1> HIDE DEF fun
<1>7. fun[0] = c0 /\ \A i \in 1..n : fun[i] = open_cpu_stream(fun[i - 1], <<a, i - 1>>)
  <2>1. 0 \in 0..n /\ \A i \in 1..n : i \in 0..n /\ i # 0
    BY <1>0
  <2> QED
    BY <1>6, <2>1
<1> QED
  BY <1>2, <1>7 DEF n

\* open_perf_tracepoint() opens the streams of the tracepoint, one id each.
LEMMA OpenTp ==
    ASSUME NEW D \in SUBSET Ctx, NEW T, Stable(D, T), TpStreams \subseteq T,
           NEW c \in D, NEW a \in Addrs, Live(c, a), c.stream_id >= 1,
           c.stream_id + NCpus <= MaxId + 1
    PROVE  LET d == open_perf_tracepoint(c, a) IN
           /\ d \in D /\ Kept(c, d) /\ d.stream_id = c.stream_id + NCpus
           /\ \A s \in Streams \ TpStreams : d.id[s] = c.id[s]
<1>0. NCpus \in Nat /\ MaxId \in Nat /\ c.stream_id \in Nat
  BY CpuStreams DEF Ctx
<1> DEFINE c0 == close_perf_tracepoint(c, a)
<1>1. /\ c0 \in D /\ Kept(c, c0) /\ c0.stream_id = c.stream_id
      /\ \A s \in TpOf(a) : c0.id[s] = 0
      /\ \A s \in Streams \ TpOf(a) : c0.id[s] = c.id[s]
  <2>1. ClosesWithin(D, T)
    BY DEF Stable
  <2> QED
    BY <2>1, CloseTp
<1>2. c0 \in Ctx
  BY <1>1
<1>3. PICK f : /\ f[0] = c0 /\ open_perf_tracepoint(c, a) = f[NCpus]
               /\ \A i \in 1..NCpus : f[i] = open_cpu_stream(f[i - 1], <<a, i - 1>>)
  <2> DEFINE c1 == c0
  <2>1. c1 \in Ctx /\ c1 = close_perf_tracepoint(c, a)
    BY <1>2
  <2>2. c1 = c0
    OBVIOUS
  <2> HIDE DEF c1
  <2> QED
    BY <2>1, <2>2, OpenTpLoop
<1> HIDE DEF c0
<1> DEFINE Done(d, i) == /\ d \in D /\ Kept(c, d) /\ d.stream_id = c.stream_id + i
                         /\ \A j \in 0..NCpus - 1 : j >= i => d.id[<<a, j>>] = 0
                         /\ \A s \in Streams \ TpStreams : d.id[s] = c.id[s]
           I == {i \in Nat : i <= NCpus => Done(f[i], i)}
<1>4. 0 \in I
  <2>1. \A j \in 0..NCpus - 1 : <<a, j>> \in TpOf(a)
    BY CpuStreams DEF TpOf
  <2>2. TpOf(a) \subseteq TpStreams
    BY DEF TpOf
  <2>3. Done(c0, 0)
    BY <1>0, <1>1, <2>1, <2>2
  <2> QED
    BY <1>3, <2>3
<1>5. ASSUME NEW i \in I
      PROVE  i + 1 \in I
  <2>1. SUFFICES ASSUME i + 1 <= NCpus
                 PROVE  Done(f[i + 1], i + 1)
    OBVIOUS
  <2>2. i \in Nat /\ i + 1 \in 1..NCpus /\ (i + 1) - 1 = i /\ i \in 0..NCpus - 1
    BY <1>0, <2>1
  <2> DEFINE s == <<a, i>>
             d == f[i]
             e == open_cpu_stream(d, s)
  <2>3. s \in TpStreams /\ s \in TpOf(a) /\ s[1] = a
    BY <2>2, CpuStreams DEF TpOf
  <2>4. f[i + 1] = e
    BY <1>3, <2>2
  <2>5. Done(d, i)
    <3>1. i <= NCpus
      BY <1>0, <2>1, <2>2
    <3> HIDE DEF Done
    <3>2. i <= NCpus => Done(f[i], i)
      OBVIOUS
    <3> QED
      BY <3>1, <3>2
  <2>6. d \in Ctx /\ d \in D
    BY <2>5
  <2>7. \A j \in 0..NCpus - 1 : j # i => <<a, j>> # s /\ <<a, j>> \in Streams
    BY CpuStreams DEF Streams
  <2>8. \A j \in 0..NCpus - 1 : j >= i + 1 => j # i /\ j >= i
    BY <1>0, <2>2
  <2>9. MayOpen(d, s)
    <3>1. d.id[s] = 0
      BY <2>2, <2>5
    <3>2. d.stream_id >= 1 /\ d.stream_id <= MaxId
      BY <1>0, <2>1, <2>2, <2>5
    <3>3. Live(d, s[1])
      BY <2>3, <2>5 DEF Kept, Live
    <3> QED
      BY <3>1, <3>2, <3>3 DEF MayOpen
  <2> HIDE DEF s, d
  <2>10. /\ e \in Ctx /\ Kept(d, e) /\ e.stream_id = d.stream_id + 1
         /\ \A t \in Streams \ {s} : e.id[t] = d.id[t]
    BY <2>3, <2>6, OpenedIds
  <2>11. s \in Streams /\ s \in T
    BY <2>3 DEF Streams
  <2>12. OpenedTo(d, e, s)
    BY <2>3, <2>6, <2>11, OpenStep
  <2> HIDE DEF e
  <2>13. e \in D
    BY <2>6, <2>9, <2>10, <2>11, <2>12 DEF Stable, OpensWithin
  <2>14. Kept(c, e) /\ e.stream_id = c.stream_id + (i + 1)
    BY <1>0, <2>2, <2>5, <2>10 DEF Kept
  <2>15. ASSUME NEW j \in 0..NCpus - 1, j >= i + 1
         PROVE  e.id[<<a, j>>] = 0
    <3>1. <<a, j>> # s /\ <<a, j>> \in Streams /\ j >= i
      BY <2>7, <2>8, <2>15
    <3>2. e.id[<<a, j>>] = d.id[<<a, j>>]
      BY <2>10, <3>1
    <3> QED
      BY <2>5, <3>1, <3>2
  <2>16. ASSUME NEW t \in Streams \ TpStreams
         PROVE  e.id[t] = c.id[t]
    <3>1. t # s
      BY <2>3
    <3> QED
      BY <2>5, <2>10, <3>1
  <2> QED
    BY <2>4, <2>13, <2>14, <2>15, <2>16
<1>6. I \in SUBSET Nat
  OBVIOUS
<1>7. NCpus \in I
  <2> HIDE DEF I
  <2> QED
    BY <1>0, <1>4, <1>5, <1>6, NumberInduction
<1>8. Done(f[NCpus], NCpus)
  BY <1>0, <1>7
<1> QED
  BY <1>3, <1>8

\* All contexts are such a set.
LEMMA CtxStable == ClosesWithin(Ctx, Streams) /\ TpStreams \subseteq Streams
BY DEF ClosesWithin, Streams

\* close_perf_tracepoint() makes a context.
LEMMA CloseTpType ==
    ASSUME NEW c \in Ctx, NEW a \in Addrs
    PROVE  close_perf_tracepoint(c, a) \in Ctx
<1> DEFINE D == Ctx
<1>1. D \in SUBSET Ctx /\ ClosesWithin(D, Streams) /\ TpStreams \subseteq Streams /\ c \in D
  BY CtxStable
<1> HIDE DEF D
<1>2. close_perf_tracepoint(c, a) \in D
  BY <1>1, CloseTp
<1> QED
  BY <1>1, <1>2

\* open_perf_tracepoint() makes a context.
LEMMA OpenTpType ==
    ASSUME NEW c \in Ctx, NEW a \in Addrs
    PROVE  open_perf_tracepoint(c, a) \in Ctx
<1>0. NCpus \in Nat
  BY CpuStreams
<1> DEFINE c0 == close_perf_tracepoint(c, a)
<1>1. c0 \in Ctx /\ c0 = close_perf_tracepoint(c, a)
  BY CloseTpType
<1> HIDE DEF c0
<1>2. PICK f : /\ f[0] = c0 /\ open_perf_tracepoint(c, a) = f[NCpus]
               /\ \A i \in 1..NCpus : f[i] = open_cpu_stream(f[i - 1], <<a, i - 1>>)
  BY <1>1, OpenTpLoop
<1> DEFINE I == {i \in Nat : i <= NCpus => f[i] \in Ctx}
<1>3. 0 \in I
  BY <1>1, <1>2
<1>4. ASSUME NEW i \in I
      PROVE  i + 1 \in I
  <2>1. SUFFICES ASSUME i + 1 <= NCpus
                 PROVE  f[i + 1] \in Ctx
    OBVIOUS
  <2>2. i \in Nat /\ i + 1 \in 1..NCpus /\ (i + 1) - 1 = i /\ i \in 0..NCpus - 1 /\ f[i] \in Ctx
    BY <1>0, <2>1
  <2> DEFINE s == <<a, i>>
             d == f[i]
  <2>3. s \in TpStreams /\ d \in Ctx
    BY <2>2, CpuStreams
  <2>4. f[i + 1] = open_cpu_stream(d, s)
    BY <1>2, <2>2
  <2> HIDE DEF s, d
  <2>5. open_cpu_stream(d, s) \in Ctx
    BY <2>3, OpenedIds
  <2> QED
    BY <2>4, <2>5
<1>5. I \in SUBSET Nat
  OBVIOUS
<1>6. NCpus \in I
  <2> HIDE DEF I
  <2> QED
    BY <1>0, <1>3, <1>4, <1>5, NumberInduction
<1> QED
  BY <1>0, <1>2, <1>6

\* The loop of close_perf_tracepoints_streams().
LEMMA CloseAllLoop ==
    ASSUME NEW c \in Ctx
    PROVE  \E f : LET l == c.perf_tracepoints IN
                  /\ f[0] = c /\ close_perf_tracepoints_streams(c) = f[Len(l)]
                  /\ \A i \in 0..Len(l) : f[i] \in Ctx
                  /\ \A i \in 1..Len(l) : f[i] = close_perf_tracepoint(f[i - 1], l[i])
<1> DEFINE l == c.perf_tracepoints
           n == Len(l)
           g == [i \in 1..n |-> [d \in Ctx |-> close_perf_tracepoint(d, l[i])]]
           fun == CHOOSE f : f = [i \in 0..Len(c.perf_tracepoints) |->
                                    IF i = 0 THEN c
                                    ELSE close_perf_tracepoint(f[i - 1], c.perf_tracepoints[i])]
<1>0. l \in Seq(Addrs) /\ n \in Nat /\ \A i \in 1..n : l[i] \in Addrs
  <2>1. l \in Seq(Addrs)
    BY DEF Ctx
  <2> HIDE DEF l
  <2> QED
    BY <2>1
<1>1. g \in [1..n -> [Ctx -> Ctx]]
  <2>1. ASSUME NEW i \in 1..n, NEW d \in Ctx
        PROVE  close_perf_tracepoint(d, l[i]) \in Ctx
    <3> DEFINE a == l[i]
    <3>1. a \in Addrs
      BY <1>0
    <3> HIDE DEF a
    <3>2. close_perf_tracepoint(d, a) \in Ctx
      BY <3>1, CloseTpType
    <3> QED
      BY <3>2 DEF a
  <2> HIDE DEF n, l
  <2> QED
    BY <2>1
<1>2. close_perf_tracepoints_streams(c) = fun[n]
  BY Zenon DEF close_perf_tracepoints_streams
<1>3. fun = CHOOSE f : f = [i \in 0..n |-> IF i = 0 THEN c ELSE close_perf_tracepoint(f[i - 1], l[i])]
  BY Zenon
<1> HIDE DEF n, l, fun
<1>4. PICK f \in [0..n -> Ctx] : f[0] = c /\ \A i \in 1..n : f[i] = g[i][f[i - 1]]
  <2> HIDE DEF g
  <2>1. Loop(n, Ctx, c, g)
    BY <1>0, <1>1, Iterates, Zenon
  <2> QED
    BY <2>1 DEF Loop
<1>5. \A i \in 1..n : f[i] = close_perf_tracepoint(f[i - 1], l[i])
  <2>1. ASSUME NEW i \in 1..n
        PROVE  f[i] = close_perf_tracepoint(f[i - 1], l[i])
    <3>1. i - 1 \in 0..n
      BY <1>0
    <3>2. f[i - 1] \in Ctx /\ f[i] = g[i][f[i - 1]]
      BY <1>4, <3>1
    <3>3. \A d \in Ctx : g[i][d] = close_perf_tracepoint(d, l[i])
      OBVIOUS
    <3> HIDE DEF g
    <3> QED
      BY <3>1, <3>2, <3>3
  <2> QED
    BY <2>1
<1>6. f = [i \in 0..n |-> IF i = 0 THEN c ELSE close_perf_tracepoint(f[i - 1], l[i])]
  <2> DEFINE h == [i \in 0..n |-> IF i = 0 THEN c ELSE close_perf_tracepoint(f[i - 1], l[i])]
  <2>1. \A i \in 0..n : f[i] = h[i]
    BY <1>0, <1>4, <1>5
  <2> QED
    BY <1>4, <2>1
<1>7. fun = [i \in 0..n |-> IF i = 0 THEN c ELSE close_perf_tracepoint(fun[i - 1], l[i])]
  BY ONLY <1>3, <1>6, Zenon
<1>8. fun[0] = c /\ \A i \in 1..n : fun[i] = close_perf_tracepoint(fun[i - 1], l[i])
  <2>1. 0 \in 0..n /\ \A i \in 1..n : i \in 0..n /\ i # 0
    BY <1>0
  <2> QED
    BY <1>7, <2>1
<1> DEFINE I == {i \in Nat : i <= n => fun[i] \in Ctx}
<1>9. 0 \in I
  BY <1>8
<1>10. ASSUME NEW i \in I
       PROVE  i + 1 \in I
  <2>1. SUFFICES ASSUME i + 1 <= n
                 PROVE  fun[i + 1] \in Ctx
    OBVIOUS
  <2>2. i \in Nat /\ i + 1 \in 1..n /\ (i + 1) - 1 = i /\ fun[i] \in Ctx
    BY <1>0, <2>1
  <2> DEFINE a == l[i + 1]
             d == fun[i]
  <2>3. a \in Addrs /\ d \in Ctx
    BY <1>0, <2>2
  <2>4. fun[i + 1] = close_perf_tracepoint(d, a)
    BY <1>8, <2>2
  <2> HIDE DEF a, d
  <2>5. close_perf_tracepoint(d, a) \in Ctx
    BY <2>3, CloseTpType
  <2> QED
    BY <2>4, <2>5
<1>11. I \in SUBSET Nat
  OBVIOUS
<1>12. \A i \in Nat : i \in I
  <2> HIDE DEF I
  <2> QED
    BY <1>9, <1>10, <1>11, NumberInduction
<1>13. \A i \in 0..n : fun[i] \in Ctx
  BY <1>0, <1>12
<1> QED
  BY <1>2, <1>8, <1>13 DEF n, l

\* The loop of open_perf_tracepoints_streams().
LEMMA OpenAllLoop ==
    ASSUME NEW c \in Ctx
    PROVE  \E f : LET l == c.perf_tracepoints IN
                  /\ f[0] = c /\ open_perf_tracepoints_streams(c) = f[Len(l)]
                  /\ \A i \in 0..Len(l) : f[i] \in Ctx
                  /\ \A i \in 1..Len(l) : f[i] = open_perf_tracepoint(f[i - 1], l[i])
<1> DEFINE l == c.perf_tracepoints
           n == Len(l)
           g == [i \in 1..n |-> [d \in Ctx |-> open_perf_tracepoint(d, l[i])]]
           fun == CHOOSE f : f = [i \in 0..Len(c.perf_tracepoints) |->
                                    IF i = 0 THEN c
                                    ELSE open_perf_tracepoint(f[i - 1], c.perf_tracepoints[i])]
<1>0. l \in Seq(Addrs) /\ n \in Nat /\ \A i \in 1..n : l[i] \in Addrs
  <2>1. l \in Seq(Addrs)
    BY DEF Ctx
  <2> HIDE DEF l
  <2> QED
    BY <2>1
<1>1. g \in [1..n -> [Ctx -> Ctx]]
  <2>1. ASSUME NEW i \in 1..n, NEW d \in Ctx
        PROVE  open_perf_tracepoint(d, l[i]) \in Ctx
    <3> DEFINE a == l[i]
    <3>1. a \in Addrs
      BY <1>0
    <3> HIDE DEF a
    <3>2. open_perf_tracepoint(d, a) \in Ctx
      BY <3>1, OpenTpType
    <3> QED
      BY <3>2 DEF a
  <2> HIDE DEF n, l
  <2> QED
    BY <2>1
<1>2. open_perf_tracepoints_streams(c) = fun[n]
  BY Zenon DEF open_perf_tracepoints_streams
<1>3. fun = CHOOSE f : f = [i \in 0..n |-> IF i = 0 THEN c ELSE open_perf_tracepoint(f[i - 1], l[i])]
  BY Zenon
<1> HIDE DEF n, l, fun
<1>4. PICK f \in [0..n -> Ctx] : f[0] = c /\ \A i \in 1..n : f[i] = g[i][f[i - 1]]
  <2> HIDE DEF g
  <2>1. Loop(n, Ctx, c, g)
    BY <1>0, <1>1, Iterates, Zenon
  <2> QED
    BY <2>1 DEF Loop
<1>5. \A i \in 1..n : f[i] = open_perf_tracepoint(f[i - 1], l[i])
  <2>1. ASSUME NEW i \in 1..n
        PROVE  f[i] = open_perf_tracepoint(f[i - 1], l[i])
    <3>1. i - 1 \in 0..n
      BY <1>0
    <3>2. f[i - 1] \in Ctx /\ f[i] = g[i][f[i - 1]]
      BY <1>4, <3>1
    <3>3. \A d \in Ctx : g[i][d] = open_perf_tracepoint(d, l[i])
      OBVIOUS
    <3> HIDE DEF g
    <3> QED
      BY <3>1, <3>2, <3>3
  <2> QED
    BY <2>1
<1>6. f = [i \in 0..n |-> IF i = 0 THEN c ELSE open_perf_tracepoint(f[i - 1], l[i])]
  <2> DEFINE h == [i \in 0..n |-> IF i = 0 THEN c ELSE open_perf_tracepoint(f[i - 1], l[i])]
  <2>1. \A i \in 0..n : f[i] = h[i]
    BY <1>0, <1>4, <1>5
  <2> QED
    BY <1>4, <2>1
<1>7. fun = [i \in 0..n |-> IF i = 0 THEN c ELSE open_perf_tracepoint(fun[i - 1], l[i])]
  BY ONLY <1>3, <1>6, Zenon
<1>8. fun[0] = c /\ \A i \in 1..n : fun[i] = open_perf_tracepoint(fun[i - 1], l[i])
  <2>1. 0 \in 0..n /\ \A i \in 1..n : i \in 0..n /\ i # 0
    BY <1>0
  <2> QED
    BY <1>7, <2>1
<1> DEFINE I == {i \in Nat : i <= n => fun[i] \in Ctx}
<1>9. 0 \in I
  BY <1>8
<1>10. ASSUME NEW i \in I
       PROVE  i + 1 \in I
  <2>1. SUFFICES ASSUME i + 1 <= n
                 PROVE  fun[i + 1] \in Ctx
    OBVIOUS
  <2>2. i \in Nat /\ i + 1 \in 1..n /\ (i + 1) - 1 = i /\ fun[i] \in Ctx
    BY <1>0, <2>1
  <2> DEFINE a == l[i + 1]
             d == fun[i]
  <2>3. a \in Addrs /\ d \in Ctx
    BY <1>0, <2>2
  <2>4. fun[i + 1] = open_perf_tracepoint(d, a)
    BY <1>8, <2>2
  <2> HIDE DEF a, d
  <2>5. open_perf_tracepoint(d, a) \in Ctx
    BY <2>3, OpenTpType
  <2> QED
    BY <2>4, <2>5
<1>11. I \in SUBSET Nat
  OBVIOUS
<1>12. \A i \in Nat : i \in I
  <2> HIDE DEF I
  <2> QED
    BY <1>9, <1>10, <1>11, NumberInduction
<1>13. \A i \in 0..n : fun[i] \in Ctx
  BY <1>0, <1>12
<1> QED
  BY <1>2, <1>8, <1>13 DEF n, l

\* close_perf_tracepoints_streams() closes the streams of every tracepoint.
LEMMA CloseAll ==
    ASSUME NEW D \in SUBSET Ctx, NEW T, ClosesWithin(D, T), TpStreams \subseteq T, NEW c \in D
    PROVE  LET d == close_perf_tracepoints_streams(c) IN
           /\ d \in D /\ Kept(c, d) /\ d.stream_id = c.stream_id
           /\ \A s \in TpStreams : s[1] \in Range(c.perf_tracepoints) => d.id[s] = 0
           /\ \A s \in Streams \ TpStreams : d.id[s] = c.id[s]
           /\ \A s \in TpStreams : c.id[s] = 0 => d.id[s] = 0
<1> DEFINE l == c.perf_tracepoints
           n == Len(l)
<1>0. l \in Seq(Addrs) /\ n \in Nat /\ \A i \in 1..n : l[i] \in Addrs
  <2>1. l \in Seq(Addrs)
    BY DEF Ctx
  <2> HIDE DEF l
  <2> QED
    BY <2>1
<1>1. PICK f : /\ f[0] = c /\ close_perf_tracepoints_streams(c) = f[n]
               /\ \A i \in 0..n : f[i] \in Ctx
               /\ \A i \in 1..n : f[i] = close_perf_tracepoint(f[i - 1], l[i])
  <2>1. c \in Ctx
    OBVIOUS
  <2> QED
    BY <2>1, CloseAllLoop
<1>2. Range(c.perf_tracepoints) = {l[i] : i \in 1..n}
  BY <1>0 DEF Range
<1> HIDE DEF l, n
<1> DEFINE Done(d, i) == /\ d \in D /\ Kept(c, d) /\ d.stream_id = c.stream_id
                         /\ \A j \in 1..n : j <= i => \A s \in TpOf(l[j]) : d.id[s] = 0
                         /\ \A s \in Streams \ TpStreams : d.id[s] = c.id[s]
                         /\ \A s \in TpStreams : c.id[s] = 0 => d.id[s] = 0
           I == {i \in Nat : i <= n => Done(f[i], i)}
<1>3. 0 \in I
  BY <1>0, <1>1 DEF Kept
<1>4. ASSUME NEW i \in I
      PROVE  i + 1 \in I
  <2>1. SUFFICES ASSUME i + 1 <= n
                 PROVE  Done(f[i + 1], i + 1)
    OBVIOUS
  <2>2. i \in Nat /\ i + 1 \in 1..n /\ (i + 1) - 1 = i /\ i <= n
    BY <1>0, <2>1
  <2> DEFINE a == l[i + 1]
             d == f[i]
             e == close_perf_tracepoint(d, a)
  <2>3. a \in Addrs
    BY <1>0, <2>2
  <2>4. f[i + 1] = e
    BY <1>1, <2>2
  <2>5. Done(d, i)
    <3> HIDE DEF Done
    <3>1. i <= n => Done(f[i], i)
      OBVIOUS
    <3> QED
      BY <2>2, <3>1
  <2>6. d \in D
    BY <2>5
  <2>7. \A j \in 1..n : j <= i + 1 => j <= i \/ j = i + 1
    BY <1>0, <2>2
  <2> HIDE DEF a, d
  <2>8. /\ e \in D /\ Kept(d, e) /\ e.stream_id = d.stream_id
        /\ \A s \in TpOf(a) : e.id[s] = 0
        /\ \A s \in Streams \ TpOf(a) : e.id[s] = d.id[s]
    BY <2>3, <2>6, CloseTp
  <2>9. TpOf(a) \subseteq TpStreams /\ TpStreams \subseteq Streams
    BY DEF TpOf, Streams
  <2> HIDE DEF e
  <2>10. Kept(c, e) /\ e.stream_id = c.stream_id
    BY <2>5, <2>8 DEF Kept
  <2>11. ASSUME NEW s \in TpStreams, d.id[s] = 0
         PROVE  e.id[s] = 0
    BY <2>8, <2>9, <2>11
  <2>12. ASSUME NEW j \in 1..n, j <= i + 1, NEW s \in TpOf(l[j])
         PROVE  e.id[s] = 0
    <3>1. CASE j = i + 1
      BY <2>8, <3>1 DEF a
    <3>2. CASE j <= i
      <4>1. d.id[s] = 0
        BY <2>5, <3>2
      <4>2. s \in TpStreams
        BY DEF TpOf
      <4> QED
        BY <2>11, <4>1, <4>2
    <3> QED
      BY <2>7, <2>12, <3>1, <3>2
  <2>13. \A s \in Streams \ TpStreams : e.id[s] = c.id[s]
    BY <2>5, <2>8, <2>9
  <2>14. \A s \in TpStreams : c.id[s] = 0 => e.id[s] = 0
    BY <2>5, <2>11
  <2> QED
    BY <2>4, <2>8, <2>10, <2>12, <2>13, <2>14
<1>5. I \in SUBSET Nat
  OBVIOUS
<1>6. n \in I
  <2> HIDE DEF I
  <2> QED
    BY <1>0, <1>3, <1>4, <1>5, NumberInduction
<1>7. Done(f[n], n)
  BY <1>0, <1>6
<1> DEFINE d == f[n]
<1>8. ASSUME NEW s \in TpStreams, s[1] \in Range(c.perf_tracepoints)
      PROVE  d.id[s] = 0
  <2>1. PICK j \in 1..n : s[1] = l[j]
    BY <1>2, <1>8
  <2>2. s \in TpOf(l[j]) /\ j <= n
    BY <1>0, <2>1 DEF TpOf
  <2> QED
    BY <1>7, <2>2
<1> QED
  BY <1>1, <1>7, <1>8

\* The ids that streams of all tracepoints need.
LEMMA RoomLeft ==
    ASSUME NEW n \in Nat, NEW m \in Nat, NEW i \in Nat, i + 1 <= n
    PROVE  /\ m * i \in Nat /\ m * (i + 1) = m * i + m /\ m * (i + 1) <= m * n
           /\ m * n \in Nat
<1>1. m * i \in Nat /\ m * n \in Nat /\ m * (i + 1) = m * i + m
  OBVIOUS
<1>2. PICK k \in Nat : n = (i + 1) + k
  <2>1. n - (i + 1) \in Nat /\ n = (i + 1) + (n - (i + 1))
    OBVIOUS
  <2> QED
    BY <2>1
<1>3. m * n = m * (i + 1) + m * k /\ m * k \in Nat
  BY <1>2
<1> QED
  BY <1>1, <1>3

\* open_perf_tracepoints_streams() opens the streams of every tracepoint.
LEMMA OpenAll ==
    ASSUME NEW D \in SUBSET Ctx, NEW T, Stable(D, T), TpStreams \subseteq T, NEW c \in D,
           \A a \in Range(c.perf_tracepoints) : Live(c, a), c.stream_id >= 1,
           c.stream_id + NCpus * Len(c.perf_tracepoints) <= MaxId + 1
    PROVE  LET d == open_perf_tracepoints_streams(c) IN
           /\ d \in D /\ Kept(c, d)
           /\ d.stream_id = c.stream_id + NCpus * Len(c.perf_tracepoints)
           /\ \A s \in Streams \ TpStreams : d.id[s] = c.id[s]
<1> DEFINE l == c.perf_tracepoints
           n == Len(l)
<1>0. l \in Seq(Addrs) /\ n \in Nat /\ \A i \in 1..n : l[i] \in Addrs
  <2>1. l \in Seq(Addrs)
    BY DEF Ctx
  <2> HIDE DEF l
  <2> QED
    BY <2>1
<1>1. PICK f : /\ f[0] = c /\ open_perf_tracepoints_streams(c) = f[n]
               /\ \A i \in 0..n : f[i] \in Ctx
               /\ \A i \in 1..n : f[i] = open_perf_tracepoint(f[i - 1], l[i])
  <2>1. c \in Ctx
    OBVIOUS
  <2> QED
    BY <2>1, OpenAllLoop
<1>2. \A i \in 1..n : Live(c, l[i])
  BY <1>0 DEF Range
<1>3. c.stream_id + NCpus * n <= MaxId + 1
  OBVIOUS
<1>4. NCpus \in Nat /\ MaxId \in Nat /\ c.stream_id \in Nat /\ NCpus * n \in Nat
  <2>1. NCpus \in Nat /\ MaxId \in Nat
    BY ClientAssumption
  <2>2. c.stream_id \in Nat
    BY DEF Ctx
  <2> HIDE DEF n
  <2> QED
    BY <1>0, <2>1, <2>2
<1> HIDE DEF l, n
<1> DEFINE Done(d, i) == /\ d \in D /\ Kept(c, d) /\ d.stream_id = c.stream_id + NCpus * i
                         /\ \A s \in Streams \ TpStreams : d.id[s] = c.id[s]
           I == {i \in Nat : i <= n => Done(f[i], i)}
<1>5. 0 \in I
  <2>1. NCpus * 0 = 0
    BY <1>4
  <2>2. c.stream_id = c.stream_id + NCpus * 0
    BY <1>4, <2>1
  <2>3. Done(c, 0)
    BY <2>2 DEF Kept
  <2> QED
    BY <1>1, <2>3
<1>6. ASSUME NEW i \in I
      PROVE  i + 1 \in I
  <2>1. SUFFICES ASSUME i + 1 <= n
                 PROVE  Done(f[i + 1], i + 1)
    OBVIOUS
  <2>2. i \in Nat /\ i + 1 \in 1..n /\ (i + 1) - 1 = i /\ i <= n
    BY <1>0, <2>1
  <2> DEFINE a == l[i + 1]
             d == f[i]
             e == open_perf_tracepoint(d, a)
  <2>3. a \in Addrs /\ Live(c, a)
    BY <1>0, <1>2, <2>2
  <2>4. f[i + 1] = e
    BY <1>1, <2>2
  <2>5. Done(d, i)
    <3> HIDE DEF Done
    <3>1. i <= n => Done(f[i], i)
      OBVIOUS
    <3> QED
      BY <2>2, <3>1
  <2>6. d \in D /\ Live(d, a)
    BY <2>3, <2>5 DEF Kept, Live
  <2> HIDE DEF a, d
  <2>7. d.stream_id >= 1 /\ d.stream_id + NCpus <= MaxId + 1 /\ d.stream_id + NCpus = c.stream_id + NCpus * (i + 1)
    <3>1. /\ NCpus * i \in Nat /\ NCpus * (i + 1) = NCpus * i + NCpus
          /\ NCpus * (i + 1) <= NCpus * n /\ NCpus * n \in Nat
      BY <1>0, <1>4, <2>1, <2>2, RoomLeft
    <3>2. d.stream_id = c.stream_id + NCpus * i
      BY <2>5
    <3> DEFINE p == NCpus * i
               q == NCpus * (i + 1)
               r == NCpus * n
    <3>3. p \in Nat /\ q = p + NCpus /\ q <= r /\ r \in Nat /\ d.stream_id = c.stream_id + p
          /\ c.stream_id + r <= MaxId + 1
      BY <1>3, <3>1, <3>2
    <3> HIDE DEF p, q, r
    <3>4. d.stream_id >= 1 /\ d.stream_id + NCpus <= MaxId + 1 /\ d.stream_id + NCpus = c.stream_id + q
      BY <1>4, <3>3
    <3> QED
      BY <3>4 DEF q
  <2>8. /\ e \in D /\ Kept(d, e) /\ e.stream_id = d.stream_id + NCpus
        /\ \A s \in Streams \ TpStreams : e.id[s] = d.id[s]
    BY <2>3, <2>6, <2>7, OpenTp
  <2> HIDE DEF e
  <2>9. Kept(c, e) /\ e.stream_id = c.stream_id + NCpus * (i + 1)
    BY <2>5, <2>7, <2>8 DEF Kept
  <2>10. \A s \in Streams \ TpStreams : e.id[s] = c.id[s]
    BY <2>5, <2>8
  <2> QED
    BY <2>4, <2>8, <2>9, <2>10
<1>7. I \in SUBSET Nat
  OBVIOUS
<1>8. n \in I
  <2> HIDE DEF I
  <2> QED
    BY <1>0, <1>5, <1>6, <1>7, NumberInduction
<1>9. Done(f[n], n)
  BY <1>0, <1>8
<1>10. NCpus * n = NCpus * Len(c.perf_tracepoints)
  BY DEF n, l
<1> QED
  BY <1>1, <1>9, <1>10

\* The list of tracepoints has the tracepoints there are, once each.
Once(l) == \A i \in 1..Len(l) : \A j \in 1..Len(l) : l[i] = l[j] => i = j

\* perf_tracepoints has the tracepoints that exist, once each.
Track(c) ==
    /\ Once(c.perf_tracepoints)
    /\ \A a \in Addrs : a \in Range(c.perf_tracepoints) <=> Live(c, a)

\* d is c without the tracepoint a
RemovedTo(c, d, a) ==
    /\ d \in Ctx
    /\ d.stream_id = c.stream_id /\ d.id = c.id /\ d.next = c.next /\ d.prev = c.prev
    /\ d.table = c.table /\ d.out = c.out
    /\ d.is_sampling = c.is_sampling /\ d.features = c.features /\ d.metric_set = c.metric_set
    /\ d.tps = [c.tps EXCEPT ![a] = None] /\ d.names = c.names
    /\ d.uuids = c.uuids /\ d.data = c.data

\* D is not left by removing a tracepoint whose streams are closed.
RemovesWithin(D) ==
    \A c \in D : \A a \in Addrs : \A d \in Ctx :
        (\A s \in TpOf(a) : c.id[s] = 0) /\ RemovedTo(c, d, a) => d \in D

\* What is removed from a sequence without repetitions is no longer in it.
LEMMA RemoveOne ==
    ASSUME NEW l \in Seq(Addrs), Once(l), NEW at \in 1..Len(l)
    PROVE  /\ RemoveAt(l, at) \in Seq(Addrs) /\ Once(RemoveAt(l, at))
           /\ \A a : a \in Range(RemoveAt(l, at)) <=> a \in Range(l) /\ a # l[at]
<1> DEFINE n == Len(l)
           p == SubSeq(l, 1, at - 1)
           q == SubSeq(l, at + 1, n)
           m == p \o q
<1>0. n \in Nat /\ at \in 1..n /\ \A i \in 1..n : l[i] \in Addrs
  OBVIOUS
<1>1. RemoveAt(l, at) = m
  BY DEF RemoveAt
<1>2. p \in Seq(Addrs) /\ Len(p) = at - 1 /\ \A i \in 1..at - 1 : p[i] = l[i]
  OBVIOUS
<1>3. q \in Seq(Addrs) /\ Len(q) = n - at /\ \A i \in 1..n - at : q[i] = l[at + i]
  OBVIOUS
<1> HIDE DEF n, p, q
<1>4. /\ m \in Seq(Addrs) /\ Len(m) = n - 1
      /\ \A i \in 1..n - 1 : m[i] = IF i < at THEN l[i] ELSE l[i + 1]
  <2>1. m \in Seq(Addrs) /\ Len(m) = n - 1
    <3>0. p \in Seq(Addrs) /\ q \in Seq(Addrs)
      BY <1>2, <1>3
    <3>1. m \in Seq(Addrs) /\ Len(m) = Len(p) + Len(q)
      BY ONLY <3>0, ConcatProperties DEF m
    <3> HIDE DEF m
    <3> QED
      BY <1>0, <1>2, <1>3, <3>1
  <2>2. ASSUME NEW i \in 1..n - 1
        PROVE  m[i] = IF i < at THEN l[i] ELSE l[i + 1]
    <3>1. CASE i < at
      <4>1. i \in 1..Len(p)
        BY <1>0, <1>2, <3>1
      <4>2. m[i] = p[i]
        BY <1>0, <1>2, <1>3, <4>1
      <4> QED
        BY <1>2, <3>1, <4>1, <4>2
    <3>2. CASE ~(i < at)
      <4>1. i - Len(p) \in 1..n - at /\ at + (i - Len(p)) = i + 1 /\ i > Len(p) /\ i <= Len(p) + Len(q)
        BY <1>0, <1>2, <1>3, <3>2
      <4>2. m[i] = q[i - Len(p)]
        BY <1>0, <1>2, <1>3, <4>1
      <4>3. q[i - Len(p)] = l[i + 1]
        BY <1>3, <4>1
      <4> QED
        BY <3>2, <4>2, <4>3
    <3> QED
      BY <3>1, <3>2
  <2> QED
    BY <2>1, <2>2
<1> HIDE DEF m
<1>5. \A i \in 1..n : \A j \in 1..n : l[i] = l[j] => i = j
  BY DEF Once, n
<1>6. Once(m)
  <2> SUFFICES ASSUME NEW i \in 1..n - 1, NEW j \in 1..n - 1, m[i] = m[j]
               PROVE  i = j
    BY <1>0, <1>4 DEF Once
  <2> DEFINE x == IF i < at THEN i ELSE i + 1
             y == IF j < at THEN j ELSE j + 1
  <2>1. x \in 1..n /\ y \in 1..n /\ m[i] = l[x] /\ m[j] = l[y]
    BY <1>0, <1>4
  <2>2. x = y
    <3> HIDE DEF x, y
    <3> QED
      BY <1>5, <2>1
  <2> QED
    BY <1>0, <2>2
<1>7. Range(m) = {m[i] : i \in 1..n - 1} /\ Range(l) = {l[i] : i \in 1..n}
  BY <1>0, <1>4 DEF Range, n
<1>8. ASSUME NEW a, a \in Range(m)
      PROVE  a \in Range(l) /\ a # l[at]
  <2>1. PICK i \in 1..n - 1 : a = m[i]
    BY <1>7, <1>8
  <2> DEFINE x == IF i < at THEN i ELSE i + 1
  <2>2. x \in 1..n /\ m[i] = l[x] /\ x # at
    BY <1>0, <1>4
  <2> HIDE DEF x
  <2> QED
    BY <1>0, <1>5, <1>7, <2>1, <2>2
<1>9. ASSUME NEW a, a \in Range(l), a # l[at]
      PROVE  a \in Range(m)
  <2>1. PICK i \in 1..n : a = l[i]
    BY <1>7, <1>9
  <2>2. i # at
    BY <1>9, <2>1
  <2> DEFINE x == IF i < at THEN i ELSE i - 1
  <2>3. x \in 1..n - 1 /\ m[x] = l[i]
    <3>1. CASE i < at
      BY <1>0, <1>4, <3>1
    <3>2. CASE ~(i < at)
      <4>1. i - 1 \in 1..n - 1 /\ ~(i - 1 < at) /\ (i - 1) + 1 = i /\ x = i - 1
        BY <1>0, <2>2, <3>2
      <4> QED
        BY <1>4, <4>1
    <3> QED
      BY <3>1, <3>2
  <2> HIDE DEF x
  <2> QED
    BY <1>7, <2>1, <2>3
<1> QED
  BY <1>1, <1>4, <1>6, <1>8, <1>9

\* gputop_client_context_remove_tracepoint() of a tracepoint there is.
LEMMA RemoveTp ==
    ASSUME NEW D \in SUBSET Ctx, NEW T, ClosesWithin(D, T), TpStreams \subseteq T, RemovesWithin(D),
           NEW c \in D, Track(c), NEW a \in Addrs, Live(c, a)
    PROVE  LET d == remove_tracepoint(c, a) IN
           /\ d \in D /\ Track(d) /\ d.stream_id = c.stream_id
           /\ d.is_sampling = c.is_sampling /\ d.features = c.features /\ d.metric_set = c.metric_set
           /\ d.names = c.names /\ d.uuids = c.uuids /\ d.data = c.data
           /\ d.tps = [c.tps EXCEPT ![a] = None]
           /\ \A s \in TpOf(a) : d.id[s] = 0
           /\ \A s \in Streams \ TpOf(a) : d.id[s] = c.id[s]
<1> DEFINE e == close_perf_tracepoint(c, a)
           at == CHOOSE i \in DOMAIN e.perf_tracepoints : e.perf_tracepoints[i] = a
           l == RemoveAt(e.perf_tracepoints, at)
           t == [e.tps EXCEPT ![a] = None]
           d == [e EXCEPT !.tps = t, !.perf_tracepoints = l]
<1>1. /\ e \in D /\ Kept(c, e) /\ e.stream_id = c.stream_id
      /\ \A s \in TpOf(a) : e.id[s] = 0
      /\ \A s \in Streams \ TpOf(a) : e.id[s] = c.id[s]
  BY CloseTp
<1>2. remove_tracepoint(c, a) = [e EXCEPT !.tps[a] = None, !.perf_tracepoints = l]
  BY DEF remove_tracepoint
<1> HIDE DEF e
<1> DEFINE o == e.perf_tracepoints
<1>3. /\ e \in Ctx /\ o \in Seq(Addrs) /\ o = c.perf_tracepoints /\ e.tps = c.tps
      /\ e.tps \in [Addrs -> Tps \cup {None}]
  BY <1>1 DEF Ctx, Kept
<1>4. remove_tracepoint(c, a) = d
  BY <1>2, <1>3 DEF Ctx
<1>5. Once(o) /\ a \in Range(o)
  BY <1>3 DEF Track
<1>6. at \in DOMAIN o /\ o[at] = a
  <2>1. \E i \in DOMAIN o : o[i] = a
    BY <1>5 DEF Range
  <2> QED
    BY <2>1
<1>7. at \in 1..Len(o)
  BY <1>3, <1>6
<1> HIDE DEF at
<1>8. l \in Seq(Addrs) /\ Once(l) /\ \A b : b \in Range(l) <=> b \in Range(o) /\ b # o[at]
  <2>1. l = RemoveAt(o, at)
    OBVIOUS
  <2> HIDE DEF o, l
  <2> QED
    BY <1>3, <1>5, <1>7, <2>1, RemoveOne
<1>9. t \in [Addrs -> Tps \cup {None}] /\ t = [c.tps EXCEPT ![a] = None]
  BY <1>3
<1> HIDE DEF l, t
<1>10. /\ d \in Ctx /\ d.stream_id = e.stream_id /\ d.id = e.id /\ d.next = e.next /\ d.prev = e.prev
       /\ d.table = e.table /\ d.out = e.out
       /\ d.is_sampling = e.is_sampling /\ d.features = e.features /\ d.metric_set = e.metric_set
       /\ d.tps = t /\ d.names = e.names /\ d.perf_tracepoints = l
       /\ d.uuids = e.uuids /\ d.data = e.data
  BY <1>3, <1>8, <1>9 DEF Ctx
<1> HIDE DEF d
<1>11. RemovedTo(e, d, a)
  BY <1>3, <1>9, <1>10 DEF RemovedTo
<1>12. d \in D
  BY <1>1, <1>10, <1>11 DEF RemovesWithin
<1>13. Track(d)
  <2>1. ASSUME NEW b \in Addrs
        PROVE  b \in Range(l) <=> t[b] # None
    <3>1. b \in Range(o) <=> c.tps[b] # None
      BY <1>3 DEF Track, Live
    <3>2. t[b] = IF b = a THEN None ELSE c.tps[b]
      BY <1>3, <1>9
    <3> QED
      BY <1>6, <1>8, <3>1, <3>2
  <2> QED
    BY <1>8, <1>10, <2>1 DEF Track, Live
<1> QED
  BY <1>1, <1>4, <1>9, <1>10, <1>12, <1>13 DEF Kept

\* c after the first i tracepoints of l were removed
RemovedFrom(D, c, l, d, i) ==
    /\ d \in D /\ Track(d) /\ d.stream_id = c.stream_id
    /\ d.is_sampling = c.is_sampling /\ d.features = c.features /\ d.metric_set = c.metric_set
    /\ d.names = c.names /\ d.uuids = c.uuids /\ d.data = c.data
    /\ \A a \in Addrs : d.tps[a] # None <=> \E j \in 1..Len(l) : j > i /\ l[j] = a
    /\ \A j \in 1..Len(l) : j <= i => \A s \in TpOf(l[j]) : d.id[s] = 0
    /\ \A s \in Streams : c.id[s] = 0 => d.id[s] = 0
    /\ \A s \in Streams \ TpStreams : d.id[s] = c.id[s]

\* The body of the loop that removes every tracepoint.
LEMMA RemoveNext ==
    ASSUME NEW D \in SUBSET Ctx, NEW T, ClosesWithin(D, T), TpStreams \subseteq T, RemovesWithin(D),
           NEW c, NEW l \in Seq(Addrs), Once(l), NEW d, NEW i \in Nat, i + 1 <= Len(l),
           RemovedFrom(D, c, l, d, i)
    PROVE  RemovedFrom(D, c, l, remove_tracepoint(d, l[i + 1]), i + 1)
<1> DEFINE a == l[i + 1]
           n == Len(l)
           e == remove_tracepoint(d, a)
<1>0. n \in Nat /\ i + 1 \in 1..n /\ a \in Addrs /\ i + 1 > i
  OBVIOUS
<1>1. d \in D /\ Track(d) /\ d.tps \in [Addrs -> Tps \cup {None}]
  BY DEF RemovedFrom, Ctx
<1>2. \A b \in Addrs : d.tps[b] # None <=> \E j \in 1..n : j > i /\ l[j] = b
  BY DEF RemovedFrom
<1>3. Live(d, a)
  BY <1>0, <1>2 DEF Live
<1>4. \A j \in 1..n : l[j] = a => j = i + 1
  BY <1>0 DEF Once
<1> HIDE DEF a, n
<1>5. /\ e \in D /\ Track(e) /\ e.stream_id = d.stream_id
      /\ e.is_sampling = d.is_sampling /\ e.features = d.features /\ e.metric_set = d.metric_set
      /\ e.names = d.names /\ e.uuids = d.uuids /\ e.data = d.data
      /\ e.tps = [d.tps EXCEPT ![a] = None]
      /\ \A s \in TpOf(a) : e.id[s] = 0
      /\ \A s \in Streams \ TpOf(a) : e.id[s] = d.id[s]
  BY <1>0, <1>1, <1>3, RemoveTp
<1> HIDE DEF e
<1>6. ASSUME NEW b \in Addrs
      PROVE  e.tps[b] # None <=> \E j \in 1..n : j > i + 1 /\ l[j] = b
  <2>1. e.tps[b] = IF b = a THEN None ELSE d.tps[b]
    BY <1>0, <1>1, <1>5
  <2>2. CASE b = a
    BY <1>0, <1>4, <2>1, <2>2
  <2>3. CASE b # a
    <3>1. \A j \in 1..n : l[j] = b => j # i + 1
      BY <2>3 DEF a
    <3>2. \A j \in 1..n : l[j] = b => (j > i <=> j > i + 1)
      BY <1>0, <3>1
    <3>3. d.tps[b] # None <=> \E j \in 1..n : j > i + 1 /\ l[j] = b
      BY <1>2, <3>2
    <3> QED
      BY <2>1, <2>3, <3>3
  <2> QED
    BY <2>2, <2>3
<1>7. TpOf(a) \subseteq TpStreams /\ TpStreams \subseteq Streams
  BY DEF TpOf, Streams
<1>8. ASSUME NEW s \in Streams, d.id[s] = 0
      PROVE  e.id[s] = 0
  BY <1>5, <1>8
<1>9. ASSUME NEW j \in 1..n, j <= i + 1, NEW s \in TpOf(l[j])
      PROVE  e.id[s] = 0
  <2>1. s \in Streams
    BY DEF TpOf, Streams
  <2>2. CASE j = i + 1
    BY <1>5, <2>2 DEF a
  <2>3. CASE j # i + 1
    <3>1. j <= i
      BY <1>0, <1>9, <2>3
    <3>2. d.id[s] = 0
      BY <3>1 DEF RemovedFrom, n
    <3> QED
      BY <1>8, <2>1, <3>2
  <2> QED
    BY <2>2, <2>3
<1>10. /\ d.stream_id = c.stream_id
       /\ d.is_sampling = c.is_sampling /\ d.features = c.features /\ d.metric_set = c.metric_set
       /\ d.names = c.names /\ d.uuids = c.uuids /\ d.data = c.data
       /\ \A s \in Streams : c.id[s] = 0 => d.id[s] = 0
       /\ \A s \in Streams \ TpStreams : d.id[s] = c.id[s]
  BY DEF RemovedFrom
<1>11. \A s \in Streams : c.id[s] = 0 => e.id[s] = 0
  BY <1>8, <1>10
<1>12. \A s \in Streams \ TpStreams : e.id[s] = c.id[s]
  BY <1>5, <1>7, <1>10
<1>13. RemovedFrom(D, c, l, e, i + 1)
  BY <1>5, <1>6, <1>9, <1>10, <1>11, <1>12 DEF RemovedFrom, n
<1> QED
  BY <1>13 DEF e, a

\* remove_tracepoints() removes every tracepoint.
LEMMA RemoveAll ==
    ASSUME NEW D \in SUBSET Ctx, NEW T, ClosesWithin(D, T), TpStreams \subseteq T, RemovesWithin(D),
           NEW c \in D, Track(c)
    PROVE  LET d == remove_tracepoints(c) IN
           /\ d \in D /\ Track(d) /\ d.stream_id = c.stream_id
           /\ d.is_sampling = c.is_sampling /\ d.features = c.features /\ d.metric_set = c.metric_set
           /\ d.names = c.names /\ d.uuids = c.uuids /\ d.data = c.data
           /\ \A a \in Addrs : ~Live(d, a)
           /\ \A s \in TpStreams : Live(c, s[1]) => d.id[s] = 0
           /\ \A s \in Streams : c.id[s] = 0 => d.id[s] = 0
           /\ \A s \in Streams \ TpStreams : d.id[s] = c.id[s]
<1> DEFINE l == c.perf_tracepoints
           n == Len(l)
           R(d, i) == remove_tracepoint(d, l[i])
           g == [i \in 1..n |-> [d \in Ctx |-> IF R(d, i) \in Ctx THEN R(d, i) ELSE d]]
           fun == CHOOSE f : f = [i \in 0..Len(c.perf_tracepoints) |->
                                    IF i = 0 THEN c
                                    ELSE remove_tracepoint(f[i - 1], c.perf_tracepoints[i])]
<1>0. l \in Seq(Addrs) /\ n \in Nat /\ (\A i \in 1..n : l[i] \in Addrs) /\ c \in Ctx
  <2>1. l \in Seq(Addrs)
    BY DEF Ctx
  <2> HIDE DEF l
  <2> QED
    BY <2>1
<1>1. Once(l) /\ \A a \in Addrs : Live(c, a) <=> \E j \in 1..n : l[j] = a
  <2>1. Range(l) = {l[j] : j \in 1..n}
    <3> HIDE DEF l
    <3> QED
      BY <1>0 DEF Range
  <2>2. Once(l) /\ \A a \in Addrs : Live(c, a) <=> a \in Range(l)
    BY DEF Track
  <2> HIDE DEF l, n
  <2> QED
    BY <2>1, <2>2
<1>2. remove_tracepoints(c) = fun[n]
  BY Zenon DEF remove_tracepoints
<1>3. fun = CHOOSE f : f = [i \in 0..n |-> IF i = 0 THEN c ELSE R(f[i - 1], i)]
  BY Zenon
<1>4. RemovedFrom(D, c, l, c, 0)
  <2>1. \A j \in 1..n : j > 0 /\ ~(j <= 0)
    BY <1>0
  <2>2. \A a \in Addrs : c.tps[a] # None <=> \E j \in 1..n : j > 0 /\ l[j] = a
    BY <1>1, <2>1 DEF Live
  <2> HIDE DEF l
  <2> QED
    BY <2>1, <2>2 DEF RemovedFrom
<1> HIDE DEF n, l, fun
<1>5. g \in [1..n -> [Ctx -> Ctx]]
  BY <1>0
<1>6. PICK f \in [0..n -> Ctx] : f[0] = c /\ \A i \in 1..n : f[i] = g[i][f[i - 1]]
  <2> HIDE DEF g
  <2>1. Loop(n, Ctx, c, g)
    BY <1>0, <1>5, Iterates, Zenon
  <2> QED
    BY <2>1 DEF Loop
<1>7. ASSUME NEW h, NEW i \in Nat, i + 1 <= n, RemovedFrom(D, c, l, h, i)
      PROVE  RemovedFrom(D, c, l, R(h, i + 1), i + 1)
  <2>1. i + 1 <= Len(l)
    BY <1>7 DEF n
  <2> QED
    BY <1>0, <1>1, <1>7, <2>1, RemoveNext
<1>8. \A i \in 1..n : f[i] = R(f[i - 1], i)
  <2> DEFINE I == {i \in Nat : i <= n => RemovedFrom(D, c, l, f[i], i) /\ (i >= 1 => f[i] = R(f[i - 1], i))}
  <2>1. 0 \in I
    BY <1>4, <1>6
  <2>2. ASSUME NEW i \in I
        PROVE  i + 1 \in I
    <3>1. SUFFICES ASSUME i + 1 <= n
                   PROVE  RemovedFrom(D, c, l, f[i + 1], i + 1) /\ f[i + 1] = R(f[i], i + 1)
      <4>1. \A k \in Nat : (k + 1) - 1 = k
        OBVIOUS
      <4> QED
        BY <4>1
    <3>2. i \in Nat /\ i + 1 \in 1..n /\ (i + 1) - 1 = i /\ i <= n /\ i \in 0..n
      BY <1>0, <3>1
    <3> DEFINE d == f[i]
    <3>3. RemovedFrom(D, c, l, d, i) /\ d \in Ctx
      BY <3>2
    <3>4. f[i + 1] = g[i + 1][d]
      BY <1>6, <3>2
    <3> HIDE DEF d
    <3>5. RemovedFrom(D, c, l, R(d, i + 1), i + 1)
      BY <1>7, <3>1, <3>2, <3>3
    <3>6. R(d, i + 1) \in Ctx
      BY <3>5 DEF RemovedFrom
    <3>7. g[i + 1][d] = R(d, i + 1)
      BY <3>2, <3>3, <3>6
    <3> QED
      BY <3>4, <3>5, <3>7 DEF d
  <2>3. I \in SUBSET Nat
    OBVIOUS
  <2>4. \A i \in Nat : i \in I
    <3> HIDE DEF I
    <3> QED
      BY <2>1, <2>2, <2>3, NumberInduction
  <2> QED
    BY <1>0, <2>4
<1>9. f = [i \in 0..n |-> IF i = 0 THEN c ELSE R(f[i - 1], i)]
  <2> DEFINE h == [i \in 0..n |-> IF i = 0 THEN c ELSE R(f[i - 1], i)]
  <2> HIDE DEF R
  <2>1. \A i \in 0..n : f[i] = h[i]
    BY <1>0, <1>6, <1>8
  <2> QED
    BY <1>6, <2>1
<1>10. fun = [i \in 0..n |-> IF i = 0 THEN c ELSE R(fun[i - 1], i)]
  BY ONLY <1>3, <1>9, Zenon
<1>11. fun[0] = c /\ \A i \in 1..n : fun[i] = R(fun[i - 1], i)
  <2>1. 0 \in 0..n /\ \A i \in 1..n : i \in 0..n /\ i # 0
    BY <1>0
  <2> HIDE DEF R
  <2> QED
    BY <1>10, <2>1
<1> DEFINE I == {i \in Nat : i <= n => RemovedFrom(D, c, l, fun[i], i)}
<1>12. 0 \in I
  BY <1>4, <1>11
<1>13. ASSUME NEW i \in I
       PROVE  i + 1 \in I
  <2>1. SUFFICES ASSUME i + 1 <= n
                 PROVE  RemovedFrom(D, c, l, fun[i + 1], i + 1)
    OBVIOUS
  <2>2. i \in Nat /\ i + 1 \in 1..n /\ (i + 1) - 1 = i /\ i <= n
    BY <1>0, <2>1
  <2>3. RemovedFrom(D, c, l, fun[i], i)
    BY <2>2
  <2>4. fun[i + 1] = R(fun[i], i + 1)
    BY <1>11, <2>2
  <2> QED
    BY <1>7, <2>1, <2>2, <2>3, <2>4
<1>14. I \in SUBSET Nat
  OBVIOUS
<1>15. n \in I
  <2> HIDE DEF I
  <2> QED
    BY <1>0, <1>12, <1>13, <1>14, NumberInduction
<1> DEFINE d == fun[n]
<1>16. RemovedFrom(D, c, l, d, n)
  BY <1>0, <1>15
<1> HIDE DEF d
<1>17. \A j \in 1..n : j <= n /\ ~(j > n)
  BY <1>0
<1>18. \A a \in Addrs : ~Live(d, a)
  BY <1>16, <1>17 DEF RemovedFrom, Live, n
<1>19. ASSUME NEW s \in TpStreams, Live(c, s[1])
       PROVE  d.id[s] = 0
  <2>1. s[1] \in Addrs
    BY DifferentNodes
  <2>2. PICK j \in 1..n : l[j] = s[1]
    BY <1>1, <1>19, <2>1
  <2>3. s \in TpOf(l[j])
    BY <2>2 DEF TpOf
  <2> QED
    BY <1>16, <1>17, <2>3 DEF RemovedFrom, n
<1> QED
  BY <1>2, <1>16, <1>18, <1>19 DEF RemovedFrom, d

-----------------------------------------------------------------------------
(***************************************************************************)
(* What opening and closing streams preserves.                             *)
(***************************************************************************)

\* The streams of a tracepoint that is gone are closed; the table has the
\* streams of tracepoints under their ids; these ids are used up.
Owned(c) == \A s \in TpStreams : c.id[s] # 0 => Live(c, s[1])
Tabled(c) == \A i \in 1..MaxId : \A s \in TpStreams : c.table[i] = s <=> c.id[s] = i
Below(c) == \A s \in TpStreams : c.id[s] # 0 => c.id[s] < c.stream_id /\ c.id[s] <= MaxId

\* Contexts whose table is in step with their tracepoints' streams.
InTable == {c \in Ctx : Owned(c) /\ Tabled(c) /\ Below(c)}

\* Closing keeps the table in step.
LEMMA InTableCloses == ClosesWithin(InTable, Streams)
<1> SUFFICES ASSUME NEW c \in InTable, NEW s \in Streams, NEW d \in Ctx, c.id[s] # 0, ClosedTo(c, d, s)
             PROVE  d \in InTable
  BY DEF ClosesWithin
<1>1. /\ c \in Ctx /\ Owned(c) /\ Tabled(c) /\ Below(c)
      /\ c.id \in [Streams -> Nat] /\ c.table \in [1..MaxId -> TpStreams \cup {None}]
  BY DEF InTable, Ctx
<1>2. TpStreams \subseteq Streams /\ None \notin TpStreams
  BY DifferentNodes DEF Streams
<1>3. \A t \in Streams : d.id[t] = IF t = s THEN 0 ELSE c.id[t]
  BY <1>1 DEF ClosedTo
<1>4. Owned(d) /\ Below(d)
  BY <1>1, <1>2, <1>3 DEF Owned, Below, ClosedTo, Kept, Live
<1>5. ASSUME NEW i \in 1..MaxId, NEW t \in TpStreams
      PROVE  d.table[i] = t <=> d.id[t] = i
  <2>0. c.table[i] = t <=> c.id[t] = i
    BY <1>1 DEF Tabled
  <2>1. i # 0 /\ t \in Streams
    BY <1>2, ClientAssumption
  <2>2. CASE s \notin TpStreams
    <3>1. d.table = c.table /\ t # s
      BY <2>2 DEF ClosedTo
    <3> QED
      BY <1>3, <2>0, <2>1, <3>1
  <2>3. CASE s \in TpStreams
    <3>1. d.table[i] = IF i = c.id[s] THEN None ELSE c.table[i]
      BY <1>1, <2>3 DEF ClosedTo
    <3>2. c.table[i] = s <=> c.id[s] = i
      BY <1>1, <2>3 DEF Tabled
    <3>3. CASE i = c.id[s]
      <4>1. c.table[i] = s /\ d.table[i] = None
        BY <3>1, <3>2, <3>3
      <4> QED
        BY <1>2, <1>3, <2>0, <2>1, <4>1
    <3>4. CASE i # c.id[s]
      <4>1. c.table[i] # s /\ d.table[i] = c.table[i]
        BY <3>1, <3>2, <3>4
      <4> QED
        BY <1>3, <2>0, <2>1, <4>1
    <3> QED
      BY <3>3, <3>4
  <2> QED
    BY <2>2, <2>3
<1> QED
  BY <1>4, <1>5 DEF InTable, Tabled

\* Opening keeps the table in step: the next id is in no entry.
LEMMA InTableOpens == OpensWithin(InTable, Streams)
<1> SUFFICES ASSUME NEW c \in InTable, NEW s \in Streams, NEW d \in Ctx, MayOpen(c, s), OpenedTo(c, d, s)
             PROVE  d \in InTable
  BY DEF OpensWithin
<1>1. /\ c \in Ctx /\ Owned(c) /\ Tabled(c) /\ Below(c) /\ c.stream_id \in Nat
      /\ c.id \in [Streams -> Nat] /\ c.table \in [1..MaxId -> TpStreams \cup {None}]
  BY DEF InTable, Ctx
<1>2. TpStreams \subseteq Streams /\ MaxId \in Nat
  BY ClientAssumption DEF Streams
<1>3. \A t \in Streams : d.id[t] = IF t = s THEN c.stream_id ELSE c.id[t]
  BY <1>1 DEF OpenedTo
<1>4. d.tps = c.tps /\ d.stream_id = c.stream_id + 1
  BY DEF OpenedTo, Kept
<1>5. Owned(d)
  BY <1>1, <1>2, <1>3, <1>4 DEF Owned, Live, MayOpen
<1>6. Below(d)
  <2> SUFFICES ASSUME NEW t \in TpStreams, d.id[t] # 0
               PROVE  d.id[t] < d.stream_id /\ d.id[t] <= MaxId
    BY DEF Below
  <2>1. CASE t = s
    BY <1>1, <1>2, <1>3, <1>4, <2>1 DEF MayOpen
  <2>2. CASE t # s
    <3>1. d.id[t] = c.id[t] /\ c.id[t] \in Nat
      BY <1>1, <1>2, <1>3, <2>2
    <3>2. c.id[t] < c.stream_id /\ c.id[t] <= MaxId
      BY <1>1, <3>1 DEF Below
    <3> QED
      BY <1>1, <1>4, <3>1, <3>2
  <2> QED
    BY <2>1, <2>2
<1>7. ASSUME NEW i \in 1..MaxId, NEW t \in TpStreams
      PROVE  d.table[i] = t <=> d.id[t] = i
  <2>0. c.table[i] = t <=> c.id[t] = i
    BY <1>1 DEF Tabled
  <2>1. i # 0 /\ t \in Streams
    BY <1>2
  <2>2. CASE s \notin TpStreams
    <3>1. d.table = c.table /\ t # s
      BY <2>2 DEF OpenedTo
    <3> QED
      BY <1>3, <2>0, <2>1, <3>1
  <2>3. CASE s \in TpStreams
    <3>1. d.table[i] = IF i = c.stream_id THEN s ELSE c.table[i]
      BY <1>1, <2>3 DEF OpenedTo
    <3>2. c.id[s] = 0 /\ (c.table[i] = s <=> c.id[s] = i)
      BY <1>1, <2>3 DEF Tabled, MayOpen
    <3>3. c.id[t] # 0 => c.id[t] < c.stream_id
      BY <1>1 DEF Below
    <3>4. c.id[t] \in Nat
      BY <1>1, <1>2
    <3>5. CASE t = s
      <4>1. d.id[t] = c.stream_id /\ c.table[i] # s
        BY <1>3, <2>1, <3>2, <3>5
      <4> QED
        BY <3>1, <3>5, <4>1
    <3>6. CASE t # s
      <4>1. d.id[t] = c.id[t]
        BY <1>3, <2>1, <3>6
      <4>2. CASE i = c.stream_id
        <5>1. c.id[t] # i
          BY <1>1, <2>1, <3>3, <3>4, <4>2
        <5> QED
          BY <3>1, <3>6, <4>1, <4>2, <5>1
      <4>3. CASE i # c.stream_id
        BY <2>0, <3>1, <4>1, <4>3
      <4> QED
        BY <4>2, <4>3
    <3> QED
      BY <3>5, <3>6
  <2> QED
    BY <2>2, <2>3
<1> QED
  BY <1>5, <1>6, <1>7 DEF InTable, Tabled

\* So do the rest of sampling and a removal.
LEMMA InTableElse == TouchesWithin(InTable) /\ RemovesWithin(InTable)
<1>1. TouchesWithin(InTable)
  <2> SUFFICES ASSUME NEW c \in InTable, NEW d \in Ctx, Touched(c, d)
               PROVE  d \in InTable
    BY DEF TouchesWithin
  <2>1. Owned(c) /\ Tabled(c) /\ Below(c)
    BY DEF InTable
  <2>2. d.id = c.id /\ d.table = c.table /\ d.stream_id = c.stream_id /\ d.tps = c.tps
    BY DEF Touched
  <2> QED
    BY <2>1, <2>2 DEF InTable, Owned, Tabled, Below, Live
<1>2. RemovesWithin(InTable)
  <2> SUFFICES ASSUME NEW c \in InTable, NEW a \in Addrs, NEW d \in Ctx,
                      \A s \in TpOf(a) : c.id[s] = 0, RemovedTo(c, d, a)
               PROVE  d \in InTable
    BY DEF RemovesWithin
  <2>1. Owned(c) /\ Tabled(c) /\ Below(c) /\ c.tps \in [Addrs -> Tps \cup {None}]
    BY DEF InTable, Ctx
  <2>2. /\ d.id = c.id /\ d.table = c.table /\ d.stream_id = c.stream_id
        /\ d.tps = [c.tps EXCEPT ![a] = None]
    BY DEF RemovedTo
  <2>3. Tabled(d) /\ Below(d)
    BY <2>1, <2>2 DEF Tabled, Below
  <2>4. ASSUME NEW s \in TpStreams, d.id[s] # 0
        PROVE  Live(d, s[1])
    <3>1. c.id[s] # 0 /\ s[1] # a /\ s[1] \in Addrs
      BY <2>2, <2>4, DifferentNodes DEF TpOf
    <3> QED
      BY <2>1, <2>2, <3>1 DEF Owned, Live
  <2> QED
    BY <2>3, <2>4 DEF InTable, Owned
<1> QED
  BY <1>1, <1>2

\* What the server has once it has handled what the handler sent, S before,
\* and what the client lists.
ListedOf(c) == {[id |-> c.id[s], stream |-> s] : s \in {t \in Streams : is_stream_opened(c, t)}}

\* The streams of a server after the requests of the context.
After(S, c) == HandledAll(S, c.out)

\* No two streams have the same id, and none has the next one.
Unique(c) ==
    /\ \A s \in Streams : c.id[s] # 0 => c.id[s] < c.stream_id
    /\ \A s \in Streams : \A t \in Streams : c.id[s] # 0 /\ c.id[s] = c.id[t] => s = t

\* Contexts that list every stream of the server, contexts that list no other,
\* contexts whose requests open nothing, and ones that do not ask for fields.
Forgets(S) == {c \in Ctx : After(S, c) \subseteq ListedOf(c)}
Misses(S) == {c \in Ctx : Unique(c) /\ ListedOf(c) \subseteq After(S, c)}
Quiet == {c \in Ctx : After({}, c) = {}}
NoInfo(l) == \A i \in 1..Len(l) : l[i].req # "info"
Silent == {c \in Ctx : NoInfo(c.out)}

\* What is listed.
LEMMA ListedIs ==
    ASSUME NEW c \in Ctx
    PROVE  \A x : x \in ListedOf(c) <=> /\ x \in StreamSet
                                        /\ c.id[x.stream] # 0 /\ x.id = c.id[x.stream]
<1>0. c.id \in [Streams -> Nat]
  BY DEF Ctx
<1>1. ASSUME NEW x, x \in ListedOf(c)
      PROVE  x \in StreamSet /\ c.id[x.stream] # 0 /\ x.id = c.id[x.stream]
  <2>1. PICK s \in Streams : c.id[s] # 0 /\ x = [id |-> c.id[s], stream |-> s]
    BY <1>1 DEF ListedOf, is_stream_opened
  <2> QED
    BY <1>0, <2>1 DEF StreamSet
<1>2. ASSUME NEW x, x \in StreamSet, c.id[x.stream] # 0, x.id = c.id[x.stream]
      PROVE  x \in ListedOf(c)
  <2> DEFINE s == x.stream
  <2>1. s \in Streams /\ x = [id |-> c.id[s], stream |-> s]
    BY <1>2 DEF StreamSet
  <2> QED
    BY <1>2, <2>1 DEF ListedOf, is_stream_opened
<1> QED
  BY <1>1, <1>2

\* What the server makes of one more request.
LEMMA AfterClose ==
    ASSUME NEW S \in SUBSET StreamSet, NEW c \in Ctx, NEW d \in Ctx, NEW s \in Streams, ClosedTo(c, d, s)
    PROVE  After(S, d) = {x \in After(S, c) : x.id # c.id[s]}
<1> DEFINE r == [req |-> "close", id |-> c.id[s]]
           o == c.out
<1>1. o \in Seq(Reqs) /\ r \in Reqs /\ d.out = Append(o, r)
  BY DEF Ctx, Reqs, ClosedTo
<1>2. r.req = "close" /\ r.id = c.id[s]
  OBVIOUS
<1> HIDE DEF r, o
<1>3. HandledAll(S, Append(o, r)) = Handled(HandledAll(S, o), r)
  BY <1>1, HandledAppend
<1> QED
  BY <1>1, <1>2, <1>3 DEF After, Handled, o

\* A stream that is opened is open on the server.
LEMMA AfterOpen ==
    ASSUME NEW S \in SUBSET StreamSet, NEW c \in Ctx, NEW d \in Ctx, NEW s \in Streams, OpenedTo(c, d, s)
    PROVE  After(S, d) = After(S, c) \cup {[id |-> c.stream_id, stream |-> s]}
<1> DEFINE r == [req |-> "open", id |-> c.stream_id, stream |-> s]
           o == c.out
<1>1. o \in Seq(Reqs) /\ r \in Reqs /\ d.out = Append(o, r)
  BY DEF Ctx, Reqs, OpenedTo
<1>2. r.req = "open" /\ r.id = c.stream_id /\ r.stream = s
  OBVIOUS
<1> HIDE DEF r, o
<1>3. HandledAll(S, Append(o, r)) = Handled(HandledAll(S, o), r)
  BY <1>1, HandledAppend
<1> QED
  BY <1>1, <1>2, <1>3 DEF After, Handled, o

\* No operation forgets a stream of the server.
LEMMA ForgetsStable ==
    ASSUME NEW S \in SUBSET StreamSet
    PROVE  Stable(Forgets(S), Streams) /\ RemovesWithin(Forgets(S))
<1>1. ClosesWithin(Forgets(S), Streams)
  <2> SUFFICES ASSUME NEW c \in Forgets(S), NEW s \in Streams, NEW d \in Ctx, c.id[s] # 0, ClosedTo(c, d, s)
               PROVE  d \in Forgets(S)
    BY DEF ClosesWithin
  <2>1. c \in Ctx /\ After(S, c) \subseteq ListedOf(c) /\ c.id \in [Streams -> Nat]
    BY DEF Forgets, Ctx
  <2>2. After(S, d) = {x \in After(S, c) : x.id # c.id[s]}
    BY <2>1, AfterClose
  <2>3. \A t \in Streams : d.id[t] = IF t = s THEN 0 ELSE c.id[t]
    BY <2>1 DEF ClosedTo
  <2>4. ASSUME NEW x \in After(S, d)
        PROVE  x \in ListedOf(d)
    <3>1. x \in ListedOf(c) /\ x.id # c.id[s]
      BY <2>1, <2>2
    <3>2. x \in StreamSet /\ c.id[x.stream] # 0 /\ x.id = c.id[x.stream]
      BY <2>1, <3>1, ListedIs
    <3>3. x.stream \in Streams /\ x.stream # s
      BY <3>1, <3>2 DEF StreamSet
    <3>4. d.id[x.stream] = c.id[x.stream]
      BY <2>3, <3>3
    <3> QED
      BY <3>2, <3>4, ListedIs
  <2> QED
    BY <2>4 DEF Forgets
<1>2. OpensWithin(Forgets(S), Streams)
  <2> SUFFICES ASSUME NEW c \in Forgets(S), NEW s \in Streams, NEW d \in Ctx, MayOpen(c, s), OpenedTo(c, d, s)
               PROVE  d \in Forgets(S)
    BY DEF OpensWithin
  <2>1. c \in Ctx /\ After(S, c) \subseteq ListedOf(c) /\ c.id \in [Streams -> Nat] /\ c.stream_id \in Nat
    BY DEF Forgets, Ctx
  <2>2. After(S, d) = After(S, c) \cup {[id |-> c.stream_id, stream |-> s]}
    BY <2>1, AfterOpen
  <2>3. \A t \in Streams : d.id[t] = IF t = s THEN c.stream_id ELSE c.id[t]
    BY <2>1 DEF OpenedTo
  <2>4. c.id[s] = 0 /\ c.stream_id # 0
    BY <2>1 DEF MayOpen
  <2>5. ASSUME NEW x \in After(S, d)
        PROVE  x \in ListedOf(d)
    <3>1. CASE x = [id |-> c.stream_id, stream |-> s]
      <4>1. x \in StreamSet /\ x.stream = s /\ x.id = c.stream_id
        BY <2>1, <3>1 DEF StreamSet
      <4>2. d.id[x.stream] = c.stream_id
        BY <2>3, <4>1
      <4> QED
        BY <2>4, <4>1, <4>2, ListedIs
    <3>2. CASE x \in After(S, c)
      <4>1. x \in ListedOf(c)
        BY <2>1, <3>2
      <4>2. x \in StreamSet /\ c.id[x.stream] # 0 /\ x.id = c.id[x.stream]
        BY <2>1, <4>1, ListedIs
      <4>3. x.stream \in Streams /\ x.stream # s
        BY <2>4, <4>2 DEF StreamSet
      <4>4. d.id[x.stream] = c.id[x.stream]
        BY <2>3, <4>3
      <4> QED
        BY <4>2, <4>4, ListedIs
    <3> QED
      BY <2>2, <3>1, <3>2
  <2> QED
    BY <2>5 DEF Forgets
<1>3. ASSUME NEW c \in Forgets(S), NEW d \in Ctx, d.id = c.id, d.out = c.out
      PROVE  d \in Forgets(S)
  BY <1>3 DEF Forgets, After, ListedOf, is_stream_opened
<1>4. TouchesWithin(Forgets(S)) /\ RemovesWithin(Forgets(S))
  BY <1>3 DEF TouchesWithin, RemovesWithin, Touched, RemovedTo
<1> QED
  BY <1>1, <1>2, <1>4 DEF Stable

\* No operation lists a stream the server does not have.
LEMMA MissesStable ==
    ASSUME NEW S \in SUBSET StreamSet
    PROVE  Stable(Misses(S), Streams) /\ RemovesWithin(Misses(S))
<1>1. ClosesWithin(Misses(S), Streams)
  <2> SUFFICES ASSUME NEW c \in Misses(S), NEW s \in Streams, NEW d \in Ctx, c.id[s] # 0, ClosedTo(c, d, s)
               PROVE  d \in Misses(S)
    BY DEF ClosesWithin
  <2>1. c \in Ctx /\ Unique(c) /\ ListedOf(c) \subseteq After(S, c) /\ c.id \in [Streams -> Nat]
    BY DEF Misses, Ctx
  <2>2. After(S, d) = {x \in After(S, c) : x.id # c.id[s]}
    BY <2>1, AfterClose
  <2>3. (\A t \in Streams : d.id[t] = IF t = s THEN 0 ELSE c.id[t]) /\ d.stream_id = c.stream_id
    BY <2>1 DEF ClosedTo
  <2>4. Unique(d)
    BY <2>1, <2>3 DEF Unique
  <2>5. ASSUME NEW x \in ListedOf(d)
        PROVE  x \in After(S, d)
    <3>1. x \in StreamSet /\ d.id[x.stream] # 0 /\ x.id = d.id[x.stream]
      BY ListedIs
    <3>2. x.stream \in Streams /\ x.stream # s
      BY <2>3, <3>1 DEF StreamSet
    <3>3. d.id[x.stream] = c.id[x.stream]
      BY <2>3, <3>2
    <3>4. x \in ListedOf(c)
      BY <2>1, <3>1, <3>3, ListedIs
    <3>5. x.id # c.id[s]
      BY <2>1, <3>1, <3>2, <3>3 DEF Unique
    <3> QED
      BY <2>1, <2>2, <3>4, <3>5
  <2> QED
    BY <2>4, <2>5 DEF Misses
<1>2. OpensWithin(Misses(S), Streams)
  <2> SUFFICES ASSUME NEW c \in Misses(S), NEW s \in Streams, NEW d \in Ctx, MayOpen(c, s), OpenedTo(c, d, s)
               PROVE  d \in Misses(S)
    BY DEF OpensWithin
  <2>1. /\ c \in Ctx /\ Unique(c) /\ ListedOf(c) \subseteq After(S, c) /\ c.id \in [Streams -> Nat]
        /\ c.stream_id \in Nat
    BY DEF Misses, Ctx
  <2>2. After(S, d) = After(S, c) \cup {[id |-> c.stream_id, stream |-> s]}
    BY <2>1, AfterOpen
  <2>3. /\ \A t \in Streams : d.id[t] = IF t = s THEN c.stream_id ELSE c.id[t]
        /\ d.stream_id = c.stream_id + 1
    BY <2>1 DEF OpenedTo
  <2>4. c.id[s] = 0 /\ c.stream_id # 0
    BY <2>1 DEF MayOpen
  <2>5. \A t \in Streams : c.id[t] \in Nat /\ (c.id[t] # 0 => c.id[t] < c.stream_id)
    BY <2>1 DEF Unique
  <2>6. Unique(d)
    <3>1. ASSUME NEW t \in Streams, d.id[t] # 0
          PROVE  d.id[t] < d.stream_id
      <4>1. CASE t = s
        BY <2>1, <2>3, <4>1
      <4>2. CASE t # s
        BY <2>1, <2>3, <2>5, <3>1, <4>2
      <4> QED
        BY <4>1, <4>2
    <3>2. ASSUME NEW t \in Streams, NEW u \in Streams, d.id[t] # 0, d.id[t] = d.id[u]
          PROVE  t = u
      <4>1. \A v \in Streams : v # s => d.id[v] = c.id[v] /\ c.id[v] # c.stream_id
        BY <2>1, <2>3, <2>4, <2>5
      <4>2. \A v \in Streams : v = s => d.id[v] = c.stream_id
        BY <2>3
      <4>3. CASE t # s /\ u # s
        <5>1. c.id[t] # 0 /\ c.id[t] = c.id[u]
          BY <3>2, <4>1, <4>3
        <5> QED
          BY <2>1, <5>1 DEF Unique
      <4>4. CASE t = s \/ u = s
        BY <3>2, <4>1, <4>2, <4>4
      <4> QED
        BY <4>3, <4>4
    <3> QED
      BY <3>1, <3>2 DEF Unique
  <2>7. ASSUME NEW x \in ListedOf(d)
        PROVE  x \in After(S, d)
    <3>1. x \in StreamSet /\ d.id[x.stream] # 0 /\ x.id = d.id[x.stream]
      BY ListedIs
    <3>2. x.stream \in Streams /\ x = [id |-> x.id, stream |-> x.stream]
      BY <3>1 DEF StreamSet
    <3>3. CASE x.stream = s
      <4>1. x.id = c.stream_id
        BY <2>3, <3>1, <3>2, <3>3
      <4>2. x = [id |-> c.stream_id, stream |-> s]
        BY <3>2, <3>3, <4>1
      <4> QED
        BY <2>2, <4>2
    <3>4. CASE x.stream # s
      <4>1. d.id[x.stream] = c.id[x.stream]
        BY <2>3, <3>2, <3>4
      <4>2. x \in ListedOf(c)
        BY <2>1, <3>1, <4>1, ListedIs
      <4> QED
        BY <2>1, <2>2, <4>2
    <3> QED
      BY <3>3, <3>4
  <2> QED
    BY <2>6, <2>7 DEF Misses
<1>3. ASSUME NEW c \in Misses(S), NEW d \in Ctx, d.id = c.id, d.out = c.out, d.stream_id = c.stream_id
      PROVE  d \in Misses(S)
  BY <1>3 DEF Misses, After, ListedOf, is_stream_opened, Unique
<1>4. TouchesWithin(Misses(S)) /\ RemovesWithin(Misses(S))
  BY <1>3 DEF TouchesWithin, RemovesWithin, Touched, RemovedTo
<1> QED
  BY <1>1, <1>2, <1>4 DEF Stable

\* Closing streams opens none.
LEMMA QuietCloses == ClosesWithin(Quiet, Streams) /\ RemovesWithin(Quiet)
<1>1. ASSUME NEW c \in Quiet, NEW s \in Streams, NEW d \in Ctx, c.id[s] # 0, ClosedTo(c, d, s)
      PROVE  d \in Quiet
  <2> DEFINE S == {}
  <2>1. c \in Ctx /\ After(S, c) = {} /\ S \in SUBSET StreamSet
    BY DEF Quiet
  <2>2. After(S, d) = {x \in After(S, c) : x.id # c.id[s]}
    <3> HIDE DEF S
    <3> QED
      BY <1>1, <2>1, AfterClose
  <2>3. After(S, d) = {}
    BY <2>1, <2>2
  <2> QED
    BY <2>3 DEF Quiet
<1>2. RemovesWithin(Quiet)
  BY DEF RemovesWithin, RemovedTo, Quiet, After
<1> QED
  BY <1>1, <1>2 DEF ClosesWithin

\* Opening and closing streams asks for no fields.
LEMMA SilentStable == Stable(Silent, Streams) /\ RemovesWithin(Silent)
<1>1. ASSUME NEW c \in Silent, NEW d \in Ctx, NEW r \in Reqs, d.out = Append(c.out, r), r.req # "info"
      PROVE  d \in Silent
  <2> DEFINE o == c.out
             m == Append(o, r)
  <2>1. o \in Seq(Reqs) /\ \A i \in 1..Len(o) : o[i].req # "info"
    BY DEF Silent, Ctx, NoInfo
  <2> HIDE DEF o
  <2>2. Len(m) = Len(o) + 1 /\ Len(o) \in Nat /\ m[Len(o) + 1] = r /\ \A i \in 1..Len(o) : m[i] = o[i]
    BY <2>1
  <2> HIDE DEF m
  <2>3. \A i \in 1..Len(m) : i \in 1..Len(o) \/ i = Len(o) + 1
    BY <2>2
  <2>4. NoInfo(m)
    BY <1>1, <2>1, <2>2, <2>3 DEF NoInfo
  <2> QED
    BY <1>1, <2>4 DEF Silent, m, o
<1>2. ClosesWithin(Silent, Streams)
  <2> SUFFICES ASSUME NEW c \in Silent, NEW s \in Streams, NEW d \in Ctx, c.id[s] # 0, ClosedTo(c, d, s)
               PROVE  d \in Silent
    BY DEF ClosesWithin
  <2> DEFINE r == [req |-> "close", id |-> c.id[s]]
  <2>1. r \in Reqs /\ r.req # "info" /\ d.out = Append(c.out, r)
    BY DEF ClosedTo, Reqs, Silent, Ctx
  <2> HIDE DEF r
  <2> QED
    BY <1>1, <2>1
<1>3. OpensWithin(Silent, Streams)
  <2> SUFFICES ASSUME NEW c \in Silent, NEW s \in Streams, NEW d \in Ctx, MayOpen(c, s), OpenedTo(c, d, s)
               PROVE  d \in Silent
    BY DEF OpensWithin
  <2> DEFINE r == [req |-> "open", id |-> c.stream_id, stream |-> s]
  <2>1. r \in Reqs /\ r.req # "info" /\ d.out = Append(c.out, r)
    BY DEF OpenedTo, Reqs, Silent, Ctx
  <2> HIDE DEF r
  <2> QED
    BY <1>1, <2>1
<1>4. TouchesWithin(Silent) /\ RemovesWithin(Silent)
  BY DEF TouchesWithin, RemovesWithin, Touched, RemovedTo, Silent
<1> QED
  BY <1>2, <1>3, <1>4 DEF Stable

-----------------------------------------------------------------------------
(***************************************************************************)
(* The list of streams.  A rank that falls along next, from the head to    *)
(* the end, says that the streams of O are on one list; unlinking keeps it *)
(* as it is.                                                               *)
(***************************************************************************)

\* next leads from the head through streams of O, and back
Path(nx, O, r) ==
    /\ \A x \in O \cup {ListHead} : nx[x] \in O \cup {ListHead}
    /\ \A s \in O : nx[s] # ListHead => r[nx[s]] < r[s]

\* ... through every stream of O, and prev leads the other way
Ring(nx, pv, O, r) ==
    /\ Path(nx, O, r)
    /\ \A x \in O \cup {ListHead} : pv[x] \in O \cup {ListHead} /\ pv[nx[x]] = x /\ nx[pv[x]] = x

\* The streams that are open, and those contexts that have them all on one list.
OpenOf(c) == {s \in Streams : c.id[s] # 0}

Ranks == [Nodes -> Nat]

Linked == {c \in Ctx : \E r \in Ranks : Ring(c.next, c.prev, OpenOf(c), r)}

\* list_del() of a stream that is on the list.
LEMMA RingDel ==
    ASSUME NEW nx \in [Nodes -> Nodes \cup {None}], NEW pv \in [Nodes -> Nodes \cup {None}],
           NEW O \in SUBSET Streams, NEW r \in Ranks, Ring(nx, pv, O, r), NEW s \in O
    PROVE  Ring([[nx EXCEPT ![pv[s]] = nx[s]] EXCEPT ![s] = None],
                [[pv EXCEPT ![nx[s]] = pv[s]] EXCEPT ![s] = None], O \ {s}, r)
<1> DEFINE p == pv[s]
           n == nx[s]
           nx2 == [[nx EXCEPT ![p] = n] EXCEPT ![s] = None]
           pv2 == [[pv EXCEPT ![n] = p] EXCEPT ![s] = None]
           P == O \cup {ListHead}
           Q == (O \ {s}) \cup {ListHead}
<1>0. ListHead \notin O /\ P \subseteq Nodes /\ ListHead # s /\ Q = P \ {s} /\ s \in P
  BY DifferentNodes
<1>1. /\ \A x \in P : nx[x] \in P /\ pv[x] \in P /\ pv[nx[x]] = x /\ nx[pv[x]] = x
      /\ \A x \in O : nx[x] # ListHead => r[nx[x]] < r[x]
  BY DEF Ring, Path
<1>2. p \in P /\ n \in P /\ nx[p] = s /\ pv[n] = s
  BY <1>0, <1>1
<1>3. p # s /\ n # s
  <2>1. ASSUME n = s PROVE FALSE
    <3>1. s # ListHead /\ r[s] < r[s] /\ r[s] \in Nat
      BY <1>0, <1>1, <2>1 DEF Ranks
    <3> QED
      BY <3>1
  <2>2. p = s => n = s
    BY <1>2
  <2> QED
    BY <2>1, <2>2
<1>4. \A x \in P : nx2[x] = IF x = s THEN None ELSE IF x = p THEN n ELSE nx[x]
  BY <1>0, <1>2
<1>5. \A x \in P : pv2[x] = IF x = s THEN None ELSE IF x = n THEN p ELSE pv[x]
  BY <1>0, <1>2
<1> HIDE DEF nx2, pv2, p, n, P, Q
<1>6. ASSUME NEW x \in Q
      PROVE  nx2[x] \in Q /\ pv2[nx2[x]] = x
  <2>1. x \in P /\ x # s
    BY <1>0
  <2>2. CASE x = p
    BY <1>0, <1>2, <1>3, <1>4, <1>5, <2>1, <2>2
  <2>3. CASE x # p
    <3>1. nx2[x] = nx[x] /\ nx[x] \in P /\ pv[nx[x]] = x
      BY <1>1, <1>4, <2>1, <2>3
    <3>2. nx[x] # s /\ nx[x] # n
      BY <1>2, <2>1, <2>3, <3>1 DEF p
    <3> QED
      BY <1>0, <1>5, <3>1, <3>2
  <2> QED
    BY <2>2, <2>3
<1>7. ASSUME NEW x \in Q
      PROVE  pv2[x] \in Q /\ nx2[pv2[x]] = x
  <2>1. x \in P /\ x # s
    BY <1>0
  <2>2. CASE x = n
    BY <1>0, <1>2, <1>3, <1>4, <1>5, <2>1, <2>2
  <2>3. CASE x # n
    <3>1. pv2[x] = pv[x] /\ pv[x] \in P /\ nx[pv[x]] = x
      BY <1>1, <1>5, <2>1, <2>3
    <3>2. pv[x] # s /\ pv[x] # p
      BY <1>2, <2>1, <2>3, <3>1 DEF n
    <3> QED
      BY <1>0, <1>4, <3>1, <3>2
  <2> QED
    BY <2>2, <2>3
<1>8. ASSUME NEW x \in O \ {s}, nx2[x] # ListHead
      PROVE  r[nx2[x]] < r[x]
  <2>1. x \in P /\ x \in O
    BY DEF P
  <2>2. CASE x = p
    <3>1. nx2[x] = n /\ n # ListHead /\ n \in P
      BY <1>2, <1>4, <1>8, <2>1, <2>2
    <3>2. r[s] < r[x] /\ r[n] < r[s]
      BY <1>0, <1>1, <1>2, <2>1, <2>2, <3>1 DEF n
    <3>3. r[s] \in Nat /\ r[x] \in Nat /\ r[n] \in Nat
      BY <1>0, <2>1, <3>1 DEF Ranks
    <3> QED
      BY <3>1, <3>2, <3>3
  <2>3. CASE x # p
    BY <1>1, <1>4, <1>8, <2>1, <2>3
  <2> QED
    BY <2>2, <2>3
<1>9. Ring(nx2, pv2, O \ {s}, r)
  BY <1>6, <1>7, <1>8 DEF Ring, Path, Q
<1> QED
  BY <1>9 DEF nx2, pv2, p, n

\* list_add() of a stream that is not.
LEMMA RingAdd ==
    ASSUME NEW nx \in [Nodes -> Nodes \cup {None}], NEW pv \in [Nodes -> Nodes \cup {None}],
           NEW O \in SUBSET Streams, NEW r \in Ranks, Ring(nx, pv, O, r), NEW s \in Streams, s \notin O
    PROVE  \E q \in Ranks : Ring([[nx EXCEPT ![s] = nx[ListHead]] EXCEPT ![ListHead] = s],
                                 [[pv EXCEPT ![s] = ListHead] EXCEPT ![nx[ListHead]] = s],
                                 O \cup {s}, q)
<1> DEFINE f == nx[ListHead]
           nx2 == [[nx EXCEPT ![s] = f] EXCEPT ![ListHead] = s]
           pv2 == [[pv EXCEPT ![s] = ListHead] EXCEPT ![f] = s]
           q == [r EXCEPT ![s] = r[f] + 1]
           P == O \cup {ListHead}
           Q == (O \cup {s}) \cup {ListHead}
<1>0. /\ ListHead \notin O /\ P \subseteq Nodes /\ Q \subseteq Nodes /\ ListHead # s /\ Q = P \cup {s}
      /\ s \notin P /\ ListHead \in P
  BY DifferentNodes
<1>1. /\ \A x \in P : nx[x] \in P /\ pv[x] \in P /\ pv[nx[x]] = x /\ nx[pv[x]] = x
      /\ \A x \in O : nx[x] # ListHead => r[nx[x]] < r[x]
  BY DEF Ring, Path
<1>2. f \in P /\ pv[f] = ListHead /\ f # s
  BY <1>0, <1>1
<1>3. \A x \in Q : nx2[x] = IF x = ListHead THEN s ELSE IF x = s THEN f ELSE nx[x]
  BY <1>0
<1>4. \A x \in Q : pv2[x] = IF x = f THEN s ELSE IF x = s THEN ListHead ELSE pv[x]
  BY <1>0, <1>2
<1>5. q \in Ranks /\ \A x \in Nodes : q[x] = IF x = s THEN r[f] + 1 ELSE r[x]
  BY <1>0, <1>2 DEF Ranks
<1> HIDE DEF nx2, pv2, f, P, Q, q
<1>6. ASSUME NEW x \in Q
      PROVE  nx2[x] \in Q /\ pv2[nx2[x]] = x
  <2>1. CASE x = ListHead \/ x = s
    BY <1>0, <1>2, <1>3, <1>4, <2>1
  <2>2. CASE x # ListHead /\ x # s
    <3>1. nx2[x] = nx[x] /\ nx[x] \in P /\ pv[nx[x]] = x
      BY <1>0, <1>1, <1>3, <2>2
    <3>2. nx[x] # f /\ nx[x] # s
      BY <1>0, <1>2, <2>2, <3>1
    <3> QED
      BY <1>0, <1>4, <3>1, <3>2
  <2> QED
    BY <2>1, <2>2
<1>7. ASSUME NEW x \in Q
      PROVE  pv2[x] \in Q /\ nx2[pv2[x]] = x
  <2>1. CASE x = f \/ x = s
    BY <1>0, <1>2, <1>3, <1>4, <2>1
  <2>2. CASE x # f /\ x # s
    <3>1. pv2[x] = pv[x] /\ pv[x] \in P /\ nx[pv[x]] = x
      BY <1>0, <1>1, <1>4, <2>2
    <3>2. pv[x] # ListHead /\ pv[x] # s
      BY <1>0, <2>2, <3>1 DEF f
    <3> QED
      BY <1>0, <1>3, <3>1, <3>2
  <2> QED
    BY <2>1, <2>2
<1>8. ASSUME NEW x \in O \cup {s}, nx2[x] # ListHead
      PROVE  q[nx2[x]] < q[x]
  <2>0. x \in Q /\ x # ListHead /\ x \in Nodes
    BY <1>0 DEF Q
  <2>1. CASE x = s
    <3>1. nx2[x] = f /\ f # s /\ f \in Nodes /\ r[f] \in Nat
      BY <1>0, <1>2, <1>3, <2>0, <2>1 DEF Ranks
    <3>2. q[f] = r[f] /\ q[x] = r[f] + 1
      BY <1>5, <2>0, <2>1, <3>1
    <3> QED
      BY <3>1, <3>2
  <2>2. CASE x # s
    <3>1. x \in O /\ x \in P /\ nx2[x] = nx[x] /\ nx[x] \in P
      BY <1>0, <1>1, <1>3, <2>0, <2>2 DEF P
    <3>2. r[nx[x]] < r[x] /\ nx[x] # s /\ nx[x] \in Nodes
      BY <1>0, <1>1, <1>8, <3>1
    <3> QED
      BY <1>5, <2>0, <2>2, <3>1, <3>2
  <2> QED
    BY <2>1, <2>2
<1>9. Ring(nx2, pv2, O \cup {s}, q)
  BY <1>6, <1>7, <1>8 DEF Ring, Path, Q
<1> QED
  BY <1>5, <1>9 DEF nx2, pv2, f

\* Opening and closing streams keeps them on one list.
LEMMA LinkedStable == Stable(Linked, Streams) /\ RemovesWithin(Linked)
<1>1. ClosesWithin(Linked, Streams)
  <2> SUFFICES ASSUME NEW c \in Linked, NEW s \in Streams, NEW d \in Ctx, c.id[s] # 0, ClosedTo(c, d, s)
               PROVE  d \in Linked
    BY DEF ClosesWithin
  <2> DEFINE nx == c.next
             pv == c.prev
             O == OpenOf(c)
  <2>1. /\ nx \in [Nodes -> Nodes \cup {None}] /\ pv \in [Nodes -> Nodes \cup {None}]
        /\ c.id \in [Streams -> Nat] /\ O \in SUBSET Streams /\ s \in O
    BY DEF Linked, Ctx, OpenOf
  <2>2. PICK r \in Ranks : Ring(nx, pv, O, r)
    BY DEF Linked
  <2>3. OpenOf(d) = O \ {s}
    <3>1. \A t \in Streams : d.id[t] = IF t = s THEN 0 ELSE c.id[t]
      BY <2>1 DEF ClosedTo
    <3> QED
      BY <3>1 DEF OpenOf
  <2>4. /\ d.next = [[nx EXCEPT ![pv[s]] = nx[s]] EXCEPT ![s] = None]
        /\ d.prev = [[pv EXCEPT ![nx[s]] = pv[s]] EXCEPT ![s] = None]
    BY DEF ClosedTo
  <2> HIDE DEF nx, pv, O
  <2>5. Ring([[nx EXCEPT ![pv[s]] = nx[s]] EXCEPT ![s] = None],
             [[pv EXCEPT ![nx[s]] = pv[s]] EXCEPT ![s] = None], O \ {s}, r)
    BY <2>1, <2>2, RingDel
  <2> QED
    BY <2>3, <2>4, <2>5 DEF Linked
<1>2. OpensWithin(Linked, Streams)
  <2> SUFFICES ASSUME NEW c \in Linked, NEW s \in Streams, NEW d \in Ctx, MayOpen(c, s), OpenedTo(c, d, s)
               PROVE  d \in Linked
    BY DEF OpensWithin
  <2> DEFINE nx == c.next
             pv == c.prev
             O == OpenOf(c)
  <2>1. /\ nx \in [Nodes -> Nodes \cup {None}] /\ pv \in [Nodes -> Nodes \cup {None}]
        /\ c.id \in [Streams -> Nat] /\ O \in SUBSET Streams /\ c.stream_id \in Nat
    BY DEF Linked, Ctx, OpenOf
  <2>2. PICK r \in Ranks : Ring(nx, pv, O, r)
    BY DEF Linked
  <2>3. OpenOf(d) = O \cup {s} /\ s \notin O
    <3>1. \A t \in Streams : d.id[t] = IF t = s THEN c.stream_id ELSE c.id[t]
      BY <2>1 DEF OpenedTo
    <3>2. c.id[s] = 0 /\ c.stream_id # 0
      BY <2>1 DEF MayOpen
    <3> QED
      BY <3>1, <3>2 DEF OpenOf
  <2>4. /\ d.next = [[nx EXCEPT ![s] = nx[ListHead]] EXCEPT ![ListHead] = s]
        /\ d.prev = [[pv EXCEPT ![s] = ListHead] EXCEPT ![nx[ListHead]] = s]
    BY DEF OpenedTo
  <2> HIDE DEF nx, pv, O
  <2>5. \E q \in Ranks : Ring([[nx EXCEPT ![s] = nx[ListHead]] EXCEPT ![ListHead] = s],
                              [[pv EXCEPT ![s] = ListHead] EXCEPT ![nx[ListHead]] = s],
                              O \cup {s}, q)
    BY <2>1, <2>2, <2>3, RingAdd
  <2> QED
    BY <2>3, <2>4, <2>5 DEF Linked
<1>3. ASSUME NEW c \in Linked, NEW d \in Ctx, d.id = c.id, d.next = c.next, d.prev = c.prev
      PROVE  d \in Linked
  <2>1. OpenOf(d) = OpenOf(c)
    BY <1>3 DEF OpenOf
  <2> QED
    BY <1>3, <2>1 DEF Linked
<1>4. TouchesWithin(Linked) /\ RemovesWithin(Linked)
  BY <1>3 DEF TouchesWithin, RemovesWithin, Touched, RemovedTo
<1> QED
  BY <1>1, <1>2, <1>4 DEF Stable

\* There are finitely many nodes.
LEMMA NodesFinite == IsFiniteSet(Nodes) /\ Cardinality(Nodes) \in Nat
<1>1. IsFiniteSet(Addrs) /\ NCpus \in Nat
  BY ClientAssumption
<1> DEFINE I == 0..NCpus - 1
<1>2. IsFiniteSet(I)
  BY <1>1, FS_Interval
<1> HIDE DEF I
<1>3. IsFiniteSet(Addrs \X I)
  BY <1>1, <1>2, FS_Product
<1>4. IsFiniteSet(TpStreams)
  BY <1>3 DEF TpStreams, I
<1>5. IsFiniteSet(TpStreams \cup {Oa})
  BY <1>4, FS_AddElement
<1> DEFINE A == TpStreams \cup {Oa}
           B == A \cup {Cpu}
<1>6. IsFiniteSet(B)
  <2> HIDE DEF A
  <2> QED
    BY <1>5, FS_AddElement DEF A
<1>7. IsFiniteSet(B \cup {ListHead})
  <2> HIDE DEF B
  <2> QED
    BY <1>6, FS_AddElement
<1>8. Nodes = B \cup {ListHead}
  BY DEF Nodes, Streams
<1>9. IsFiniteSet(Nodes)
  BY <1>7, <1>8
<1> QED
  BY <1>9, FS_CardinalityType

\* One step of list_for_each_entry().
WalkStep(c, x) == IF x \in {ListHead, None} THEN x ELSE c.next[x]

\* The walk of list_for_each_entry(), step by step.
LEMMA WalkLoop ==
    ASSUME NEW c \in Ctx, NEW n \in Nat, n = Cardinality(Nodes)
    PROVE  Walk(c)[0] = c.next[ListHead] /\ \A i \in 1..n : Walk(c)[i] = WalkStep(c, Walk(c)[i - 1])
<1> DEFINE D == Nodes \cup {None}
           h == c.next[ListHead]
           S(x) == IF x \in {ListHead, None} THEN x ELSE c.next[x]
           g == [i \in 1..n |-> [x \in D |-> S(x)]]
           fun == CHOOSE f : f = [k \in 0..n |-> IF k = 0 THEN c.next[ListHead]
                                    ELSE IF f[k - 1] \in {ListHead, None} THEN f[k - 1]
                                    ELSE c.next[f[k - 1]]]
<1>0. c.next \in [Nodes -> D] /\ h \in D
  BY DifferentNodes DEF Ctx
<1>1. Walk(c) = fun
  BY Zenon DEF Walk
<1>2. \A x \in D : S(x) \in D
  BY <1>0
<1>3. g \in [1..n -> [D -> D]]
  BY <1>2
<1> HIDE DEF D, h, g
<1>4. PICK f \in [0..n -> D] : f[0] = h /\ \A i \in 1..n : f[i] = g[i][f[i - 1]]
  <2>1. Loop(n, D, h, g)
    BY <1>0, <1>3, Iterates, Zenon
  <2> QED
    BY <2>1 DEF Loop
<1>5. \A i \in 1..n : f[i] = S(f[i - 1])
  <2>1. ASSUME NEW i \in 1..n
        PROVE  f[i] = S(f[i - 1])
    <3>1. i - 1 \in 0..n
      OBVIOUS
    <3>2. f[i - 1] \in D /\ f[i] = g[i][f[i - 1]]
      BY <1>4, <3>1
    <3> HIDE DEF S
    <3>3. \A x \in D : g[i][x] = S(x)
      BY DEF g
    <3> QED
      BY <3>2, <3>3
  <2> QED
    BY <2>1
<1>6. f = [k \in 0..n |-> IF k = 0 THEN c.next[ListHead]
             ELSE IF f[k - 1] \in {ListHead, None} THEN f[k - 1] ELSE c.next[f[k - 1]]]
  <2> DEFINE m == [k \in 0..n |-> IF k = 0 THEN c.next[ListHead]
                     ELSE IF f[k - 1] \in {ListHead, None} THEN f[k - 1] ELSE c.next[f[k - 1]]]
  <2>1. \A k \in 0..n : f[k] = m[k]
    BY <1>4, <1>5 DEF h
  <2> QED
    BY <1>4, <2>1
<1>7. fun = [k \in 0..n |-> IF k = 0 THEN c.next[ListHead]
               ELSE IF fun[k - 1] \in {ListHead, None} THEN fun[k - 1] ELSE c.next[fun[k - 1]]]
  BY ONLY <1>6, Zenon DEF fun
<1> HIDE DEF fun
<1>8. fun[0] = c.next[ListHead] /\ \A i \in 1..n : fun[i] = WalkStep(c, fun[i - 1])
  <2>1. 0 \in 0..n /\ \A i \in 1..n : i \in 0..n /\ i # 0
    OBVIOUS
  <2> QED
    BY <1>7, <2>1 DEF WalkStep
<1> QED
  BY <1>1, <1>8

\* Along a path the walk returns to the head within as many steps as there
\* are nodes: it meets no stream twice.
LEMMA PathEnds ==
    ASSUME NEW c \in Ctx, NEW O \in SUBSET Streams, NEW r \in Ranks, Path(c.next, O, r)
    PROVE  WalkEnds(c)
<1> DEFINE n == Cardinality(Nodes)
           w == Walk(c)
           P == O \cup {ListHead}
           nx == c.next
<1>0. n \in Nat /\ IsFiniteSet(Nodes)
  BY NodesFinite
<1>1. w[0] = nx[ListHead] /\ \A i \in 1..n : w[i] = WalkStep(c, w[i - 1])
  <2>1. n = Cardinality(Nodes)
    OBVIOUS
  <2> HIDE DEF n
  <2> QED
    BY <1>0, <2>1, WalkLoop
<1>2. WalkEnds(c) <=> w[n] = ListHead
  BY DEF WalkEnds
<1>3. /\ None \notin P /\ P \subseteq Nodes /\ ListHead \notin O
      /\ \A x \in P : nx[x] \in P
      /\ \A s \in O : nx[s] # ListHead => r[nx[s]] < r[s]
  BY DifferentNodes DEF Path
<1>4. \A x \in O : WalkStep(c, x) = nx[x]
  BY <1>3 DEF WalkStep
<1>5. WalkStep(c, ListHead) = ListHead
  BY DEF WalkStep
<1> HIDE DEF n, w, P
<1>6. SUFFICES ASSUME w[n] # ListHead
               PROVE  FALSE
  BY <1>2
<1> DEFINE Seen(k) == {w[j] : j \in 0..k}
           Far(k) == /\ w[k] \in O
                     /\ IsFiniteSet(Seen(k)) /\ Cardinality(Seen(k)) = k + 1
                     /\ \A j \in 0..k : w[j] \in O /\ r[w[j]] >= r[w[k]]
           I == {k \in Nat : k <= n => w[k] = ListHead \/ Far(k)}
<1>7. 0 \in I
  <2>1. w[0] \in P
    BY <1>1, <1>3 DEF P
  <2>2. CASE w[0] = ListHead
    BY <2>2
  <2>3. CASE w[0] # ListHead
    <3>1. w[0] \in O
      BY <2>1, <2>3 DEF P
    <3>2. Seen(0) = {w[0]}
      BY <1>1
    <3>3. IsFiniteSet({w[0]}) /\ Cardinality({w[0]}) = 1
      BY FS_Singleton
    <3>4. r[w[0]] \in Nat
      BY <1>3, <3>1 DEF Ranks, P
    <3>5. \A j \in 0..0 : j = 0
      OBVIOUS
    <3>6. Far(0)
      BY <3>1, <3>2, <3>3, <3>4, <3>5
    <3> QED
      BY <3>6
  <2> QED
    BY <2>2, <2>3
<1>8. ASSUME NEW k \in I
      PROVE  k + 1 \in I
  <2>1. SUFFICES ASSUME k + 1 <= n
                 PROVE  w[k + 1] = ListHead \/ Far(k + 1)
    OBVIOUS
  <2>2. k \in Nat /\ k + 1 \in 1..n /\ (k + 1) - 1 = k /\ k <= n
    BY <1>0, <2>1
  <2>3. w[k + 1] = WalkStep(c, w[k])
    BY <1>1, <2>2
  <2>4. w[k] = ListHead \/ Far(k)
    BY <2>2
  <2>5. CASE w[k] = ListHead
    BY <1>5, <2>3, <2>5
  <2>6. CASE w[k] # ListHead
    <3>1. Far(k)
      BY <2>4, <2>6
    <3> DEFINE x == w[k]
               y == w[k + 1]
    <3>2. x \in O /\ y = nx[x] /\ y \in P
      BY <1>3, <1>4, <2>3, <3>1 DEF P
    <3>3. CASE y = ListHead
      BY <3>3
    <3>4. CASE y # ListHead
      <4>1. y \in O /\ r[y] < r[x]
        BY <1>3, <3>2, <3>4 DEF P
      <4>2. \A j \in 0..k : w[j] \in O /\ r[w[j]] >= r[x]
        BY <3>1
      <4>3. \A s \in O : r[s] \in Nat
        BY <1>3 DEF Ranks, P
      <4>4. \A j \in 0..k : r[w[j]] >= r[y] /\ w[j] # y
        BY <3>2, <4>1, <4>2, <4>3
      <4>5. \A j \in 0..k + 1 : j \in 0..k \/ j = k + 1
        BY <2>2
      <4>6. Seen(k + 1) = Seen(k) \cup {y}
        <5>1. k + 1 \in 0..k + 1 /\ \A j \in 0..k : j \in 0..k + 1
          BY <2>2
        <5> QED
          BY <4>5, <5>1
      <4>7. y \notin Seen(k)
        BY <4>4
      <4>8. IsFiniteSet(Seen(k + 1)) /\ Cardinality(Seen(k + 1)) = (k + 1) + 1
        <5> DEFINE S == Seen(k)
        <5>1. IsFiniteSet(S) /\ Cardinality(S) = k + 1 /\ y \notin S
          BY <3>1, <4>7
        <5> HIDE DEF S, y
        <5>2. IsFiniteSet(S \cup {y}) /\ Cardinality(S \cup {y}) = (k + 1) + 1
          BY <5>1, FS_AddElement
        <5> QED
          BY <4>6, <5>2 DEF S
      <4>9. \A j \in 0..k + 1 : w[j] \in O /\ r[w[j]] >= r[y]
        BY <4>1, <4>2, <4>3, <4>4, <4>5
      <4>10. Far(k + 1)
        BY <4>1, <4>8, <4>9
      <4> QED
        BY <4>10
    <3> QED
      BY <3>3, <3>4
  <2> QED
    BY <2>5, <2>6
<1>9. I \in SUBSET Nat
  OBVIOUS
<1>10. n \in I
  <2> HIDE DEF I
  <2> QED
    BY <1>0, <1>7, <1>8, <1>9, NumberInduction
<1>11. Far(n)
  BY <1>0, <1>6, <1>10
<1> DEFINE S == Seen(n)
<1>12. S \in SUBSET Nodes
  BY <1>3, <1>11 DEF P
<1>13. Cardinality(S) = n + 1
  BY <1>11
<1> HIDE DEF S
<1>14. Cardinality(S) <= Cardinality(Nodes)
  BY <1>0, <1>12, FS_Subset
<1> QED
  BY <1>0, <1>13, <1>14 DEF n

\* The walk of an empty list ends.
LEMMA EmptyEnds ==
    ASSUME NEW c \in Ctx, c.next[ListHead] = ListHead
    PROVE  WalkEnds(c)
<1> DEFINE O == {}
           r == [x \in Nodes |-> 0]
<1>1. O \in SUBSET Streams /\ r \in Ranks /\ Path(c.next, O, r)
  BY DEF Ranks, Path
<1> HIDE DEF O, r
<1> QED
  BY <1>1, PathEnds

\* The walk ends if the open streams are on one list.
LEMMA LinkedEnds ==
    ASSUME NEW c \in Linked
    PROVE  WalkEnds(c)
<1>1. PICK r \in Ranks : Path(c.next, OpenOf(c), r)
  BY DEF Linked, Ring
<1>2. OpenOf(c) \in SUBSET Streams /\ c \in Ctx
  BY DEF OpenOf, Linked
<1> QED
  BY <1>1, <1>2, PathEnds

-----------------------------------------------------------------------------
(***************************************************************************)
(* An OA stream that was open when the list was emptied.                   *)
(***************************************************************************)

\* Only the CPU stream is on the list
CpuAlone(c) ==
    /\ c.next[ListHead] = Cpu /\ c.next[Cpu] = ListHead
    /\ c.prev[ListHead] = Cpu /\ c.prev[Cpu] = ListHead

\* The OA stream has the links it had in a list with the CPU stream
Beside(c) ==
    \/ c.prev[Oa] = ListHead /\ c.next[Oa] = Cpu
    \/ c.prev[Oa] = Cpu /\ c.next[Oa] = ListHead

\* Contexts whose OA stream was open when the list was emptied.
Stale == {c \in Ctx : OpenOf(c) = {Oa, Cpu} /\ CpuAlone(c) /\ Beside(c)}

\* The CPU stream alone is on a list.
LEMMA AloneRing ==
    ASSUME NEW c \in Ctx, CpuAlone(c)
    PROVE  \E r \in Ranks : Ring(c.next, c.prev, {Cpu}, r)
<1> DEFINE r == [x \in Nodes |-> 0]
<1>1. r \in Ranks
  BY DEF Ranks
<1>2. Cpu # ListHead
  BY DifferentNodes DEF Streams
<1>3. Ring(c.next, c.prev, {Cpu}, r)
  BY <1>2 DEF CpuAlone, Ring, Path
<1> QED
  BY <1>1, <1>3

\* The walk ends if the CPU stream is alone on the list.
LEMMA AloneEnds ==
    ASSUME NEW c \in Ctx, CpuAlone(c)
    PROVE  WalkEnds(c)
<1> DEFINE O == {Cpu}
<1>1. PICK r \in Ranks : Ring(c.next, c.prev, O, r)
  BY AloneRing
<1>2. O \in SUBSET Streams /\ Path(c.next, O, r)
  BY <1>1 DEF Ring, Streams
<1> HIDE DEF O
<1> QED
  BY <1>2, PathEnds

\* Two streams on a list are neighbours.
LEMMA LinkedBeside ==
    ASSUME NEW c \in Linked, OpenOf(c) = {Oa, Cpu}
    PROVE  Beside(c)
<1> DEFINE nx == c.next
           pv == c.prev
<1>1. PICK r \in Ranks : Ring(nx, pv, {Oa, Cpu}, r)
  BY DEF Linked
<1>2. /\ Oa # Cpu /\ Oa # ListHead /\ Cpu # ListHead
      /\ Oa \in Nodes /\ Cpu \in Nodes
  BY DifferentNodes DEF Streams
<1>3. /\ \A x \in {Oa, Cpu, ListHead} :
            nx[x] \in {Oa, Cpu, ListHead} /\ pv[x] \in {Oa, Cpu, ListHead} /\ pv[nx[x]] = x /\ nx[pv[x]] = x
      /\ \A x \in {Oa, Cpu} : nx[x] # ListHead => r[nx[x]] < r[x]
  BY <1>1 DEF Ring, Path
<1>4. nx[Oa] # Oa /\ nx[Cpu] # Cpu
  <2>1. \A x \in {Oa, Cpu} : r[x] \in Nat
    BY <1>2 DEF Ranks
  <2> QED
    BY <1>2, <1>3, <2>1
<1>5. nx[Oa] = Cpu \/ nx[Oa] = ListHead
  BY <1>3, <1>4
<1>6. ~(nx[Oa] = Cpu /\ nx[Cpu] = Oa)
  <2>1. \A x \in {Oa, Cpu} : r[x] \in Nat
    BY <1>2 DEF Ranks
  <2> QED
    BY <1>2, <1>3, <2>1
<1>7. CASE nx[Oa] = Cpu
  <2>1. pv[Oa] # Cpu
    BY <1>3, <1>6, <1>7
  <2>2. pv[Oa] # Oa
    BY <1>3, <1>4
  <2> QED
    BY <1>3, <1>7, <2>1, <2>2 DEF Beside
<1>8. CASE nx[Oa] = ListHead
  <2>1. pv[Oa] # Oa
    BY <1>3, <1>4
  <2>2. pv[Oa] # ListHead
    <3>1. SUFFICES ASSUME pv[Oa] = ListHead
                   PROVE  FALSE
      OBVIOUS
    <3>2. nx[ListHead] = Oa
      BY <1>3, <3>1
    <3>3. nx[Cpu] = ListHead
      BY <1>2, <1>3, <1>4, <3>1, <3>2
    <3> QED
      BY <1>2, <1>3, <1>8, <3>3
  <2> QED
    BY <1>3, <1>8, <2>1, <2>2 DEF Beside
<1> QED
  BY <1>5, <1>7, <1>8

-----------------------------------------------------------------------------
(***************************************************************************)
(* Sampling, the CPU stream and the reset.                                 *)
(***************************************************************************)

\* What no stable set tells apart from what opening and closing makes of c
Evolves(c, d) ==
    \A D \in SUBSET Ctx : Stable(D, Streams) /\ RemovesWithin(D) /\ c \in D => d \in D

\* What sampling leaves alone
Settings(c, d) ==
    /\ d.features = c.features /\ d.metric_set = c.metric_set
    /\ d.perf_tracepoints = c.perf_tracepoints /\ d.tps = c.tps /\ d.names = c.names
    /\ d.uuids = c.uuids

\* What is changed beside the streams.
LEMMA TouchIs ==
    ASSUME NEW c \in Ctx
    PROVE  /\ \A b \in BOOLEAN : Touched(c, [c EXCEPT !.is_sampling = b])
           /\ Touched(c, [c EXCEPT !.data = {}])
<1>1. ASSUME NEW b \in BOOLEAN
      PROVE  Touched(c, [c EXCEPT !.is_sampling = b])
  BY DEF Ctx, Touched
<1>2. Touched(c, [c EXCEPT !.data = {}])
  BY DEF Ctx, Touched
<1> QED
  BY <1>1, <1>2

\* Closing a stream that is not of a tracepoint.
LEMMA CloseOne ==
    ASSUME NEW D \in SUBSET Ctx, NEW T, ClosesWithin(D, T), NEW c \in D, NEW s \in T,
           s \in Streams, s \notin TpStreams
    PROVE  close_stream(c, s) \in D
<1> DEFINE d == close_stream(c, s)
<1>0. c \in Ctx
  OBVIOUS
<1>1. CASE c.id[s] = 0
  BY <1>0, <1>1, CloseStep
<1>2. CASE c.id[s] # 0
  <2>1. ClosedTo(c, d, s)
    BY <1>0, <1>2, CloseStep
  <2> HIDE DEF d
  <2>2. d \in D
    BY <1>2, <2>1 DEF ClosesWithin, ClosedTo
  <2> QED
    BY <2>2 DEF d
<1> QED
  BY <1>1, <1>2

\* ... and what that changes.
LEMMA CloseOneFields ==
    ASSUME NEW c \in Ctx, NEW s \in Streams, s \notin TpStreams
    PROVE  LET d == close_stream(c, s) IN
           /\ d \in Ctx /\ Kept(c, d) /\ d.stream_id = c.stream_id /\ d.id[s] = 0
           /\ \A t \in Streams : t # s => d.id[t] = c.id[t]
           /\ d.table = c.table
<1> DEFINE d == close_stream(c, s)
<1>0. c.id \in [Streams -> Nat]
  BY DEF Ctx
<1>1. CASE c.id[s] = 0
  BY <1>1, CloseStep DEF Kept
<1>2. CASE c.id[s] # 0
  <2>1. ClosedTo(c, d, s)
    BY <1>2, CloseStep
  <2> HIDE DEF d
  <2>2. /\ d \in Ctx /\ Kept(c, d) /\ d.stream_id = c.stream_id /\ d.id[s] = 0
        /\ \A t \in Streams : t # s => d.id[t] = c.id[t]
        /\ d.table = c.table
    BY <1>0, <2>1 DEF ClosedTo
  <2> QED
    BY <2>2 DEF d
<1> QED
  BY <1>1, <1>2

\* gputop_client_context_stop_sampling(), within a set of contexts.
LEMMA StopIs ==
    ASSUME NEW D \in SUBSET Ctx, ClosesWithin(D, TpStreams), TouchesWithin(D),
           NEW c \in Ctx, c.is_sampling, close_stream(c, Oa) \in D
    PROVE  LET d == stop_sampling(c) IN
           /\ d \in D /\ Settings(c, d) /\ ~d.is_sampling /\ d.stream_id = c.stream_id
           /\ d.id[Oa] = 0 /\ d.id[Cpu] = c.id[Cpu] /\ d.data = c.data
           /\ \A s \in TpStreams : c.id[s] = 0 => d.id[s] = 0
<1> DEFINE c1 == close_stream(c, Oa)
           c2 == close_perf_tracepoints_streams(c1)
           d == [c2 EXCEPT !.is_sampling = FALSE]
<1>0. /\ Oa \in Streams /\ Cpu \in Streams /\ Oa \notin TpStreams /\ Cpu \notin TpStreams /\ Oa # Cpu
      /\ TpStreams \subseteq Streams
  BY DifferentNodes DEF Streams
<1>1. stop_sampling(c) = d
  BY DEF stop_sampling
<1>2. /\ c1 \in Ctx /\ Kept(c, c1) /\ c1.stream_id = c.stream_id /\ c1.id[Oa] = 0
      /\ \A t \in Streams : t # Oa => c1.id[t] = c.id[t]
  BY <1>0, CloseOneFields
<1>3. c1 \in D
  OBVIOUS
<1> HIDE DEF c1
<1>4. /\ c2 \in D /\ Kept(c1, c2) /\ c2.stream_id = c1.stream_id
      /\ \A s \in Streams \ TpStreams : c2.id[s] = c1.id[s]
      /\ \A s \in TpStreams : c1.id[s] = 0 => c2.id[s] = 0
  <2> DEFINE T == TpStreams
  <2>1. ClosesWithin(D, T) /\ TpStreams \subseteq T
    OBVIOUS
  <2> HIDE DEF T
  <2> QED
    BY <1>3, <2>1, CloseAll
<1> HIDE DEF c2
<1>5. c2 \in Ctx
  BY <1>4
<1>6. Touched(c2, d) /\ ~d.is_sampling /\ d.data = c2.data
  <2>1. Touched(c2, d)
    BY <1>5, TouchIs
  <2> QED
    BY <1>5, <2>1 DEF Ctx
<1> HIDE DEF d
<1>7. d \in D
  BY <1>4, <1>6 DEF TouchesWithin, Touched
<1>8. d.id = c2.id /\ d.stream_id = c2.stream_id /\ Settings(c2, d)
  BY <1>6 DEF Touched, Settings
<1>9. Settings(c, d) /\ d.data = c.data
  BY <1>2, <1>4, <1>6, <1>8 DEF Settings, Kept
<1>10. d.id[Oa] = 0 /\ d.id[Cpu] = c.id[Cpu]
  BY <1>0, <1>2, <1>4, <1>8
<1>11. ASSUME NEW s \in TpStreams, c.id[s] = 0
       PROVE  d.id[s] = 0
  <2>1. s \in Streams /\ s # Oa
    BY <1>0
  <2> QED
    BY <1>2, <1>4, <1>8, <1>11, <2>1
<1> QED
  BY <1>1, <1>2, <1>4, <1>6, <1>7, <1>8, <1>9, <1>10, <1>11

\* gputop_client_context_start_sampling(), within a set of contexts.
LEMMA StartIs ==
    ASSUME NEW D \in SUBSET Ctx, Stable(D, Streams), NEW c, NEW c1 \in D, c1 = stop_sampling(c),
           c1.id[Oa] = 0, c1.stream_id >= 1,
           \A a \in Range(c1.perf_tracepoints) : Live(c1, a),
           c1.stream_id + (1 + NCpus * Len(c1.perf_tracepoints)) <= MaxId + 1
    PROVE  LET d == start_sampling(c) IN
           /\ d \in D /\ Settings(c1, d) /\ d.is_sampling
           /\ d.stream_id = c1.stream_id + (1 + NCpus * Len(c1.perf_tracepoints))
           /\ d.id[Oa] # 0 /\ d.id[Cpu] = c1.id[Cpu] /\ d.data = {}
<1> DEFINE c2 == open_stream(c1, Oa)
           c3 == [c2 EXCEPT !.data = {}]
           c4 == open_perf_tracepoints_streams(c3)
           d == [c4 EXCEPT !.is_sampling = TRUE]
<1>0. /\ Oa \in Streams /\ Cpu \in Streams /\ Oa \notin TpStreams /\ Cpu \notin TpStreams /\ Oa # Cpu
      /\ TpStreams \subseteq Streams /\ c1 \in Ctx
  BY DifferentNodes DEF Streams
<1>1. start_sampling(c) = d
  BY DEF start_sampling, clear_perf_tracepoints_data
<1>2. OpenedTo(c1, c2, Oa)
  BY <1>0, OpenStep
<1> HIDE DEF c2
<1>3. /\ c2 \in Ctx /\ Kept(c1, c2) /\ c2.stream_id = c1.stream_id + 1 /\ c2.id[Oa] = c1.stream_id
      /\ c2.id[Cpu] = c1.id[Cpu]
  BY <1>0, <1>2 DEF OpenedTo, Ctx
<1>4. c2 \in D
  <2>1. MayOpen(c1, Oa)
    BY <1>0 DEF MayOpen
  <2> QED
    BY <1>0, <1>2, <1>3, <2>1 DEF Stable, OpensWithin
<1>5. Touched(c2, c3) /\ c3.data = {}
  <2>1. Touched(c2, c3)
    BY <1>3, TouchIs
  <2> QED
    BY <1>3, <2>1 DEF Ctx
<1> HIDE DEF c3
<1>6. c3 \in D /\ c3 \in Ctx
  BY <1>4, <1>5 DEF Stable, TouchesWithin, Touched
<1>7. /\ c3.id = c2.id /\ c3.stream_id = c2.stream_id /\ Settings(c1, c3)
  BY <1>3, <1>5 DEF Touched, Settings, Kept
<1> DEFINE k == NCpus * Len(c3.perf_tracepoints)
<1>8. /\ c1.stream_id \in Nat /\ NCpus \in Nat /\ MaxId \in Nat /\ k \in Nat
      /\ k = NCpus * Len(c1.perf_tracepoints)
  <2>1. c1.stream_id \in Nat /\ c3.perf_tracepoints \in Seq(Addrs) /\ NCpus \in Nat /\ MaxId \in Nat
    BY <1>0, <1>6, ClientAssumption DEF Ctx
  <2>2. c3.perf_tracepoints = c1.perf_tracepoints
    BY <1>7 DEF Settings
  <2>3. Len(c3.perf_tracepoints) \in Nat
    BY <2>1
  <2> QED
    BY <2>1, <2>2, <2>3
<1>9. c1.stream_id + (1 + k) <= MaxId + 1
  BY <1>8
<1>10. c3.stream_id >= 1 /\ c3.stream_id + k <= MaxId + 1 /\ c3.stream_id = c1.stream_id + 1
  <2> HIDE DEF k
  <2> QED
    BY <1>3, <1>7, <1>8, <1>9
<1>11. \A a \in Range(c3.perf_tracepoints) : Live(c3, a)
  BY <1>7 DEF Settings, Live
<1>12. /\ c4 \in D /\ Kept(c3, c4)
       /\ c4.stream_id = c3.stream_id + k
       /\ \A s \in Streams \ TpStreams : c4.id[s] = c3.id[s]
  <2> DEFINE T == Streams
  <2>1. Stable(D, T) /\ TpStreams \subseteq T
    BY <1>0
  <2> HIDE DEF T
  <2> QED
    BY <1>6, <1>10, <1>11, <2>1, OpenAll
<1> HIDE DEF c4, k
<1>13. Touched(c4, d) /\ d.is_sampling /\ d.data = c4.data
  <2>0. c4 \in Ctx
    BY <1>12
  <2>1. Touched(c4, d)
    BY <2>0, TouchIs
  <2> QED
    BY <2>0, <2>1 DEF Ctx
<1> HIDE DEF d
<1>14. d \in D
  BY <1>12, <1>13 DEF Stable, TouchesWithin, Touched
<1>15. d.id = c4.id /\ d.stream_id = c4.stream_id /\ Settings(c4, d)
  BY <1>13 DEF Touched, Settings
<1>16. Settings(c1, d) /\ d.data = {}
  BY <1>5, <1>7, <1>12, <1>13, <1>15 DEF Settings, Kept
<1>17. d.id[Oa] # 0 /\ d.id[Cpu] = c1.id[Cpu]
  BY <1>0, <1>3, <1>7, <1>8, <1>12, <1>15
<1>18. d.stream_id = c1.stream_id + (1 + k)
  BY <1>8, <1>10, <1>12, <1>15, SMTT(60)
<1> QED
  BY <1>1, <1>8, <1>13, <1>14, <1>16, <1>17, <1>18

\* gputop_client_context_update_cpu_stream()
LEMMA UpdateCpuIs ==
    ASSUME NEW c \in Ctx
    PROVE  LET d == update_cpu_stream(c) IN
           /\ d \in Ctx /\ Kept(c, d) /\ d.stream_id = c.stream_id + 1 /\ d.id[Cpu] = c.stream_id
           /\ \A t \in Streams : t # Cpu => d.id[t] = c.id[t]
           /\ d.table = c.table
           /\ c.stream_id >= 1 => Evolves(c, d)
<1> DEFINE c1 == close_stream(c, Cpu)
           d == open_stream(c1, Cpu)
<1>0. Cpu \in Streams /\ Cpu \notin TpStreams
  BY DifferentNodes DEF Streams
<1>1. update_cpu_stream(c) = d
  BY DEF update_cpu_stream, open_cpu_stats_stream
<1>2. /\ c1 \in Ctx /\ Kept(c, c1) /\ c1.stream_id = c.stream_id /\ c1.id[Cpu] = 0
      /\ \A t \in Streams : t # Cpu => c1.id[t] = c.id[t]
      /\ c1.table = c.table
  BY <1>0, CloseOneFields
<1>3. OpenedTo(c1, d, Cpu)
  BY <1>0, <1>2, OpenStep
<1>4. ASSUME NEW D \in SUBSET Ctx, Stable(D, Streams), c \in D
      PROVE  c1 \in D
  <2> DEFINE T == Streams
  <2>1. ClosesWithin(D, T) /\ Cpu \in T
    BY <1>0, <1>4 DEF Stable
  <2> HIDE DEF T
  <2> QED
    BY <1>0, <1>4, <2>1, CloseOne
<1> HIDE DEF c1, d
<1>5. /\ d \in Ctx /\ Kept(c1, d) /\ d.stream_id = c1.stream_id + 1 /\ d.id[Cpu] = c1.stream_id
      /\ \A t \in Streams : t # Cpu => d.id[t] = c1.id[t]
      /\ d.table = c1.table
  BY <1>0, <1>2, <1>3 DEF OpenedTo, Ctx
<1>6. ASSUME c.stream_id >= 1
      PROVE  Evolves(c, d)
  <2> SUFFICES ASSUME NEW D \in SUBSET Ctx, Stable(D, Streams), c \in D
               PROVE  d \in D
    BY DEF Evolves
  <2>1. c1 \in D
    BY <1>4
  <2>2. MayOpen(c1, Cpu)
    BY <1>0, <1>2, <1>6 DEF MayOpen
  <2> QED
    BY <1>0, <1>3, <1>5, <2>1, <2>2 DEF Stable, OpensWithin
<1>7. Kept(c, d)
  BY <1>2, <1>5 DEF Kept
<1> QED
  BY <1>1, <1>2, <1>5, <1>6, <1>7

\* The streams that are not of tracepoints.
LEMMA MainStreams ==
    /\ Oa \in Streams /\ Cpu \in Streams /\ Oa \notin TpStreams /\ Cpu \notin TpStreams /\ Oa # Cpu
    /\ TpStreams \subseteq Streams /\ Oa # ListHead /\ Cpu # ListHead
    /\ Oa \in Nodes /\ Cpu \in Nodes /\ ListHead \in Nodes
    /\ Streams = {Oa, Cpu} \cup TpStreams
BY DifferentNodes DEF Streams

\* A list with the CPU stream alone.
LEMMA AloneLinked ==
    ASSUME NEW c \in Ctx, CpuAlone(c), OpenOf(c) = {Cpu}
    PROVE  c \in Linked
BY AloneRing DEF Linked

\* Closing an OA stream that is off the list changes nothing of the list.
LEMMA StaleClose ==
    ASSUME NEW c \in Stale
    PROVE  close_stream(c, Oa) \in Linked
<1> DEFINE d == close_stream(c, Oa)
<1>0. /\ c \in Ctx /\ OpenOf(c) = {Oa, Cpu} /\ CpuAlone(c) /\ Beside(c)
      /\ c.id \in [Streams -> Nat] /\ c.next \in [Nodes -> Nodes \cup {None}]
      /\ c.prev \in [Nodes -> Nodes \cup {None}]
  BY DEF Stale, Ctx
<1>1. c.id[Oa] # 0
  BY <1>0 DEF OpenOf
<1>2. ClosedTo(c, d, Oa)
  BY <1>0, <1>1, CloseStep, MainStreams
<1> HIDE DEF d
<1>3. OpenOf(d) = {Cpu}
  <2>1. \A t \in Streams : d.id[t] = IF t = Oa THEN 0 ELSE c.id[t]
    BY <1>0, <1>2 DEF ClosedTo
  <2>2. \A t \in Streams : c.id[t] # 0 <=> t \in {Oa, Cpu}
    BY <1>0 DEF OpenOf
  <2> QED
    BY <2>1, <2>2, MainStreams DEF OpenOf
<1>4. CpuAlone(d)
  <2>1. /\ d.next = [[c.next EXCEPT ![c.prev[Oa]] = c.next[Oa]] EXCEPT ![Oa] = None]
        /\ d.prev = [[c.prev EXCEPT ![c.next[Oa]] = c.prev[Oa]] EXCEPT ![Oa] = None]
    BY <1>2 DEF ClosedTo
  <2>2. CASE c.prev[Oa] = ListHead /\ c.next[Oa] = Cpu
    BY <1>0, <2>1, <2>2, MainStreams DEF CpuAlone
  <2>3. CASE c.prev[Oa] = Cpu /\ c.next[Oa] = ListHead
    BY <1>0, <2>1, <2>3, MainStreams DEF CpuAlone
  <2> QED
    BY <1>0, <2>2, <2>3 DEF Beside
<1>5. d \in Ctx
  BY <1>2 DEF ClosedTo
<1>6. d \in Linked
  BY <1>3, <1>4, <1>5, AloneLinked
<1> QED
  BY <1>6 DEF d

\* Opening the CPU stream on an empty list.
LEMMA OpenedAlone ==
    ASSUME NEW c \in Ctx, NEW d \in Ctx, OpenedTo(c, d, Cpu), c.next[ListHead] = ListHead
    PROVE  CpuAlone(d) /\ d.next[Oa] = c.next[Oa] /\ d.prev[Oa] = c.prev[Oa]
<1>1. c.next \in [Nodes -> Nodes \cup {None}] /\ c.prev \in [Nodes -> Nodes \cup {None}]
  BY DEF Ctx
<1>2. /\ d.next = [[c.next EXCEPT ![Cpu] = ListHead] EXCEPT ![ListHead] = Cpu]
      /\ d.prev = [[c.prev EXCEPT ![Cpu] = ListHead] EXCEPT ![ListHead] = Cpu]
  BY DEF OpenedTo
<1> QED
  BY <1>1, <1>2, MainStreams DEF CpuAlone

\* The CPU stream is replaced on a list it is alone on.
LEMMA StaleUpdate ==
    ASSUME NEW c \in Stale, c.stream_id >= 1
    PROVE  update_cpu_stream(c) \in Stale
<1> DEFINE c1 == close_stream(c, Cpu)
           d == open_stream(c1, Cpu)
<1>0. /\ c \in Ctx /\ OpenOf(c) = {Oa, Cpu} /\ CpuAlone(c) /\ Beside(c)
      /\ c.id \in [Streams -> Nat] /\ c.next \in [Nodes -> Nodes \cup {None}]
      /\ c.prev \in [Nodes -> Nodes \cup {None}] /\ c.stream_id \in Nat
  BY DEF Stale, Ctx
<1>1. update_cpu_stream(c) = d
  BY DEF update_cpu_stream, open_cpu_stats_stream
<1>2. c.id[Cpu] # 0
  BY <1>0 DEF OpenOf
<1>3. ClosedTo(c, c1, Cpu)
  BY <1>0, <1>2, CloseStep, MainStreams
<1> HIDE DEF c1
<1>4. c1 \in Ctx /\ c1.stream_id = c.stream_id
  BY <1>3 DEF ClosedTo
<1>5. OpenedTo(c1, d, Cpu) /\ d \in Ctx
  <2>1. OpenedTo(c1, d, Cpu)
    BY <1>4, OpenStep, MainStreams
  <2> QED
    BY <2>1 DEF OpenedTo
<1> HIDE DEF d
<1>6. c1.next[ListHead] = ListHead /\ c1.next[Oa] = c.next[Oa] /\ c1.prev[Oa] = c.prev[Oa]
  <2>1. /\ c1.next = [[c.next EXCEPT ![c.prev[Cpu]] = c.next[Cpu]] EXCEPT ![Cpu] = None]
        /\ c1.prev = [[c.prev EXCEPT ![c.next[Cpu]] = c.prev[Cpu]] EXCEPT ![Cpu] = None]
    BY <1>3 DEF ClosedTo
  <2>2. c.prev[Cpu] = ListHead /\ c.next[Cpu] = ListHead
    BY <1>0 DEF CpuAlone
  <2> QED
    BY <1>0, <2>1, <2>2, MainStreams
<1>7. CpuAlone(d) /\ Beside(d)
  <2>1. CpuAlone(d) /\ d.next[Oa] = c1.next[Oa] /\ d.prev[Oa] = c1.prev[Oa]
    BY <1>4, <1>5, <1>6, OpenedAlone
  <2> QED
    BY <1>0, <1>6, <2>1 DEF Beside
<1>8. OpenOf(d) = {Oa, Cpu}
  <2>1. \A t \in Streams : c1.id[t] = IF t = Cpu THEN 0 ELSE c.id[t]
    BY <1>0, <1>3 DEF ClosedTo
  <2>2. \A t \in Streams : d.id[t] = IF t = Cpu THEN c.stream_id ELSE c1.id[t]
    BY <1>4, <1>5 DEF OpenedTo, Ctx
  <2>3. \A t \in Streams : c.id[t] # 0 <=> t \in {Oa, Cpu}
    BY <1>0 DEF OpenOf
  <2>4. c.stream_id # 0
    BY <1>0
  <2> QED
    BY <2>1, <2>2, <2>3, <2>4, MainStreams DEF OpenOf
<1> QED
  BY <1>1, <1>5, <1>7, <1>8 DEF Stale

\* No stream of a tracepoint is open when the OA stream is off the list.
LEMMA StaleRemoves == ClosesWithin(Stale, TpStreams) /\ RemovesWithin(Stale)
<1>1. ClosesWithin(Stale, TpStreams)
  BY MainStreams DEF ClosesWithin, Stale, OpenOf
<1>2. ASSUME NEW c \in Stale, NEW a \in Addrs, NEW d \in Ctx, RemovedTo(c, d, a)
      PROVE  d \in Stale
  <2>1. d.id = c.id /\ d.next = c.next /\ d.prev = c.prev
    BY <1>2 DEF RemovedTo
  <2> QED
    BY <2>1 DEF Stale, OpenOf, CpuAlone, Beside
<1> QED
  BY <1>1, <1>2 DEF RemovesWithin

\* A set that is stable is closed under closing fewer streams.
LEMMA ClosesFewer ==
    ASSUME NEW D, ClosesWithin(D, Streams)
    PROVE  ClosesWithin(D, TpStreams) /\ ClosesWithin(D, {Oa})
BY MainStreams DEF ClosesWithin

\* gputop_client_context_stop_sampling()
LEMMA StopAll ==
    ASSUME NEW c \in Ctx
    PROVE  LET d == stop_sampling(c) IN
           /\ d \in Ctx /\ Evolves(c, d) /\ Settings(c, d) /\ ~d.is_sampling
           /\ d.stream_id = c.stream_id /\ d.id[Cpu] = c.id[Cpu] /\ d.data = c.data
           /\ c.is_sampling \/ c.id[Oa] = 0 => d.id[Oa] = 0
           /\ c \in Stale /\ c.is_sampling => d \in Linked
<1> DEFINE d == stop_sampling(c)
<1>1. CASE ~c.is_sampling
  <2>1. d = c
    BY <1>1 DEF stop_sampling
  <2> HIDE DEF d
  <2>2. Evolves(c, d) /\ Settings(c, d)
    BY <2>1 DEF Evolves, Settings
  <2>3. /\ d \in Ctx /\ ~d.is_sampling
        /\ d.stream_id = c.stream_id /\ d.id[Cpu] = c.id[Cpu] /\ d.data = c.data
        /\ c.is_sampling \/ c.id[Oa] = 0 => d.id[Oa] = 0
        /\ c \in Stale /\ c.is_sampling => d \in Linked
    BY <1>1, <2>1
  <2> QED
    BY <2>2, <2>3 DEF d
<1>2. CASE c.is_sampling
  <2> DEFINE c1 == close_stream(c, Oa)
  <2>1. ASSUME NEW D \in SUBSET Ctx, ClosesWithin(D, TpStreams), TouchesWithin(D), c1 \in D
        PROVE  /\ d \in D /\ Settings(c, d) /\ ~d.is_sampling /\ d.stream_id = c.stream_id
               /\ d.id[Oa] = 0 /\ d.id[Cpu] = c.id[Cpu] /\ d.data = c.data
    BY <1>2, <2>1, StopIs
  <2>2. /\ d \in Ctx /\ Settings(c, d) /\ ~d.is_sampling /\ d.stream_id = c.stream_id
        /\ d.id[Oa] = 0 /\ d.id[Cpu] = c.id[Cpu] /\ d.data = c.data
    <3> DEFINE D == Ctx
    <3>1. D \in SUBSET Ctx /\ ClosesWithin(D, TpStreams) /\ TouchesWithin(D)
      BY DEF ClosesWithin, TouchesWithin
    <3>2. c1 \in D
      BY CloseOneFields, MainStreams
    <3>3. d \in D => d \in Ctx
      OBVIOUS
    <3> HIDE DEF D, d, c1
    <3> QED
      BY <2>1, <3>1, <3>2, <3>3
  <2>3. Evolves(c, d)
    <3> SUFFICES ASSUME NEW D \in SUBSET Ctx, Stable(D, Streams), c \in D
                 PROVE  d \in D
      BY DEF Evolves
    <3> DEFINE T == {Oa}
    <3>1. ClosesWithin(D, TpStreams) /\ ClosesWithin(D, T) /\ TouchesWithin(D) /\ Oa \in T
      BY ClosesFewer DEF Stable
    <3> HIDE DEF T
    <3>2. c1 \in D
      BY <3>1, CloseOne, MainStreams
    <3> HIDE DEF d, c1
    <3> QED
      BY <2>1, <3>1, <3>2
  <2>4. ASSUME c \in Stale
        PROVE  d \in Linked
    <3>1. c1 \in Linked
      BY <2>4, StaleClose
    <3>2. Linked \in SUBSET Ctx /\ ClosesWithin(Linked, TpStreams) /\ TouchesWithin(Linked)
      <4>1. Stable(Linked, Streams)
        BY LinkedStable
      <4>2. ClosesWithin(Linked, Streams) /\ TouchesWithin(Linked)
        BY <4>1 DEF Stable
      <4>3. ClosesWithin(Linked, TpStreams)
        BY <4>2, ClosesFewer
      <4> QED
        BY <4>2, <4>3 DEF Linked
    <3> HIDE DEF d, c1
    <3> QED
      BY <2>1, <3>1, <3>2
  <2> HIDE DEF d
  <2> QED
    BY <2>2, <2>3, <2>4 DEF d
<1> QED
  BY <1>1, <1>2

\* gputop_client_context_start_sampling()
LEMMA StartAll ==
    ASSUME NEW c \in Ctx, c.is_sampling \/ c.id[Oa] = 0, Track(c), c.stream_id >= 1,
           c.stream_id + (1 + NCpus * Len(c.perf_tracepoints)) <= MaxId + 1
    PROVE  LET d == start_sampling(c) IN
           /\ d \in Ctx /\ Evolves(c, d) /\ Settings(c, d) /\ d.is_sampling
           /\ d.stream_id = c.stream_id + (1 + NCpus * Len(c.perf_tracepoints))
           /\ d.id[Oa] # 0 /\ d.id[Cpu] = c.id[Cpu] /\ d.data = {}
           /\ c \in Stale /\ c.is_sampling => d \in Linked
<1> DEFINE c1 == stop_sampling(c)
           d == start_sampling(c)
<1>1. /\ c1 \in Ctx /\ Evolves(c, c1) /\ Settings(c, c1) /\ c1.stream_id = c.stream_id
      /\ c1.id[Cpu] = c.id[Cpu] /\ c1.id[Oa] = 0
      /\ c \in Stale /\ c.is_sampling => c1 \in Linked
  BY StopAll
<1>2. c1.perf_tracepoints = c.perf_tracepoints /\ c1.tps = c.tps
  BY <1>1 DEF Settings
<1>3. \A a \in Range(c1.perf_tracepoints) : Live(c1, a)
  <2>1. c.perf_tracepoints \in Seq(Addrs)
    BY DEF Ctx
  <2>2. \A a \in Range(c.perf_tracepoints) : a \in Addrs
    BY <2>1 DEF Range
  <2> QED
    BY <1>2, <2>2 DEF Track, Live
<1>4. ASSUME NEW D \in SUBSET Ctx, Stable(D, Streams), c1 \in D
      PROVE  /\ d \in D /\ Settings(c1, d) /\ d.is_sampling
             /\ d.stream_id = c1.stream_id + (1 + NCpus * Len(c1.perf_tracepoints))
             /\ d.id[Oa] # 0 /\ d.id[Cpu] = c1.id[Cpu] /\ d.data = {}
  <2>1. /\ c1 = stop_sampling(c) /\ c1.stream_id >= 1
        /\ c1.stream_id + (1 + NCpus * Len(c1.perf_tracepoints)) <= MaxId + 1
    BY <1>1, <1>2
  <2>2. c1.id[Oa] = 0 /\ c1 \in D
    BY <1>1, <1>4
  <2> HIDE DEF c1, d
  <2>3. LET e == start_sampling(c) IN
        /\ e \in D /\ Settings(c1, e) /\ e.is_sampling
        /\ e.stream_id = c1.stream_id + (1 + NCpus * Len(c1.perf_tracepoints))
        /\ e.id[Oa] # 0 /\ e.id[Cpu] = c1.id[Cpu] /\ e.data = {}
    <3>1. D \in SUBSET Ctx /\ Stable(D, Streams)
      BY <1>4
    <3>2. c1 \in D
      BY <2>2
    <3>3. /\ c1.id[Oa] = 0 /\ c1 = stop_sampling(c) /\ c1.stream_id >= 1
          /\ \A a \in Range(c1.perf_tracepoints) : Live(c1, a)
          /\ c1.stream_id + (1 + NCpus * Len(c1.perf_tracepoints)) <= MaxId + 1
      BY <1>3, <2>1, <2>2
    <3> QED
      BY ONLY <3>1, <3>2, <3>3, StartIs
  <2> QED
    BY <2>3 DEF d
<1> HIDE DEF c1, d
<1>5. /\ d \in Ctx /\ Settings(c1, d) /\ d.is_sampling
      /\ d.stream_id = c1.stream_id + (1 + NCpus * Len(c1.perf_tracepoints))
      /\ d.id[Oa] # 0 /\ d.id[Cpu] = c1.id[Cpu] /\ d.data = {}
  <2> DEFINE D == Ctx
  <2>1. D \in SUBSET Ctx /\ Stable(D, Streams)
    BY DEF Stable, ClosesWithin, OpensWithin, TouchesWithin
  <2>2. c1 \in D /\ (d \in D => d \in Ctx)
    BY <1>1
  <2> HIDE DEF D
  <2> QED
    BY <1>4, <2>1, <2>2
<1>6. Evolves(c, d)
  BY <1>1, <1>4 DEF Evolves
<1>7. c \in Stale /\ c.is_sampling => d \in Linked
  <2>1. Linked \in SUBSET Ctx /\ Stable(Linked, Streams)
    BY LinkedStable DEF Linked
  <2> QED
    BY <1>1, <1>4, <2>1
<1>8. Settings(c, d)
  BY <1>1, <1>5 DEF Settings
<1> QED
  BY <1>1, <1>2, <1>5, <1>6, <1>7, <1>8 DEF d

\* gputop_client_context_remove_tracepoint()
LEMMA RemoveIs ==
    ASSUME NEW c \in Ctx, Track(c), NEW a \in Addrs, Live(c, a)
    PROVE  LET d == remove_tracepoint(c, a) IN
           /\ d \in Ctx /\ Evolves(c, d) /\ Track(d) /\ d.stream_id = c.stream_id
           /\ d.is_sampling = c.is_sampling /\ d.features = c.features /\ d.metric_set = c.metric_set
           /\ \A s \in {Oa, Cpu} : d.id[s] = c.id[s]
           /\ \A s \in TpStreams : c.id[s] = 0 => d.id[s] = 0
           /\ c \in Stale => d \in Stale
<1> DEFINE d == remove_tracepoint(c, a)
<1>1. ASSUME NEW D \in SUBSET Ctx, ClosesWithin(D, TpStreams), RemovesWithin(D), c \in D
      PROVE  /\ d \in D /\ Track(d) /\ d.stream_id = c.stream_id
             /\ d.is_sampling = c.is_sampling /\ d.features = c.features /\ d.metric_set = c.metric_set
             /\ \A s \in TpOf(a) : d.id[s] = 0
             /\ \A s \in Streams \ TpOf(a) : d.id[s] = c.id[s]
  <2> DEFINE T == TpStreams
  <2>1. D \in SUBSET Ctx /\ ClosesWithin(D, T) /\ TpStreams \subseteq T /\ RemovesWithin(D)
    BY <1>1
  <2>2. c \in D /\ a \in Addrs
    BY <1>1
  <2>3. Track(c) /\ Live(c, a)
    OBVIOUS
  <2> HIDE DEF T, d
  <2>4. LET e == remove_tracepoint(c, a) IN
        /\ e \in D /\ Track(e) /\ e.stream_id = c.stream_id
        /\ e.is_sampling = c.is_sampling /\ e.features = c.features /\ e.metric_set = c.metric_set
        /\ e.names = c.names /\ e.uuids = c.uuids /\ e.data = c.data
        /\ e.tps = [c.tps EXCEPT ![a] = None]
        /\ \A s \in TpOf(a) : e.id[s] = 0
        /\ \A s \in Streams \ TpOf(a) : e.id[s] = c.id[s]
    BY ONLY <2>1, <2>2, <2>3, RemoveTp
  <2> QED
    BY <2>4 DEF d
<1> HIDE DEF d
<1>2. /\ d \in Ctx /\ Track(d) /\ d.stream_id = c.stream_id
      /\ d.is_sampling = c.is_sampling /\ d.features = c.features /\ d.metric_set = c.metric_set
      /\ \A s \in TpOf(a) : d.id[s] = 0
      /\ \A s \in Streams \ TpOf(a) : d.id[s] = c.id[s]
  <2> DEFINE D == Ctx
  <2>1. D \in SUBSET Ctx /\ ClosesWithin(D, TpStreams) /\ RemovesWithin(D) /\ c \in D /\ (d \in D => d \in Ctx)
    BY DEF ClosesWithin, RemovesWithin
  <2> HIDE DEF D
  <2> QED
    BY <1>1, <2>1
<1>3. Evolves(c, d)
  <2> SUFFICES ASSUME NEW D \in SUBSET Ctx, Stable(D, Streams), RemovesWithin(D), c \in D
               PROVE  d \in D
    BY DEF Evolves
  <2>1. ClosesWithin(D, TpStreams)
    BY ClosesFewer DEF Stable
  <2> QED
    BY <1>1, <2>1
<1>4. c \in Stale => d \in Stale
  <2>1. Stale \in SUBSET Ctx
    BY DEF Stale
  <2> QED
    BY <1>1, <2>1, StaleRemoves
<1>5. /\ \A s \in {Oa, Cpu} : d.id[s] = c.id[s]
      /\ \A s \in TpStreams : c.id[s] = 0 => d.id[s] = 0
  BY <1>2, MainStreams DEF TpOf
<1> QED
  BY <1>2, <1>3, <1>4, <1>5 DEF d

\* The context of a reset before its tracepoints are removed.
Cleared(c) ==
    [clear_perf_tracepoints_data(EmptyStreams(c))
       EXCEPT !.features = FALSE, !.metric_set = FALSE,
              !.names = [n \in Names |-> None], !.uuids = {}]

\* The list is emptied if the CPU stream is open.
LEMMA EmptyFields ==
    ASSUME NEW c \in Ctx
    PROVE  LET d == EmptyStreams(c) IN
           /\ d \in Ctx
           /\ d.stream_id = c.stream_id /\ d.id = c.id /\ d.table = c.table /\ d.out = c.out
           /\ Kept(c, d)
           /\ \A x \in Nodes : x # ListHead => d.next[x] = c.next[x] /\ d.prev[x] = c.prev[x]
           /\ c.id[Cpu] # 0 => d.next[ListHead] = ListHead
           /\ c.id[Cpu] = 0 => d = c
<1>0. c.next \in [Nodes -> Nodes \cup {None}] /\ c.prev \in [Nodes -> Nodes \cup {None}]
  BY DEF Ctx
<1>1. CASE c.id[Cpu] = 0
  <2>1. EmptyStreams(c) = c
    BY <1>1 DEF EmptyStreams, is_stream_opened
  <2> QED
    BY <1>1, <2>1 DEF Kept
<1>2. CASE c.id[Cpu] # 0
  <2> DEFINE nx == [c.next EXCEPT ![ListHead] = ListHead]
             pv == [c.prev EXCEPT ![ListHead] = ListHead]
             d == [c EXCEPT !.next = nx, !.prev = pv]
  <2>1. EmptyStreams(c) = d
    BY <1>2 DEF EmptyStreams, is_stream_opened, list_inithead, Ctx
  <2>2. /\ nx \in [Nodes -> Nodes \cup {None}] /\ pv \in [Nodes -> Nodes \cup {None}]
        /\ nx[ListHead] = ListHead /\ \A x \in Nodes : x # ListHead => nx[x] = c.next[x] /\ pv[x] = c.prev[x]
    BY <1>0, MainStreams
  <2> HIDE DEF nx, pv
  <2>3. /\ d \in Ctx
        /\ d.stream_id = c.stream_id /\ d.id = c.id /\ d.table = c.table /\ d.out = c.out
        /\ Kept(c, d) /\ d.next = nx /\ d.prev = pv
    BY <2>2 DEF Ctx, Kept
  <2> HIDE DEF d
  <2> QED
    BY <1>2, <2>1, <2>2, <2>3
<1> QED
  BY <1>1, <1>2

\* ... and the tables are.
LEMMA ClearedFields ==
    ASSUME NEW c \in Ctx
    PROVE  LET d == Cleared(c) IN
           /\ d \in Ctx
           /\ d.stream_id = c.stream_id /\ d.id = c.id /\ d.table = c.table /\ d.out = c.out
           /\ d.is_sampling = c.is_sampling /\ d.perf_tracepoints = c.perf_tracepoints /\ d.tps = c.tps
           /\ d.next = EmptyStreams(c).next /\ d.prev = EmptyStreams(c).prev
           /\ ~d.features /\ ~d.metric_set /\ d.uuids = {} /\ d.data = {}
<1> DEFINE e == EmptyStreams(c)
           f == [e EXCEPT !.data = {}]
           m == [n \in Names |-> None]
           d == [f EXCEPT !.features = FALSE, !.metric_set = FALSE, !.names = m, !.uuids = {}]
<1>1. /\ e \in Ctx /\ Kept(c, e)
      /\ e.stream_id = c.stream_id /\ e.id = c.id /\ e.table = c.table /\ e.out = c.out
  BY EmptyFields
<1>2. Cleared(c) = d
  BY DEF Cleared, clear_perf_tracepoints_data
<1>3. m \in [Names -> Addrs \cup {None}]
  OBVIOUS
<1> HIDE DEF e, m
<1>4. Touched(e, f) /\ f.data = {} /\ f.is_sampling = e.is_sampling
  <2>1. Touched(e, f)
    BY <1>1, TouchIs
  <2> QED
    BY <1>1, <2>1 DEF Ctx
<1> HIDE DEF f
<1>5. f \in Ctx
  BY <1>4 DEF Touched
<1>6. /\ d \in Ctx
      /\ d.stream_id = f.stream_id /\ d.id = f.id /\ d.table = f.table /\ d.out = f.out
      /\ d.is_sampling = f.is_sampling /\ d.perf_tracepoints = f.perf_tracepoints /\ d.tps = f.tps
      /\ d.next = f.next /\ d.prev = f.prev
      /\ ~d.features /\ ~d.metric_set /\ d.uuids = {} /\ d.data = f.data
  BY <1>3, <1>5 DEF Ctx
<1> HIDE DEF d
<1>7. /\ d \in Ctx
      /\ d.stream_id = c.stream_id /\ d.id = c.id /\ d.table = c.table /\ d.out = c.out
      /\ d.is_sampling = c.is_sampling /\ d.perf_tracepoints = c.perf_tracepoints /\ d.tps = c.tps
      /\ d.next = e.next /\ d.prev = e.prev
      /\ ~d.features /\ ~d.metric_set /\ d.uuids = {} /\ d.data = {}
  BY <1>1, <1>4, <1>6 DEF Touched, Kept
<1> QED
  BY <1>2, <1>7 DEF e

\* gputop_client_context_reset() up to ctx->connection = connection.
LEMMA ResetTpsIs ==
    ASSUME NEW c \in InTable, Track(c), c.out = <<>>
    PROVE  LET d == reset_tracepoints(c) IN
           /\ d \in Ctx /\ d \in InTable /\ Track(d) /\ d \in Quiet /\ d \in Silent
           /\ d.is_sampling = c.is_sampling /\ ~d.features /\ ~d.metric_set
           /\ d.uuids = {} /\ d.data = {}
           /\ \A s \in TpStreams : d.id[s] = 0
           /\ \A s \in {Oa, Cpu} : d.id[s] = c.id[s]
           /\ (\A s \in TpStreams : c.id[s] = 0) =>
                d.next = EmptyStreams(c).next /\ d.prev = EmptyStreams(c).prev
<1> DEFINE e == Cleared(c)
           d == remove_tracepoints(e)
<1>0. c \in Ctx /\ Owned(c) /\ Tabled(c) /\ Below(c)
  BY DEF InTable
<1>1. reset_tracepoints(c) = d
  BY DEF reset_tracepoints, Cleared
<1>2. /\ e \in Ctx
      /\ e.stream_id = c.stream_id /\ e.id = c.id /\ e.table = c.table /\ e.out = c.out
      /\ e.is_sampling = c.is_sampling /\ e.perf_tracepoints = c.perf_tracepoints /\ e.tps = c.tps
      /\ e.next = EmptyStreams(c).next /\ e.prev = EmptyStreams(c).prev
      /\ ~e.features /\ ~e.metric_set /\ e.uuids = {} /\ e.data = {}
  BY <1>0, ClearedFields
<1> HIDE DEF e
<1>3. Track(e) /\ e \in InTable
  BY <1>0, <1>2 DEF Track, Live, InTable, Owned, Tabled, Below
<1>4. e \in Quiet /\ e \in Silent
  <2> DEFINE S == {}
  <2>1. S \in SUBSET StreamSet
    OBVIOUS
  <2>2. HandledAll(S, <<>>) = S
    <3> HIDE DEF S
    <3> QED
      BY <2>1, HandledNone
  <2>3. Len(<<>>) = 0
    OBVIOUS
  <2> QED
    BY <1>2, <2>2, <2>3 DEF Quiet, Silent, NoInfo, After
<1>5. ASSUME NEW D \in SUBSET Ctx, ClosesWithin(D, TpStreams), RemovesWithin(D), e \in D
      PROVE  /\ d \in D /\ Track(d) /\ d.stream_id = e.stream_id
             /\ d.is_sampling = e.is_sampling /\ d.features = e.features /\ d.metric_set = e.metric_set
             /\ d.names = e.names /\ d.uuids = e.uuids /\ d.data = e.data
             /\ \A a \in Addrs : ~Live(d, a)
             /\ \A s \in TpStreams : Live(e, s[1]) => d.id[s] = 0
             /\ \A s \in Streams : e.id[s] = 0 => d.id[s] = 0
             /\ \A s \in Streams \ TpStreams : d.id[s] = e.id[s]
  <2> DEFINE T == TpStreams
  <2>1. D \in SUBSET Ctx /\ ClosesWithin(D, T) /\ TpStreams \subseteq T /\ RemovesWithin(D)
    BY <1>5
  <2>2. e \in D /\ Track(e)
    BY <1>3, <1>5
  <2> HIDE DEF T
  <2> QED
    BY ONLY <2>1, <2>2, RemoveAll
<1> HIDE DEF d
<1>6. /\ d \in InTable /\ Track(d)
      /\ d.is_sampling = e.is_sampling /\ d.features = e.features /\ d.metric_set = e.metric_set
      /\ d.uuids = e.uuids /\ d.data = e.data
      /\ \A a \in Addrs : ~Live(d, a)
      /\ \A s \in Streams \ TpStreams : d.id[s] = e.id[s]
  <2>1. InTable \in SUBSET Ctx /\ ClosesWithin(InTable, TpStreams) /\ RemovesWithin(InTable)
    BY InTableCloses, InTableElse, ClosesFewer DEF InTable
  <2> QED
    BY <1>3, <1>5, <2>1
<1>7. d \in Quiet /\ d \in Silent
  <2>1. Quiet \in SUBSET Ctx /\ ClosesWithin(Quiet, TpStreams) /\ RemovesWithin(Quiet)
    BY QuietCloses, ClosesFewer DEF Quiet
  <2>2. Silent \in SUBSET Ctx /\ ClosesWithin(Silent, TpStreams) /\ RemovesWithin(Silent)
    <3>1. ClosesWithin(Silent, Streams) /\ RemovesWithin(Silent)
      BY SilentStable DEF Stable
    <3>2. ClosesWithin(Silent, TpStreams)
      BY <3>1, ClosesFewer
    <3> QED
      BY <3>1, <3>2 DEF Silent
  <2>3. d \in Quiet
    BY <1>4, <1>5, <2>1
  <2>4. d \in Silent
    BY <1>4, <1>5, <2>2
  <2> QED
    BY <2>3, <2>4
<1>8. \A s \in TpStreams : d.id[s] = 0
  BY <1>6, DifferentNodes DEF InTable, Owned
<1>9. ASSUME \A s \in TpStreams : c.id[s] = 0
      PROVE  d.next = e.next /\ d.prev = e.prev
  <2> DEFINE D == {x \in Ctx : (\A s \in TpStreams : x.id[s] = 0) /\ x.next = e.next /\ x.prev = e.prev}
  <2>1. D \in SUBSET Ctx /\ ClosesWithin(D, TpStreams) /\ RemovesWithin(D) /\ e \in D
    BY <1>2, <1>9 DEF ClosesWithin, RemovesWithin, RemovedTo
  <2>2. d \in D
    <3> HIDE DEF D
    <3> QED
      BY <1>5, <2>1
  <2> QED
    BY <2>2
<1>10. d \in Ctx
  BY <1>6 DEF InTable
<1>11. \A s \in {Oa, Cpu} : d.id[s] = c.id[s]
  BY <1>2, <1>6, MainStreams
<1> QED
  BY <1>1, <1>2, <1>6, <1>7, <1>8, <1>9, <1>10, <1>11

\* ... and from there: a new session's requests and its CPU stream.
LEMMA ResetConnIs ==
    ASSUME NEW c \in Ctx, c.out = <<>>
    PROVE  LET d == reset_connection(c) IN
           /\ d \in Ctx /\ Kept(c, d) /\ d.stream_id = 2 /\ d.table = c.table
           /\ d.id = [c.id EXCEPT ![Cpu] = 1]
           /\ d \in Silent
           /\ \A S \in SUBSET StreamSet : HandledAll(S, d.out) = S \cup {[id |-> 1, stream |-> Cpu]}
           /\ c.next[ListHead] = ListHead =>
                CpuAlone(d) /\ d.next[Oa] = c.next[Oa] /\ d.prev[Oa] = c.prev[Oa]
<1> DEFINE q == [req |-> "features"]
           e == <<>>
           o == Append(e, q)
           b == [c EXCEPT !.stream_id = 1]
           c1 == [b EXCEPT !.out = Append(b.out, q)]
           d == open_stream(c1, Cpu)
<1>1. reset_connection(c) = d
  BY DEF reset_connection, open_cpu_stats_stream, send
<1>2. q \in Reqs /\ q.req = "features"
  BY DEF Reqs
<1> HIDE DEF q
<1>3. e \in Seq(Reqs) /\ Len(e) = 0
  OBVIOUS
<1> HIDE DEF e
<1>4. o \in Seq(Reqs) /\ Len(o) = 1 /\ o[1] = q
  BY <1>2, <1>3
<1>5. /\ b \in Ctx /\ b.stream_id = 1 /\ b.id = c.id /\ b.next = c.next /\ b.prev = c.prev
      /\ b.table = c.table /\ b.out = e /\ Kept(c, b)
  BY DEF Ctx, Kept, e
<1> HIDE DEF b
<1>6. c1 = [b EXCEPT !.out = o]
  BY <1>5
<1> HIDE DEF c1, o
<1>7. /\ c1 \in Ctx /\ c1.stream_id = 1 /\ c1.id = c.id /\ c1.next = c.next /\ c1.prev = c.prev
      /\ c1.table = c.table /\ c1.out = o /\ Kept(b, c1)
  BY <1>4, <1>5, <1>6 DEF Ctx, Kept
<1>8. OpenedTo(c1, d, Cpu)
  BY <1>7, OpenStep, MainStreams
<1> HIDE DEF d
<1>9. /\ d \in Ctx /\ d.stream_id = 2 /\ d.table = c.table /\ d.id = [c.id EXCEPT ![Cpu] = 1]
      /\ Kept(c, d)
  BY <1>5, <1>7, <1>8, MainStreams DEF OpenedTo, Kept
<1>10. c1 \in Silent
  <2>1. \A i \in 1..Len(o) : i = 1
    BY <1>4
  <2> QED
    BY <1>2, <1>4, <1>7, <2>1 DEF Silent, NoInfo
<1>11. d \in Silent
  <2> DEFINE r == [req |-> "open", id |-> c1.stream_id, stream |-> Cpu]
             m == Append(o, r)
  <2>1. d.out = m /\ r.req = "open" /\ r \in Reqs
    BY <1>7, <1>8, MainStreams DEF OpenedTo, Reqs
  <2> HIDE DEF r
  <2>2. Len(m) = 2 /\ m[1] = q /\ m[2] = r
    <3>0. o \in Seq(Reqs) /\ r \in Reqs
      BY <1>4, <2>1
    <3>1. Len(Append(o, r)) = Len(o) + 1
      BY ONLY <3>0
    <3>2. Append(o, r)[1] = o[1]
      BY ONLY <3>0, <1>4
    <3>3. Append(o, r)[Len(o) + 1] = r
      BY ONLY <3>0
    <3> QED
      BY <1>4, <3>1, <3>2, <3>3
  <2> HIDE DEF m
  <2>3. \A i \in 1..Len(m) : i = 1 \/ i = 2
    BY <2>2
  <2> QED
    BY <1>2, <1>9, <2>1, <2>2, <2>3 DEF Silent, NoInfo
<1>12. ASSUME NEW S \in SUBSET StreamSet
       PROVE  HandledAll(S, d.out) = S \cup {[id |-> 1, stream |-> Cpu]}
  <2>1. After(S, d) = After(S, c1) \cup {[id |-> c1.stream_id, stream |-> Cpu]}
    BY <1>7, <1>8, <1>9, MainStreams, AfterOpen
  <2>2. HandledAll(S, e) = S
    BY HandledNone DEF e
  <2>3. HandledAll(S, Append(e, q)) = Handled(HandledAll(S, e), q)
    BY <1>2, <1>3, HandledAppend
  <2>4. Handled(S, q) = S
    BY <1>2 DEF Handled
  <2>5. After(S, c1) = S
    BY <1>7, <2>2, <2>3, <2>4 DEF After, o
  <2> QED
    BY <1>7, <2>1, <2>5 DEF After
<1>13. c.next[ListHead] = ListHead =>
         CpuAlone(d) /\ d.next[Oa] = c.next[Oa] /\ d.prev[Oa] = c.prev[Oa]
  BY <1>7, <1>8, <1>9, OpenedAlone
<1> QED
  BY <1>1, <1>9, <1>11, <1>12, <1>13

-----------------------------------------------------------------------------
(***************************************************************************)
(* The invariant.                                                          *)
(***************************************************************************)

\* States of a connection, and messages.
Statuses == {"none", "connecting", "cancelled", "open", "closing", "lost", "gone"}

Msgs == {[msg |-> "features"]}
        \cup [msg : {"info"}, uuid : Addrs]
        \cup [msg : {"data", "notify"}, id : Nat]

\* The context: its table is in step with its tracepoints and its streams,
\* and it samples when its OA stream is open.
Tidy(c) == c \in InTable /\ c.out = <<>> /\ Track(c) /\ (c.is_sampling <=> c.id[Oa] # 0)

\* The list, unless it was left early or emptied under open streams.
Shape(c, p) == (p \cap {"early", "nuked"} = {}) => (c \in Linked \/ c \in Stale)

\* The connections.
NetType ==
    /\ connection \in Conns \cup {None} /\ session \in Conns \cup {None}
    /\ status \in [Conns -> Statuses]
    /\ up \in [Conns -> Seq(Reqs)] /\ down \in [Conns -> Seq(Msgs)]
    /\ server \in [Conns -> SUBSET StreamSet]

\* Only a connection that is open or closing has anything on its way.
Idle ==
    \A k \in Conns : status[k] \notin {"open", "closing"} =>
        up[k] = <<>> /\ down[k] = <<>> /\ server[k] = {}

\* The connection the context sends on is the session's, if it is open.
Current ==
    \A k \in Conns :
        /\ (status[k] = "open" /\ connection = k) => session = k
        /\ (status[k] = "open" /\ session = k /\ "cut" \notin past) => connection = k
        /\ session = None => status[k] \notin {"open", "closing"}

\* Before the first session nothing is open but, early, the CPU stream.
Before(c, p) ==
    /\ ~c.features /\ ~c.metric_set /\ "nuked" \notin p
    /\ \A s \in Streams : s # Cpu => c.id[s] = 0
    /\ "early" \notin p => c.id[Cpu] = 0

\* In a session the CPU stream is open.
During(c, p) == c.stream_id >= 1 /\ c.id[Cpu] # 0 /\ "early" \notin p

\* Where the client is.
InPlace == IF session = None THEN Before(ctx, past) ELSE During(ctx, past)

\* Without a removal no table and no data has a tracepoint that was freed.
Held(c, p) == "removed" \notin p => \A a \in c.uuids \cup c.data : Live(c, a)

\* The server has the streams that are listed, and these are all.
Matched(c, S, p) ==
    /\ S \subseteq ListedOf(c)
    /\ "stale" \notin p => Unique(c) /\ ListedOf(c) \subseteq S

\* As long as the session is open and its connection was not taken away.
Streamed == (InSession /\ "cut" \notin past) => Matched(ctx, Settled, past)

\* A tracepoint whose fields are not known yet.
Waits(tps, a) == tps[a] # None /\ ~tps[a].has_fields

\* The requests u and the messages d ask for, or tell, the fields of
\* tracepoints that wait for them, once each.
AskedOnce(u, d, tps) ==
    /\ \A i \in 1..Len(u) : u[i].req = "info" => Waits(tps, u[i].uuid)
    /\ \A i \in 1..Len(d) : d[i].msg = "info" => Waits(tps, d[i].uuid)
    /\ \A i \in 1..Len(u) : \A j \in 1..Len(u) :
          (u[i].req = "info" /\ u[j].req = "info" /\ u[i].uuid = u[j].uuid) => i = j
    /\ \A i \in 1..Len(d) : \A j \in 1..Len(d) :
          (d[i].msg = "info" /\ d[j].msg = "info" /\ d[i].uuid = d[j].uuid) => i = j
    /\ \A i \in 1..Len(u) : \A j \in 1..Len(d) :
          (u[i].req = "info" /\ d[j].msg = "info") => u[i].uuid # d[j].uuid

\* As long as no tracepoint was removed and no message came from elsewhere.
Asked ==
    (session # None /\ past \cap {"removed", "mixed"} = {}) =>
        AskedOnce(up[session], down[session], ctx.tps)

\* What holds while the process runs, and the inductive invariant.
Running == NetType /\ Idle /\ Current /\ InPlace /\ Held(ctx, past) /\ Streamed /\ Asked

CInv == Tidy(ctx) /\ Shape(ctx, past) /\ EndsOnlyAfter /\ (fate = "runs" => Running)

\* A context after its requests were put on the connection.
LEMMA SentIs ==
    ASSUME NEW c \in Ctx
    PROVE  LET d == [c EXCEPT !.out = <<>>] IN
           /\ d \in Ctx /\ d.out = <<>> /\ Kept(c, d)
           /\ d.stream_id = c.stream_id /\ d.id = c.id /\ d.next = c.next /\ d.prev = c.prev
           /\ d.table = c.table
<1> DEFINE e == <<>>
           d == [c EXCEPT !.out = e]
<1>1. e \in Seq(Reqs)
  OBVIOUS
<1> HIDE DEF e
<1>2. /\ d \in Ctx /\ d.out = e /\ Kept(c, d)
      /\ d.stream_id = c.stream_id /\ d.id = c.id /\ d.next = c.next /\ d.prev = c.prev
      /\ d.table = c.table
  BY <1>1 DEF Ctx, Kept
<1> QED
  BY <1>2 DEF e

\* The list depends on the ids and the links only.
LEMMA SameLists ==
    ASSUME NEW c \in Ctx, NEW d \in Ctx, d.id = c.id, d.next = c.next, d.prev = c.prev
    PROVE  /\ c \in Linked => d \in Linked
           /\ c \in Stale => d \in Stale
           /\ ListedOf(d) = ListedOf(c)
<1>1. OpenOf(d) = OpenOf(c)
  BY DEF OpenOf
<1>2. ListedOf(d) = ListedOf(c)
  BY DEF ListedOf, is_stream_opened
<1>3. c \in Linked => d \in Linked
  BY <1>1 DEF Linked
<1>4. c \in Stale => d \in Stale
  BY <1>1 DEF Stale, CpuAlone, Beside
<1> QED
  BY <1>2, <1>3, <1>4

\* The table depends on the streams of tracepoints only.
LEMMA SameTable ==
    ASSUME NEW c \in InTable, NEW d \in Ctx, d.table = c.table, d.stream_id >= c.stream_id,
           \A s \in TpStreams : d.id[s] = c.id[s], \A a \in Addrs : Live(c, a) => Live(d, a)
    PROVE  d \in InTable
<1>0. c \in Ctx /\ Owned(c) /\ Tabled(c) /\ Below(c)
  BY DEF InTable
<1>1. Owned(d)
  BY <1>0, DifferentNodes DEF Owned
<1>2. Tabled(d)
  BY <1>0 DEF Tabled
<1>3. Below(d)
  <2> SUFFICES ASSUME NEW s \in TpStreams, d.id[s] # 0
               PROVE  d.id[s] < d.stream_id /\ d.id[s] <= MaxId
    BY DEF Below
  <2>1. c.id[s] < c.stream_id /\ c.id[s] <= MaxId
    BY <1>0 DEF Below
  <2>2. c.id[s] \in Nat /\ c.stream_id \in Nat /\ d.stream_id \in Nat
    BY <1>0, MainStreams DEF Ctx
  <2> QED
    BY <2>1, <2>2
<1> QED
  BY <1>1, <1>2, <1>3 DEF InTable

\* A context without requests leaves the server its streams.
LEMMA NothingSent ==
    ASSUME NEW S \in SUBSET StreamSet, NEW c, c.out = <<>>
    PROVE  After(S, c) = S
BY HandledNone DEF After

\* What every handler made of openings, closings and removals keeps.
LEMMA EvolvedIs ==
    ASSUME NEW c \in Ctx, NEW d \in Ctx, Evolves(c, d), c.out = <<>>
    PROVE  /\ c \in InTable => d \in InTable
           /\ c \in Linked => d \in Linked
           /\ d \in Silent
           /\ \A S \in SUBSET StreamSet : \A p : Matched(c, S, p) => Matched(d, After(S, d), p)
<1>1. c \in InTable => d \in InTable
  <2>1. InTable \in SUBSET Ctx /\ Stable(InTable, Streams) /\ RemovesWithin(InTable)
    BY InTableCloses, InTableOpens, InTableElse DEF InTable, Stable
  <2> HIDE DEF InTable
  <2> QED
    BY <2>1 DEF Evolves
<1>2. c \in Linked => d \in Linked
  <2>1. Linked \in SUBSET Ctx /\ Stable(Linked, Streams) /\ RemovesWithin(Linked)
    BY LinkedStable DEF Linked
  <2> QED
    BY <2>1 DEF Evolves
<1>3. d \in Silent
  <2>1. Silent \in SUBSET Ctx /\ Stable(Silent, Streams) /\ RemovesWithin(Silent)
    BY SilentStable DEF Silent
  <2>2. c \in Silent
    BY DEF Silent, NoInfo
  <2> QED
    BY <2>1, <2>2 DEF Evolves
<1>4. ASSUME NEW S \in SUBSET StreamSet, S \subseteq ListedOf(c)
      PROVE  After(S, d) \subseteq ListedOf(d)
  <2> DEFINE D == Forgets(S)
  <2>1. D \in SUBSET Ctx /\ Stable(D, Streams) /\ RemovesWithin(D)
    BY ForgetsStable DEF Forgets
  <2>2. c \in D
    BY <1>4, NothingSent DEF Forgets
  <2>3. d \in D
    <3> HIDE DEF D
    <3> QED
      BY <2>1, <2>2 DEF Evolves
  <2> QED
    BY <2>3 DEF Forgets
<1>5. ASSUME NEW S \in SUBSET StreamSet, Unique(c), ListedOf(c) \subseteq S
      PROVE  Unique(d) /\ ListedOf(d) \subseteq After(S, d)
  <2> DEFINE D == Misses(S)
  <2>1. D \in SUBSET Ctx /\ Stable(D, Streams) /\ RemovesWithin(D)
    BY MissesStable DEF Misses
  <2>2. c \in D
    BY <1>5, NothingSent DEF Misses
  <2>3. d \in D
    <3> HIDE DEF D
    <3> QED
      BY <2>1, <2>2 DEF Evolves
  <2> QED
    BY <2>3 DEF Misses
<1>6. \A S \in SUBSET StreamSet : \A p : Matched(c, S, p) => Matched(d, After(S, d), p)
  BY <1>4, <1>5 DEF Matched
<1> QED
  BY <1>1, <1>2, <1>3, <1>6

\* The table handle_perf_data() uses.
LEMMA TableIs ==
    ASSUME NEW c \in InTable
    PROVE  {<<i, c.table[i]>> : i \in {j \in 1..MaxId : c.table[j] # None}} =
           {<<c.id[s], s>> : s \in {t \in OpenTpStreams(c) : Live(c, t[1])}}
<1>0. c \in Ctx /\ Owned(c) /\ Tabled(c) /\ Below(c)
  BY DEF InTable
<1>1. MaxId \in Nat
  BY ClientAssumption
<1>2. ASSUME NEW i \in 1..MaxId, c.table[i] # None
      PROVE  \E s \in {t \in OpenTpStreams(c) : Live(c, t[1])} : <<i, c.table[i]>> = <<c.id[s], s>>
  <2>1. c.table[i] \in TpStreams
    BY <1>0, <1>2 DEF Ctx
  <2>2. PICK s \in TpStreams : s = c.table[i]
    BY <2>1
  <2>3. c.id[s] = i
    BY <1>0, <2>2 DEF Tabled
  <2>4. c.id[s] # 0
    BY <1>1, <2>3
  <2>5. s \in {t \in OpenTpStreams(c) : Live(c, t[1])}
    BY <1>0, <2>4 DEF OpenTpStreams, is_stream_opened, Owned
  <2> QED
    BY <2>2, <2>3, <2>5
<1>3. ASSUME NEW s \in {t \in OpenTpStreams(c) : Live(c, t[1])}
      PROVE  \E i \in {j \in 1..MaxId : c.table[j] # None} : <<i, c.table[i]>> = <<c.id[s], s>>
  <2>1. s \in TpStreams /\ c.id[s] # 0
    BY DEF OpenTpStreams, is_stream_opened
  <2>2. c.id[s] \in Nat /\ c.id[s] <= MaxId
    BY <1>0, <2>1, MainStreams DEF Ctx, Below
  <2>3. c.id[s] \in 1..MaxId
    BY <1>1, <2>1, <2>2
  <2>4. PICK i \in 1..MaxId : i = c.id[s]
    BY <2>3
  <2>5. c.table[i] = s
    BY <1>0, <2>1, <2>4 DEF Tabled
  <2>6. s # None
    BY <2>1, MainStreams, DifferentNodes
  <2> QED
    BY <2>4, <2>5, <2>6
<1> QED
  BY <1>2, <1>3

\* Requests that ask for no fields leave those asked for once each.
LEMMA AskedMore ==
    ASSUME NEW u \in Seq(Reqs), NEW d \in Seq(Msgs), NEW tps, AskedOnce(u, d, tps),
           NEW o \in Seq(Reqs), NoInfo(o)
    PROVE  u \o o \in Seq(Reqs) /\ AskedOnce(u \o o, d, tps)
<1> DEFINE v == u \o o
<1>1. v \in Seq(Reqs) /\ Len(v) = Len(u) + Len(o)
  OBVIOUS
<1>2. \A i \in 1..Len(u) : v[i] = u[i]
  OBVIOUS
<1>3. \A i \in 1..Len(v) : i \notin 1..Len(u) => i - Len(u) \in 1..Len(o) /\ v[i] = o[i - Len(u)]
  <2> SUFFICES ASSUME NEW i \in 1..Len(v), i \notin 1..Len(u)
               PROVE  i - Len(u) \in 1..Len(o) /\ v[i] = o[i - Len(u)]
    OBVIOUS
  <2>1. Len(u) \in Nat /\ Len(o) \in Nat /\ i \in Int /\ i > Len(u) /\ i <= Len(u) + Len(o)
    BY <1>1
  <2>2. v[i] = o[i - Len(u)]
    BY <2>1
  <2> QED
    BY <2>1, <2>2
<1> HIDE DEF v
<1>4. \A i \in 1..Len(v) : v[i].req = "info" => i \in 1..Len(u)
  BY <1>3 DEF NoInfo
<1>5. \A i \in 1..Len(v) : v[i].req = "info" => i \in 1..Len(u) /\ v[i] = u[i]
  BY <1>2, <1>4
<1>6. AskedOnce(v, d, tps)
  <2>1. \A i \in 1..Len(v) : v[i].req = "info" => Waits(tps, v[i].uuid)
    BY <1>5 DEF AskedOnce
  <2>2. ASSUME NEW i \in 1..Len(v), NEW j \in 1..Len(v),
               v[i].req = "info", v[j].req = "info", v[i].uuid = v[j].uuid
        PROVE  i = j
    <3>1. i \in 1..Len(u) /\ v[i] = u[i] /\ j \in 1..Len(u) /\ v[j] = u[j]
      BY <1>5, <2>2
    <3> QED
      BY <2>2, <3>1 DEF AskedOnce
  <2>3. ASSUME NEW i \in 1..Len(v), NEW j \in 1..Len(d), v[i].req = "info", d[j].msg = "info"
        PROVE  v[i].uuid # d[j].uuid
    <3>1. i \in 1..Len(u) /\ v[i] = u[i]
      BY <1>5, <2>3
    <3> QED
      BY <2>3, <3>1 DEF AskedOnce
  <2> QED
    BY <2>1, <2>2, <2>3 DEF AskedOnce
<1> QED
  BY <1>1, <1>6 DEF v

\* A message that was received is on its way no more.
LEMMA AskedLess ==
    ASSUME NEW u \in Seq(Reqs), NEW d \in Seq(Msgs), NEW tps, AskedOnce(u, d, tps), d # <<>>
    PROVE  Tail(d) \in Seq(Msgs) /\ AskedOnce(u, Tail(d), tps)
<1> DEFINE e == Tail(d)
<1>1. e \in Seq(Msgs) /\ Len(d) \in Nat /\ Len(d) >= 1 /\ Len(e) = Len(d) - 1
  OBVIOUS
<1>2. \A i \in 1..Len(e) : e[i] = d[i + 1] /\ i + 1 \in 1..Len(d)
  BY <1>1
<1> HIDE DEF e
<1>3. \A i \in 1..Len(e) : \A j \in 1..Len(e) : i + 1 = j + 1 => i = j
  BY <1>1
<1>4. AskedOnce(u, e, tps)
  <2>1. \A i \in 1..Len(e) : e[i].msg = "info" => Waits(tps, e[i].uuid)
    BY <1>2 DEF AskedOnce
  <2>2. \A i \in 1..Len(e) : \A j \in 1..Len(e) :
          (e[i].msg = "info" /\ e[j].msg = "info" /\ e[i].uuid = e[j].uuid) => i = j
    <3> SUFFICES ASSUME NEW i \in 1..Len(e), NEW j \in 1..Len(e),
                        e[i].msg = "info" /\ e[j].msg = "info" /\ e[i].uuid = e[j].uuid
                 PROVE  i = j
      OBVIOUS
    <3>1. i + 1 \in 1..Len(d) /\ j + 1 \in 1..Len(d) /\ e[i] = d[i + 1] /\ e[j] = d[j + 1]
      BY <1>2
    <3>2. i + 1 = j + 1
      BY <3>1 DEF AskedOnce
    <3> QED
      BY <1>3, <3>2
  <2>3. \A i \in 1..Len(u) : \A j \in 1..Len(e) :
          (u[i].req = "info" /\ e[j].msg = "info") => u[i].uuid # e[j].uuid
    BY <1>2 DEF AskedOnce
  <2>4. \A i \in 1..Len(u) : u[i].req = "info" => Waits(tps, u[i].uuid)
    BY DEF AskedOnce
  <2>5. \A i \in 1..Len(u) : \A j \in 1..Len(u) :
          (u[i].req = "info" /\ u[j].req = "info" /\ u[i].uuid = u[j].uuid) => i = j
    BY DEF AskedOnce
  <2> QED
    BY <2>1, <2>2, <2>3, <2>4, <2>5 DEF AskedOnce
<1> QED
  BY <1>1, <1>4 DEF e

\* What a handler may make of the context and of what is to be received, and
\* of the history.
Handles(c, d, p, q, dn, dm) ==
    /\ d \in InTable /\ Track(d) /\ (d.is_sampling <=> d.id[Oa] # 0)
    /\ Shape(d, q) /\ p \subseteq q
    /\ dm \in [Conns -> Seq(Msgs)]
    /\ \A k \in Conns : dn[k] = <<>> => dm[k] = <<>>
    /\ IF session = None THEN Before(d, q) ELSE During(d, q)
    /\ Held(d, q)
    /\ session # None => \A S \in SUBSET StreamSet : Matched(c, S, p) => Matched(d, After(S, d), q)
    /\ (session # None /\ q \cap {"removed", "mixed"} = {}) =>
          \A u \in Seq(Reqs) : AskedOnce(u, dn[session], c.tps) =>
             AskedOnce(u \o d.out, dm[session], d.tps) /\ AskedOnce(u, dm[session], d.tps)

\* Only the connection that is open, which is the session's, gets requests.
LEMMA DeliverIs ==
    ASSUME NetType, NEW o \in Seq(Reqs)
    PROVE  LET q == Deliver(up, connection, o) IN
           /\ q \in [Conns -> Seq(Reqs)]
           /\ \A k \in Conns :
                q[k] = IF connection = k /\ status[k] = "open" THEN up[k] \o o ELSE up[k]
<1>1. up \in [Conns -> Seq(Reqs)] /\ connection \in Conns \cup {None}
  BY DEF NetType
<1>2. None \notin Conns
  BY ClientAssumption DEF Conns
<1>3. CASE connection # None /\ status[connection] = "open"
  <2>1. PICK n \in Conns : n = connection
    BY <1>1, <1>3
  <2> DEFINE v == up[n] \o o
  <2>2. up[n] \in Seq(Reqs)
    BY <1>1
  <2>3. v \in Seq(Reqs)
    BY <2>2
  <2>4. Deliver(up, connection, o) = [up EXCEPT ![n] = v]
    BY <1>3, <2>1 DEF Deliver
  <2> HIDE DEF v
  <2>5. /\ [up EXCEPT ![n] = v] \in [Conns -> Seq(Reqs)]
        /\ \A k \in Conns : [up EXCEPT ![n] = v][k] = IF k = n THEN v ELSE up[k]
    BY <1>1, <2>3
  <2>6. \A k \in Conns : (connection = k /\ status[k] = "open") <=> k = n
    BY <1>3, <2>1
  <2> QED
    BY <2>4, <2>5, <2>6 DEF v
<1>4. CASE ~(connection # None /\ status[connection] = "open")
  <2>1. Deliver(up, connection, o) = up
    BY <1>4 DEF Deliver
  <2>2. \A k \in Conns : ~(connection = k /\ status[k] = "open")
    BY <1>2, <1>4
  <2> QED
    BY <1>1, <2>1, <2>2
<1> QED
  BY <1>3, <1>4

\* A handler's step: the context becomes c and its requests are sent.
LEMMA HandlerStep ==
    ASSUME CInv, fate = "runs", NEW c \in Ctx,
           UNCHANGED <<connection, session, status, server>>,
           ctx' = [c EXCEPT !.out = <<>>], up' = Deliver(up, connection, c.out),
           Handles(ctx, c, past, past', down, down'), EndsOnlyAfter'
    PROVE  CInv'
<1>0. Running /\ NetType /\ Idle /\ Current /\ Streamed /\ Asked
  BY DEF CInv, Running
<1>1. /\ ctx' \in Ctx /\ ctx'.out = <<>> /\ Kept(c, ctx')
      /\ ctx'.stream_id = c.stream_id /\ ctx'.id = c.id /\ ctx'.next = c.next /\ ctx'.prev = c.prev
      /\ ctx'.table = c.table
  BY SentIs
<1>2. /\ c \in InTable /\ Track(c) /\ (c.is_sampling <=> c.id[Oa] # 0)
      /\ Shape(c, past') /\ past \subseteq past'
      /\ down' \in [Conns -> Seq(Msgs)] /\ \A k \in Conns : down[k] = <<>> => down'[k] = <<>>
      /\ IF session = None THEN Before(c, past') ELSE During(c, past')
      /\ Held(c, past')
  BY DEF Handles
<1>3. c.out \in Seq(Reqs)
  BY DEF Ctx
<1>4. /\ up' \in [Conns -> Seq(Reqs)]
      /\ \A k \in Conns :
           up'[k] = IF connection = k /\ status[k] = "open" THEN up[k] \o c.out ELSE up[k]
  BY <1>0, <1>3, DeliverIs
<1>5. Tidy(ctx')
  <2>1. ctx' \in InTable
    <3>1. ctx'.stream_id >= c.stream_id
      BY <1>1 DEF Ctx
    <3>2. \A s \in TpStreams : ctx'.id[s] = c.id[s]
      BY <1>1
    <3>3. \A a \in Addrs : Live(c, a) => Live(ctx', a)
      BY <1>1 DEF Kept, Live
    <3> QED
      BY <1>1, <1>2, <3>1, <3>2, <3>3, SameTable
  <2>2. Track(ctx')
    BY <1>1, <1>2 DEF Track, Kept, Live
  <2>3. ctx'.is_sampling <=> ctx'.id[Oa] # 0
    BY <1>1, <1>2 DEF Kept
  <2> QED
    BY <1>1, <2>1, <2>2, <2>3 DEF Tidy
<1>6. Shape(ctx', past')
  BY <1>1, <1>2, SameLists DEF Shape
<1>7. NetType'
  BY <1>0, <1>2, <1>4 DEF NetType
<1>8. Idle'
  <2> SUFFICES ASSUME NEW k \in Conns, status[k] \notin {"open", "closing"}
               PROVE  up'[k] = <<>> /\ down'[k] = <<>> /\ server'[k] = {}
    BY DEF Idle
  <2>1. up[k] = <<>> /\ down[k] = <<>> /\ server[k] = {}
    BY <1>0 DEF Idle
  <2>2. up'[k] = up[k]
    BY <1>4
  <2> QED
    BY <1>2, <2>1, <2>2
<1>9. Current'
  BY <1>0, <1>2 DEF Current
<1>10. InPlace'
  BY <1>1, <1>2 DEF InPlace, Before, During, Kept
<1>11. Held(ctx', past')
  BY <1>1, <1>2 DEF Held, Kept, Live
<1>12. Streamed'
  <2> SUFFICES ASSUME InSession', "cut" \notin past'
               PROVE  Matched(ctx', Settled', past')
    BY DEF Streamed
  <2>1. session # None /\ status[session] = "open"
    BY DEF InSession
  <2>2. PICK k \in Conns : k = session
    BY <1>0, <2>1 DEF NetType
  <2>3. connection = k /\ status[k] = "open"
    BY <1>0, <1>2, <2>1, <2>2 DEF Current
  <2>4. up'[k] = up[k] \o c.out
    BY <1>4, <2>3
  <2> DEFINE S == HandledAll(server[k], up[k])
  <2>5. server[k] \in SUBSET StreamSet /\ up[k] \in Seq(Reqs)
    BY <1>0 DEF NetType
  <2>6. S \in SUBSET StreamSet
    BY <2>5, HandledAllType
  <2>7. Settled = S
    BY <2>2 DEF Settled
  <2>8. Matched(ctx, S, past)
    <3>1. InSession /\ "cut" \notin past
      BY <1>2, <2>1 DEF InSession
    <3> QED
      BY <1>0, <2>7, <3>1 DEF Streamed
  <2>9. HandledAll(server[k], up[k] \o c.out) = HandledAll(S, c.out)
    BY <1>3, <2>5, HandledConcat
  <2>10. Settled' = After(S, c)
    BY <2>2, <2>4, <2>9 DEF Settled, After
  <2> HIDE DEF S
  <2>11. Matched(c, After(S, c), past')
    BY <2>1, <2>6, <2>8 DEF Handles
  <2>12. ListedOf(ctx') = ListedOf(c)
    BY <1>1, SameLists
  <2>13. Unique(c) => Unique(ctx')
    BY <1>1 DEF Unique
  <2> QED
    BY <2>10, <2>11, <2>12, <2>13 DEF Matched
<1>13. Asked'
  <2> SUFFICES ASSUME session # None, past' \cap {"removed", "mixed"} = {}
               PROVE  AskedOnce(up'[session], down'[session], ctx'.tps)
    BY DEF Asked
  <2>1. PICK k \in Conns : k = session
    BY <1>0 DEF NetType
  <2>2. AskedOnce(up[k], down[k], ctx.tps)
    BY <1>0, <1>2, <2>1 DEF Asked
  <2>3. up[k] \in Seq(Reqs)
    BY <1>0 DEF NetType
  <2>4. AskedOnce(up[k] \o c.out, down'[k], c.tps) /\ AskedOnce(up[k], down'[k], c.tps)
    BY <2>1, <2>2, <2>3 DEF Handles
  <2>5. up'[k] = up[k] \o c.out \/ up'[k] = up[k]
    BY <1>4
  <2>6. ctx'.tps = c.tps
    BY <1>1 DEF Kept
  <2> QED
    BY <2>1, <2>4, <2>5, <2>6
<1> QED
  BY <1>5, <1>6, <1>7, <1>8, <1>9, <1>10, <1>11, <1>12, <1>13 DEF CInv, Running

\* c has the streams, the tracepoints and the tables of the context.
Like(c, d) ==
    /\ d.stream_id = c.stream_id /\ d.id = c.id /\ d.next = c.next /\ d.prev = c.prev
    /\ d.table = c.table /\ d.out = c.out /\ d.is_sampling = c.is_sampling
    /\ d.perf_tracepoints = c.perf_tracepoints /\ d.tps = c.tps
    /\ d.uuids = c.uuids /\ d.data = c.data

\* A handler made of openings, closings and removals.
LEMMA EvolvedHandles ==
    ASSUME CInv, fate = "runs", NEW b \in Ctx, Like(ctx, b), NEW c \in Ctx, Evolves(b, c),
           NEW q, past \subseteq q, Track(c), c.is_sampling <=> c.id[Oa] # 0, Shape(c, q),
           IF session = None THEN Before(c, q) ELSE During(c, q), Held(c, q),
           c.tps = ctx.tps \/ "removed" \in q
    PROVE  Handles(ctx, c, past, q, down, down)
<1>0. /\ ctx \in InTable /\ ctx \in Ctx /\ ctx.out = <<>> /\ b.out = <<>>
      /\ NetType
  BY DEF CInv, Tidy, InTable, Like, Running
<1>1. b \in InTable
  <2>1. b.stream_id >= ctx.stream_id
    BY <1>0 DEF Like, Ctx
  <2> QED
    BY <1>0, <2>1, SameTable DEF Like, Live
<1>2. /\ c \in InTable /\ c \in Silent
      /\ \A S \in SUBSET StreamSet : \A p : Matched(b, S, p) => Matched(c, After(S, c), p)
  BY <1>0, <1>1, EvolvedIs
<1>3. \A S \in SUBSET StreamSet : Matched(ctx, S, past) => Matched(c, After(S, c), q)
  <2>1. ListedOf(b) = ListedOf(ctx)
    BY <1>0, SameLists DEF Like
  <2>2. Unique(ctx) => Unique(b)
    BY DEF Unique, Like
  <2>3. \A S \in SUBSET StreamSet : Matched(ctx, S, past) => Matched(b, S, past)
    BY <2>1, <2>2 DEF Matched
  <2>4. \A S \in SUBSET StreamSet : Matched(c, After(S, c), past) => Matched(c, After(S, c), q)
    BY DEF Matched
  <2> QED
    BY <1>2, <2>3, <2>4
<1>4. ASSUME session # None, q \cap {"removed", "mixed"} = {}, NEW u \in Seq(Reqs),
             AskedOnce(u, down[session], ctx.tps)
      PROVE  AskedOnce(u \o c.out, down[session], c.tps) /\ AskedOnce(u, down[session], c.tps)
  <2>1. down[session] \in Seq(Msgs)
    BY <1>0, <1>4 DEF NetType
  <2>2. c.tps = ctx.tps
    BY <1>4
  <2>3. c.out \in Seq(Reqs) /\ NoInfo(c.out)
    BY <1>2 DEF Silent, Ctx
  <2> QED
    BY <1>4, <2>1, <2>2, <2>3, AskedMore
<1>5. down \in [Conns -> Seq(Msgs)]
  BY <1>0 DEF NetType
<1> QED
  BY <1>2, <1>3, <1>4, <1>5 DEF Handles

\* A handler that opens and closes no stream.
LEMMA SameHandles ==
    ASSUME CInv, fate = "runs", NEW c \in Ctx, NEW q, past \subseteq q,
           c.stream_id = ctx.stream_id, c.id = ctx.id, c.next = ctx.next, c.prev = ctx.prev,
           c.table = ctx.table, c.is_sampling = ctx.is_sampling,
           \A a \in Addrs : Live(ctx, a) => Live(c, a), Track(c),
           \A S \in SUBSET StreamSet : After(S, c) = S,
           session = None => Before(c, q), "early" \in q => "early" \in past, Held(c, q),
           NEW dm \in [Conns -> Seq(Msgs)], \A k \in Conns : down[k] = <<>> => dm[k] = <<>>,
           (session # None /\ q \cap {"removed", "mixed"} = {}) =>
             \A u \in Seq(Reqs) : AskedOnce(u, down[session], ctx.tps) =>
               AskedOnce(u \o c.out, dm[session], c.tps) /\ AskedOnce(u, dm[session], c.tps)
    PROVE  Handles(ctx, c, past, q, down, dm)
<1>0. /\ ctx \in InTable /\ ctx \in Ctx /\ ctx.out = <<>> /\ Shape(ctx, past)
      /\ ctx.is_sampling <=> ctx.id[Oa] # 0
      /\ session # None => During(ctx, past)
  BY DEF CInv, Tidy, InTable, Running, InPlace
<1>1. c \in InTable
  <2>1. c.stream_id >= ctx.stream_id
    BY <1>0 DEF Ctx
  <2> QED
    BY <1>0, <2>1, SameTable
<1>2. Shape(c, q)
  BY <1>0, SameLists DEF Shape
<1>3. \A S \in SUBSET StreamSet : Matched(ctx, S, past) => Matched(c, After(S, c), q)
  <2>1. ListedOf(c) = ListedOf(ctx)
    BY <1>0, SameLists
  <2>2. Unique(ctx) => Unique(c)
    BY DEF Unique
  <2> QED
    BY <2>1, <2>2 DEF Matched
<1>4. session # None => During(c, q)
  BY <1>0 DEF During
<1> QED
  BY <1>0, <1>1, <1>2, <1>3, <1>4 DEF Handles

\* Steps that follow one another.
LEMMA EvolvesOn ==
    ASSUME NEW b, NEW c, NEW d, Evolves(b, c), Evolves(c, d)
    PROVE  Evolves(b, d)
BY DEF Evolves

\* A context is like itself.
LEMMA LikeSelf ==
    ASSUME NEW c
    PROVE  Like(c, c) /\ Evolves(c, c)
BY DEF Like, Evolves

\* Freed data is there only after a removal.
LEMMA DanglingIs ==
    ASSUME NEW c \in Ctx, NEW p, Held(c, p), DanglingData(c) # {}
    PROVE  "removed" \in p
BY DEF Held, DanglingData

\* toggle_start_stop_sampling()
LEMMA ToggleStep ==
    ASSUME CInv, fate = "runs", toggle_start_stop_sampling
    PROVE  CInv'
<1>0. /\ ctx \in Ctx /\ ctx \in InTable /\ Track(ctx) /\ (ctx.is_sampling <=> ctx.id[Oa] # 0)
      /\ Shape(ctx, past) /\ Running /\ InPlace /\ Held(ctx, past)
  BY DEF CInv, Tidy, InTable, Running
<1>1. /\ ctx.metric_set /\ past' = past /\ down' = down
      /\ UNCHANGED <<connection, session, status, server>>
  BY DEF toggle_start_stop_sampling, Clicks
<1>2. session # None /\ During(ctx, past)
  BY <1>0, <1>1 DEF InPlace, Before
<1>3. EndsOnlyAfter'
  <2>1. fate' = "runs" \/ (fate' = "corrupt" /\ DanglingData(ctx) # {})
    BY DEF toggle_start_stop_sampling
  <2>2. fate' = "corrupt" => "removed" \in past
    BY <1>0, <2>1, DanglingIs
  <2> QED
    BY <1>1, <2>1, <2>2 DEF EndsOnlyAfter
<1>4. CASE ctx.is_sampling
  <2> DEFINE c == stop_sampling(ctx)
  <2>1. /\ c \in Ctx /\ Evolves(ctx, c) /\ Settings(ctx, c) /\ ~c.is_sampling
        /\ c.stream_id = ctx.stream_id /\ c.id[Cpu] = ctx.id[Cpu] /\ c.data = ctx.data
        /\ c.id[Oa] = 0
        /\ ctx \in Stale => c \in Linked
    BY <1>0, <1>4, StopAll
  <2>2. Becomes(c)
    BY <1>4 DEF toggle_start_stop_sampling
  <2> HIDE DEF c
  <2>3. Shape(c, past)
    <3>1. ctx \in Linked => c \in Linked
      BY <1>0, <2>1, EvolvedIs DEF CInv, Tidy
    <3> QED
      BY <1>0, <2>1, <3>1 DEF Shape
  <2>4. Track(c) /\ During(c, past) /\ Held(c, past) /\ c.tps = ctx.tps
    BY <1>0, <1>2, <2>1 DEF Track, During, Held, Settings, Live
  <2>5. Handles(ctx, c, past, past, down, down)
    BY <1>0, <1>2, <2>1, <2>3, <2>4, LikeSelf, EvolvedHandles
  <2>6. Handles(ctx, c, past, past', down, down')
    BY <1>1, <2>5
  <2> QED
    BY <1>1, <1>3, <2>1, <2>2, <2>6, HandlerStep DEF Becomes
<1>5. CASE ~ctx.is_sampling
  <2> DEFINE c == start_sampling(ctx)
  <2>0. /\ ctx.stream_id >= 1
        /\ ctx.stream_id + (1 + NCpus * Len(ctx.perf_tracepoints)) <= MaxId + 1
    BY <1>2, <1>5 DEF toggle_start_stop_sampling, Room, During
  <2>1. /\ c \in Ctx /\ Evolves(ctx, c) /\ Settings(ctx, c) /\ c.is_sampling
        /\ c.stream_id = ctx.stream_id + (1 + NCpus * Len(ctx.perf_tracepoints))
        /\ c.id[Oa] # 0 /\ c.id[Cpu] = ctx.id[Cpu] /\ c.data = {}
    BY <1>0, <1>5, <2>0, StartAll
  <2>2. Becomes(c)
    BY <1>5 DEF toggle_start_stop_sampling
  <2> HIDE DEF c
  <2>3. Shape(c, past)
    <3>1. ctx \in Linked => c \in Linked
      BY <1>0, <2>1, EvolvedIs DEF CInv, Tidy
    <3>2. ctx \notin Stale
      BY <1>0, <1>5 DEF Stale, OpenOf
    <3> QED
      BY <1>0, <3>1, <3>2 DEF Shape
  <2>4. Track(c) /\ Held(c, past) /\ c.tps = ctx.tps
    BY <1>0, <1>2, <2>1 DEF Track, Held, Settings, Live
  <2>5. During(c, past)
    <3>1. Len(ctx.perf_tracepoints) \in Nat /\ ctx.stream_id \in Nat /\ NCpus \in Nat
      BY <1>0, ClientAssumption DEF Ctx
    <3>2. NCpus * Len(ctx.perf_tracepoints) \in Nat
      BY <3>1
    <3>3. c.stream_id >= 1
      <4> DEFINE m == NCpus * Len(ctx.perf_tracepoints)
      <4>1. m \in Nat /\ c.stream_id = ctx.stream_id + (1 + m)
        BY <2>1, <3>2
      <4> HIDE DEF m
      <4> QED
        BY <3>1, <4>1
    <3> QED
      BY <1>2, <2>1, <3>3 DEF During
  <2>6. Handles(ctx, c, past, past, down, down)
    BY <1>0, <1>2, <2>1, <2>3, <2>4, <2>5, LikeSelf, EvolvedHandles
  <2>7. Handles(ctx, c, past, past', down, down')
    BY <1>1, <2>6
  <2> QED
    BY <1>1, <1>3, <2>1, <2>2, <2>7, HandlerStep DEF Becomes
<1> QED
  BY <1>4, <1>5

\* maybe_restart_sampling()
LEMMA SelectMetricStep ==
    ASSUME CInv, fate = "runs", select_metric_set
    PROVE  CInv'
<1>0. /\ ctx \in Ctx /\ ctx \in InTable /\ Track(ctx) /\ (ctx.is_sampling <=> ctx.id[Oa] # 0)
      /\ Shape(ctx, past) /\ Running /\ InPlace /\ Held(ctx, past) /\ ctx.out = <<>>
  BY DEF CInv, Tidy, InTable, Running
<1>1. /\ ctx.features /\ past' = past /\ down' = down
      /\ UNCHANGED <<connection, session, status, server>>
  BY DEF select_metric_set, Clicks
<1>2. session # None /\ During(ctx, past)
  BY <1>0, <1>1 DEF InPlace, Before
<1>3. EndsOnlyAfter'
  <2>1. fate' = "runs" \/ (fate' = "corrupt" /\ DanglingData(ctx) # {})
    BY DEF select_metric_set
  <2>2. fate' = "corrupt" => "removed" \in past
    BY <1>0, <2>1, DanglingIs
  <2> QED
    BY <1>1, <2>1, <2>2 DEF EndsOnlyAfter
<1> DEFINE b == [ctx EXCEPT !.metric_set = TRUE]
<1>4. b \in Ctx /\ Like(ctx, b)
  BY <1>0 DEF Ctx, Like
<1>5. /\ b.is_sampling => /\ Room(1 + NCpus * Len(ctx.perf_tracepoints))
                          /\ Becomes(start_sampling(stop_sampling(b)))
      /\ ~b.is_sampling => Becomes(b)
  BY DEF select_metric_set
<1> HIDE DEF b
<1>6. /\ b.is_sampling = ctx.is_sampling /\ b.id = ctx.id /\ b.stream_id = ctx.stream_id
      /\ b.perf_tracepoints = ctx.perf_tracepoints /\ b.tps = ctx.tps /\ b.data = ctx.data
      /\ b.uuids = ctx.uuids /\ b.out = <<>>
  BY <1>0, <1>4 DEF Like
<1>7. Track(b) /\ During(b, past) /\ Held(b, past) /\ Shape(b, past)
  <2>1. Track(b) /\ During(b, past) /\ Held(b, past)
    BY <1>0, <1>2, <1>6 DEF Track, During, Held, Live
  <2>2. Shape(b, past)
    BY <1>0, <1>4, SameLists DEF Shape, Like
  <2> QED
    BY <2>1, <2>2
<1>8. CASE ctx.is_sampling
  <2> DEFINE c == stop_sampling(b)
             d == start_sampling(c)
  <2>1. /\ c \in Ctx /\ Evolves(b, c) /\ Settings(b, c) /\ ~c.is_sampling
        /\ c.stream_id = b.stream_id /\ c.id[Cpu] = b.id[Cpu] /\ c.data = b.data
        /\ c.id[Oa] = 0
        /\ b \in Stale => c \in Linked
    BY <1>4, <1>6, <1>8, StopAll
  <2>2. Becomes(d)
    BY <1>5, <1>6, <1>8
  <2> HIDE DEF c
  <2>3. /\ c.stream_id >= 1 /\ c.perf_tracepoints = ctx.perf_tracepoints /\ Track(c)
        /\ c.stream_id + (1 + NCpus * Len(c.perf_tracepoints)) <= MaxId + 1
    <3>1. Room(1 + NCpus * Len(ctx.perf_tracepoints))
      BY <1>5, <1>6, <1>8
    <3> QED
      BY <1>6, <1>7, <2>1, <3>1 DEF Room, Settings, Track, Live, During
  <2>4. /\ d \in Ctx /\ Evolves(c, d) /\ Settings(c, d) /\ d.is_sampling
        /\ d.stream_id = c.stream_id + (1 + NCpus * Len(c.perf_tracepoints))
        /\ d.id[Oa] # 0 /\ d.id[Cpu] = c.id[Cpu] /\ d.data = {}
    BY <2>1, <2>3, StartAll
  <2> HIDE DEF d
  <2>5. Evolves(b, d)
    BY <2>1, <2>4, EvolvesOn
  <2>6. Shape(d, past)
    <3>1. b \in Linked => c \in Linked
      BY <1>4, <1>6, <2>1, EvolvedIs
    <3>2. c \in Linked => d \in Linked
      <4>1. Linked \in SUBSET Ctx /\ Stable(Linked, Streams) /\ RemovesWithin(Linked)
        BY LinkedStable DEF Linked
      <4> QED
        BY <2>4, <4>1 DEF Evolves
    <3> QED
      BY <1>7, <2>1, <3>1, <3>2 DEF Shape
  <2>7. Track(d) /\ Held(d, past) /\ d.tps = ctx.tps
    BY <1>6, <1>7, <2>1, <2>4 DEF Track, Held, Settings, Live
  <2>8. During(d, past)
    <3> DEFINE m == NCpus * Len(c.perf_tracepoints)
    <3>1. Len(c.perf_tracepoints) \in Nat /\ c.stream_id \in Nat /\ NCpus \in Nat
      BY <2>1, ClientAssumption DEF Ctx
    <3>2. m \in Nat
      BY <3>1
    <3>3. d.stream_id = c.stream_id + (1 + m)
      BY <2>4
    <3> HIDE DEF m
    <3>4. d.stream_id >= 1
      BY <2>3, <3>1, <3>2, <3>3
    <3> QED
      BY <1>6, <1>7, <2>1, <2>4, <3>4 DEF During
  <2>9. Handles(ctx, d, past, past, down, down)
    BY <1>2, <1>4, <2>4, <2>5, <2>6, <2>7, <2>8, EvolvedHandles
  <2>10. Handles(ctx, d, past, past', down, down')
    BY <1>1, <2>9
  <2> QED
    BY <1>1, <1>3, <2>2, <2>4, <2>10, HandlerStep DEF Becomes
<1>9. CASE ~ctx.is_sampling
  <2>1. Becomes(b)
    BY <1>5, <1>6, <1>9
  <2>2. Handles(ctx, b, past, past, down, down)
    BY <1>0, <1>2, <1>4, <1>6, <1>7, LikeSelf, EvolvedHandles
  <2>3. Handles(ctx, b, past, past', down, down')
    BY <1>1, <2>2
  <2> QED
    BY <1>1, <1>3, <1>4, <2>1, <2>3, HandlerStep DEF Becomes
<1> QED
  BY <1>8, <1>9

\* gputop_client_context_update_cpu_stream()
LEMMA SelectCpuStep ==
    ASSUME CInv, fate = "runs", select_cpu_period
    PROVE  CInv'
<1>0. /\ ctx \in Ctx /\ ctx \in InTable /\ Track(ctx) /\ (ctx.is_sampling <=> ctx.id[Oa] # 0)
      /\ Shape(ctx, past) /\ Running /\ InPlace /\ Held(ctx, past) /\ ctx.out = <<>>
      /\ NetType
  BY DEF CInv, Tidy, InTable, Running
<1> DEFINE c == update_cpu_stream(ctx)
<1>1. /\ down' = down /\ fate' = fate /\ Becomes(c)
      /\ past' = IF session = None THEN past \cup {"early"} ELSE past
      /\ UNCHANGED <<connection, session, status, server>>
  BY DEF select_cpu_period, Clicks
<1>2. EndsOnlyAfter'
  BY <1>1 DEF EndsOnlyAfter
<1>3. /\ c \in Ctx /\ Kept(ctx, c) /\ c.stream_id = ctx.stream_id + 1 /\ c.id[Cpu] = ctx.stream_id
      /\ \A t \in Streams : t # Cpu => c.id[t] = ctx.id[t]
      /\ c.table = ctx.table
      /\ ctx.stream_id >= 1 => Evolves(ctx, c)
  BY <1>0, UpdateCpuIs
<1>4. ctx \in Stale /\ ctx.stream_id >= 1 => c \in Stale
  BY StaleUpdate
<1> HIDE DEF c
<1>5. Track(c) /\ (c.is_sampling <=> c.id[Oa] # 0) /\ Held(c, past) /\ c.tps = ctx.tps
  BY <1>0, <1>3, MainStreams DEF Track, Kept, Live, Held
<1>6. CASE session # None
  <2>1. During(ctx, past) /\ past' = past
    BY <1>0, <1>1, <1>6 DEF InPlace
  <2>2. ctx.stream_id >= 1 /\ ctx.stream_id \in Nat
    BY <1>0, <2>1 DEF During, Ctx
  <2>3. During(c, past)
    BY <1>3, <2>1, <2>2 DEF During
  <2>4. Shape(c, past)
    <3>1. ctx \in Linked => c \in Linked
      BY <1>0, <1>3, <2>2, EvolvedIs
    <3> QED
      BY <1>0, <1>4, <2>2, <3>1 DEF Shape
  <2>5. Handles(ctx, c, past, past, down, down)
    BY <1>0, <1>3, <1>5, <1>6, <2>2, <2>3, <2>4, LikeSelf, EvolvedHandles
  <2>6. Handles(ctx, c, past, past', down, down')
    BY <1>1, <2>1, <2>5
  <2> QED
    BY <1>1, <1>2, <1>3, <2>6, HandlerStep DEF Becomes
<1>7. CASE session = None
  <2>1. Before(ctx, past) /\ past' = past \cup {"early"}
    BY <1>0, <1>1, <1>7 DEF InPlace
  <2>2. Before(c, past')
    BY <1>3, <2>1 DEF Before, Kept
  <2>3. Shape(c, past')
    BY <2>1 DEF Shape
  <2>4. c \in InTable
    <3>1. c.stream_id >= ctx.stream_id
      BY <1>0, <1>3 DEF Ctx
    <3>2. \A s \in TpStreams : c.id[s] = ctx.id[s]
      BY <1>3, MainStreams
    <3>3. \A a \in Addrs : Live(ctx, a) => Live(c, a)
      BY <1>5 DEF Live
    <3> QED
      BY <1>0, <1>3, <3>1, <3>2, <3>3, SameTable
  <2>5. Held(c, past')
    BY <1>5, <2>1 DEF Held
  <2>6. Handles(ctx, c, past, past', down, down')
    BY <1>0, <1>1, <1>5, <1>7, <2>1, <2>2, <2>3, <2>4, <2>5 DEF Handles, NetType
  <2> QED
    BY <1>1, <1>2, <1>3, <2>6, HandlerStep DEF Becomes
<1> QED
  BY <1>6, <1>7

\* gputop_client_context_remove_tracepoint()
LEMMA RemoveStep ==
    ASSUME CInv, fate = "runs", select_remove_tracepoint
    PROVE  CInv'
<1>0. /\ ctx \in Ctx /\ ctx \in InTable /\ Track(ctx) /\ (ctx.is_sampling <=> ctx.id[Oa] # 0)
      /\ Shape(ctx, past) /\ Running /\ InPlace /\ ctx.out = <<>>
  BY DEF CInv, Tidy, InTable, Running
<1>1. PICK a \in Addrs :
        /\ Live(ctx, a) /\ Becomes(remove_tracepoint(ctx, a)) /\ past' = past \cup {"removed"}
        /\ Clicks /\ fate' = fate
  BY DEF select_remove_tracepoint
<1> DEFINE c == remove_tracepoint(ctx, a)
<1>2. down' = down /\ UNCHANGED <<connection, session, status, server>>
  BY <1>1 DEF Clicks
<1>3. /\ c \in Ctx /\ Evolves(ctx, c) /\ Track(c) /\ c.stream_id = ctx.stream_id
      /\ c.is_sampling = ctx.is_sampling /\ c.features = ctx.features /\ c.metric_set = ctx.metric_set
      /\ \A s \in {Oa, Cpu} : c.id[s] = ctx.id[s]
      /\ \A s \in TpStreams : ctx.id[s] = 0 => c.id[s] = 0
      /\ ctx \in Stale => c \in Stale
  BY <1>0, <1>1, RemoveIs
<1>4. Becomes(c)
  BY <1>1
<1> HIDE DEF c
<1>5. EndsOnlyAfter'
  BY <1>1 DEF EndsOnlyAfter
<1>6. Shape(c, past')
  <2>1. ctx \in Linked => c \in Linked
    BY <1>0, <1>3, EvolvedIs
  <2> QED
    BY <1>0, <1>1, <1>3, <2>1 DEF Shape
<1>7. IF session = None THEN Before(c, past') ELSE During(c, past')
  <2>1. session = None => Before(c, past')
    <3>1. session = None => Before(ctx, past)
      BY <1>0 DEF InPlace
    <3>2. \A s \in Streams : s = Oa \/ s = Cpu \/ s \in TpStreams
      BY MainStreams
    <3> QED
      BY <1>1, <1>3, <3>1, <3>2 DEF Before
  <2>2. session # None => During(c, past')
    BY <1>0, <1>1, <1>3 DEF InPlace, During
  <2> QED
    BY <2>1, <2>2
<1>8. Held(c, past') /\ (c.is_sampling <=> c.id[Oa] # 0) /\ "removed" \in past' /\ past \subseteq past'
  BY <1>0, <1>1, <1>3 DEF Held
<1>9. PICK q : q = past'
  OBVIOUS
<1>10. Handles(ctx, c, past, q, down, down)
  BY <1>0, <1>3, <1>6, <1>7, <1>8, <1>9, LikeSelf, EvolvedHandles
<1>11. Handles(ctx, c, past, past', down, down')
  BY <1>2, <1>9, <1>10
<1> QED
  BY <1>1, <1>2, <1>3, <1>4, <1>5, <1>11, HandlerStep DEF Becomes

\* A message is received: one of another connection is remembered.
LEMMA ReceiveIs ==
    ASSUME CInv, fate = "runs", NEW k \in Conns, NEW m, Receive(k, m)
    PROVE  /\ session # None /\ past \subseteq past' /\ past' \subseteq past \cup {"mixed"}
           /\ "mixed" \notin past' => k = session
           /\ UNCHANGED <<connection, session, status, server>>
           /\ down' \in [Conns -> Seq(Msgs)] /\ down[k] \in Seq(Msgs) /\ down[k] # <<>> /\ m = down[k][1]
           /\ \A j \in Conns : down[j] = <<>> => down'[j] = <<>>
           /\ down'[k] = Tail(down[k]) /\ \A j \in Conns : j # k => down'[j] = down[j]
           /\ \A u \in Seq(Reqs) : \A t :
                AskedOnce(u, down[session], t) => AskedOnce(u, down'[session], t)
<1>0. NetType /\ Current
  BY DEF CInv, Running
<1>1. /\ status[k] \in {"open", "closing"} /\ down[k] # <<>> /\ m = down[k][1]
      /\ down' = [down EXCEPT ![k] = Tail(down[k])]
      /\ past' = IF k = session THEN past ELSE past \cup {"mixed"}
      /\ UNCHANGED <<connection, session, status, server>>
  BY DEF Receive
<1>2. down \in [Conns -> Seq(Msgs)] /\ down[k] \in Seq(Msgs)
  BY <1>0 DEF NetType
<1> DEFINE v == Tail(down[k])
<1>3. v \in Seq(Msgs)
  BY <1>1, <1>2
<1>4. down' = [down EXCEPT ![k] = v]
  BY <1>1
<1> HIDE DEF v
<1>5. /\ down' \in [Conns -> Seq(Msgs)] /\ down'[k] = v
      /\ \A j \in Conns : j # k => down'[j] = down[j]
  BY <1>2, <1>3, <1>4
<1>6. session # None
  BY <1>0, <1>1 DEF Current
<1>7. ASSUME NEW u \in Seq(Reqs), NEW t, AskedOnce(u, down[session], t)
      PROVE  AskedOnce(u, down'[session], t)
  <2>1. session \in Conns
    BY <1>0, <1>6 DEF NetType
  <2>2. CASE session = k
    <3>1. AskedOnce(u, down[k], t)
      BY <1>7, <2>2
    <3>2. AskedOnce(u, Tail(down[k]), t)
      BY <1>1, <1>2, <3>1, AskedLess
    <3> QED
      BY <1>5, <2>2, <3>2 DEF v
  <2> QED
    BY <1>5, <1>7, <2>1, <2>2
<1>8. \A j \in Conns : down[j] = <<>> => down'[j] = <<>>
  BY <1>1, <1>5
<1>9. /\ past \subseteq past' /\ past' \subseteq past \cup {"mixed"}
      /\ "mixed" \notin past' => k = session
  BY <1>1
<1> QED
  BY <1>1, <1>2, <1>5, <1>6, <1>7, <1>8, <1>9 DEF v

\* Nothing to send leaves what is on its way.
LEMMA DeliverNothing ==
    ASSUME NetType
    PROVE  Deliver(up, connection, <<>>) = up
<1> DEFINE e == <<>>
           q == Deliver(up, connection, e)
<1>1. e \in Seq(Reqs)
  OBVIOUS
<1>2. \A l \in Seq(Reqs) : l \o e = l
  OBVIOUS
<1>3. up \in [Conns -> Seq(Reqs)]
  BY DEF NetType
<1> HIDE DEF e
<1>4. /\ q \in [Conns -> Seq(Reqs)]
      /\ \A k \in Conns :
           q[k] = IF connection = k /\ status[k] = "open" THEN up[k] \o e ELSE up[k]
  BY <1>1, DeliverIs
<1> HIDE DEF q
<1>5. \A k \in Conns : q[k] = up[k]
  BY <1>2, <1>3, <1>4
<1>6. q = up
  BY <1>3, <1>4, <1>5
<1> QED
  BY <1>6 DEF q, e

\* A message's handler that opens and closes no stream and sends nothing.
LEMMA MessageStep ==
    ASSUME CInv, fate = "runs", NEW k \in Conns, NEW m, Receive(k, m), ctx' \in Ctx, up' = up,
           ctx'.stream_id = ctx.stream_id, ctx'.id = ctx.id, ctx'.next = ctx.next,
           ctx'.prev = ctx.prev, ctx'.table = ctx.table, ctx'.is_sampling = ctx.is_sampling,
           ctx'.perf_tracepoints = ctx.perf_tracepoints, ctx'.out = ctx.out,
           \A a \in Addrs : Live(ctx, a) <=> Live(ctx', a), Held(ctx', past'),
           past' \cap {"removed", "mixed"} = {} => \A u \in Seq(Reqs) :
              AskedOnce(u, down[k], ctx.tps) => AskedOnce(u, Tail(down[k]), ctx'.tps),
           EndsOnlyAfter'
    PROVE  CInv'
<1>0. Track(ctx) /\ ctx.out = <<>> /\ NetType
  BY DEF CInv, Tidy, Running
<1>1. /\ session # None /\ past \subseteq past' /\ past' \subseteq past \cup {"mixed"}
      /\ "mixed" \notin past' => k = session
      /\ UNCHANGED <<connection, session, status, server>>
      /\ down' \in [Conns -> Seq(Msgs)]
      /\ \A j \in Conns : down[j] = <<>> => down'[j] = <<>>
      /\ down'[k] = Tail(down[k])
  BY ReceiveIs
<1>2. PICK c \in Ctx : c = ctx'
  OBVIOUS
<1>3. PICK q : q = past'
  OBVIOUS
<1>4. PICK dm \in [Conns -> Seq(Msgs)] : dm = down'
  BY <1>1
<1>5. Track(c)
  BY <1>0, <1>2 DEF Track
<1>6. \A S \in SUBSET StreamSet : After(S, c) = S
  BY <1>0, <1>2, NothingSent
<1>7. q \cap {"removed", "mixed"} = {} =>
        \A u \in Seq(Reqs) : AskedOnce(u, down[session], ctx.tps) =>
           AskedOnce(u \o c.out, dm[session], c.tps) /\ AskedOnce(u, dm[session], c.tps)
  <2> SUFFICES ASSUME q \cap {"removed", "mixed"} = {}, NEW u \in Seq(Reqs),
                      AskedOnce(u, down[session], ctx.tps)
               PROVE  AskedOnce(u \o c.out, dm[session], c.tps) /\ AskedOnce(u, dm[session], c.tps)
    OBVIOUS
  <2>1. k = session
    BY <1>1, <1>3
  <2>2. AskedOnce(u, Tail(down[k]), c.tps)
    BY <1>2, <1>3, <2>1
  <2>3. u \o c.out = u
    <3>1. \A l \in Seq(Reqs) : l \o <<>> = l
      OBVIOUS
    <3> QED
      BY <1>0, <1>2, <3>1
  <2> QED
    BY <1>1, <1>4, <2>1, <2>2, <2>3
<1>8. Handles(ctx, c, past, q, down, dm)
  <2>1. /\ c.stream_id = ctx.stream_id /\ c.id = ctx.id /\ c.next = ctx.next /\ c.prev = ctx.prev
        /\ c.table = ctx.table /\ c.is_sampling = ctx.is_sampling
        /\ \A a \in Addrs : Live(ctx, a) => Live(c, a)
        /\ Held(c, q) /\ past \subseteq q /\ ("early" \in q => "early" \in past)
    BY <1>1, <1>2, <1>3
  <2> QED
    BY <1>1, <1>4, <1>5, <1>6, <1>7, <2>1, SameHandles
<1>9. Handles(ctx, c, past, past', down, down')
  BY <1>3, <1>4, <1>8
<1>10. ctx' = [c EXCEPT !.out = <<>>]
  BY <1>0, <1>2 DEF Ctx
<1>11. up' = Deliver(up, connection, c.out)
  BY <1>0, <1>2, DeliverNothing
<1> QED
  BY <1>1, <1>2, <1>9, <1>10, <1>11, HandlerStep

\* Requests and messages about fields have a tracepoint's address.
LEMMA InfoUuid ==
    /\ \A u \in Seq(Reqs) : \A i \in 1..Len(u) : u[i].req = "info" => u[i].uuid \in Addrs
    /\ \A d \in Seq(Msgs) : \A i \in 1..Len(d) : d[i].msg = "info" => d[i].uuid \in Addrs
<1>1. \A r \in Reqs : r.req = "info" => r.uuid \in Addrs
  BY DEF Reqs
<1>2. \A r \in Msgs : r.msg = "info" => r.uuid \in Addrs
  BY DEF Msgs
<1>3. \A u \in Seq(Reqs) : \A i \in 1..Len(u) : u[i] \in Reqs
  OBVIOUS
<1>4. \A d \in Seq(Msgs) : \A i \in 1..Len(d) : d[i] \in Msgs
  OBVIOUS
<1> QED
  BY <1>1, <1>2, <1>3, <1>4

\* The fields of a tracepoint came, and nothing more on its way is about it.
LEMMA AskedKnown ==
    ASSUME NEW u \in Seq(Reqs), NEW d \in Seq(Msgs), NEW tps, AskedOnce(u, d, tps), d # <<>>,
           NEW a, d[1].msg = "info", d[1].uuid = a,
           NEW t, \A b \in Addrs : b # a => t[b] = tps[b]
    PROVE  AskedOnce(u, Tail(d), t)
<1> DEFINE e == Tail(d)
<1>1. e \in Seq(Msgs) /\ AskedOnce(u, e, tps)
  BY AskedLess
<1>2. Len(d) \in Nat /\ Len(d) >= 1 /\ Len(e) = Len(d) - 1
  OBVIOUS
<1>3. \A i \in 1..Len(e) : e[i] = d[i + 1] /\ i + 1 \in 1..Len(d) /\ i + 1 # 1
  BY <1>2
<1>4. 1 \in 1..Len(d)
  BY <1>2
<1> HIDE DEF e
<1>5. ASSUME NEW i \in 1..Len(e), e[i].msg = "info"
      PROVE  e[i].uuid # a /\ e[i].uuid \in Addrs
  <2>0. e[i].uuid \in Addrs
    BY <1>1, <1>5, InfoUuid
  <2>1. e[i] = d[i + 1] /\ i + 1 \in 1..Len(d) /\ i + 1 # 1
    BY <1>3
  <2> QED
    BY <1>4, <1>5, <2>0, <2>1 DEF AskedOnce
<1>6. ASSUME NEW i \in 1..Len(u), u[i].req = "info"
      PROVE  u[i].uuid # a /\ u[i].uuid \in Addrs
  BY <1>4, <1>6, InfoUuid DEF AskedOnce
<1>7. \A b \in Addrs : b # a => (Waits(tps, b) <=> Waits(t, b))
  BY DEF Waits
<1>8. AskedOnce(u, e, t)
  <2>1. \A i \in 1..Len(e) : e[i].msg = "info" => Waits(t, e[i].uuid)
    BY <1>1, <1>5, <1>7 DEF AskedOnce
  <2>2. \A i \in 1..Len(u) : u[i].req = "info" => Waits(t, u[i].uuid)
    BY <1>1, <1>6, <1>7 DEF AskedOnce
  <2> QED
    BY <1>1, <2>1, <2>2 DEF AskedOnce
<1> QED
  BY <1>8 DEF e

\* handle_features()
LEMMA FeaturesStep ==
    ASSUME CInv, fate = "runs", NEW k \in Conns, HandleFeatures(k)
    PROVE  CInv'
<1>0. ctx \in Ctx /\ ctx.out = <<>> /\ NetType /\ Held(ctx, past)
  BY DEF CInv, Tidy, InTable, Running
<1> DEFINE m == [msg |-> "features"]
           c == [ctx EXCEPT !.features = TRUE]
<1>1. Receive(k, m) /\ Becomes(c) /\ fate' = fate
  BY DEF HandleFeatures
<1>2. c \in Ctx /\ Like(ctx, c)
  BY <1>0 DEF Ctx, Like
<1> HIDE DEF c, m
<1>3. /\ ctx' \in Ctx /\ Kept(c, ctx') /\ ctx'.out = <<>>
      /\ ctx'.stream_id = c.stream_id /\ ctx'.id = c.id /\ ctx'.next = c.next /\ ctx'.prev = c.prev
      /\ ctx'.table = c.table
  BY <1>1, <1>2, SentIs DEF Becomes
<1>4. /\ ctx'.stream_id = ctx.stream_id /\ ctx'.id = ctx.id /\ ctx'.next = ctx.next
      /\ ctx'.prev = ctx.prev /\ ctx'.table = ctx.table /\ ctx'.is_sampling = ctx.is_sampling
      /\ ctx'.perf_tracepoints = ctx.perf_tracepoints /\ ctx'.out = ctx.out
      /\ ctx'.tps = ctx.tps /\ ctx'.uuids = ctx.uuids /\ ctx'.data = ctx.data
  BY <1>0, <1>2, <1>3 DEF Kept, Like
<1>5. up' = up
  BY <1>0, <1>1, <1>2, DeliverNothing DEF Becomes, Like
<1>6. past \subseteq past' /\ down[k] \in Seq(Msgs) /\ down[k] # <<>>
  BY <1>1, ReceiveIs
<1>7. Held(ctx', past') /\ \A a \in Addrs : Live(ctx, a) <=> Live(ctx', a)
  BY <1>0, <1>4, <1>6 DEF Held, Live
<1>8. \A u \in Seq(Reqs) : AskedOnce(u, down[k], ctx.tps) => AskedOnce(u, Tail(down[k]), ctx'.tps)
  BY <1>4, <1>6, AskedLess
<1>9. EndsOnlyAfter'
  BY <1>1 DEF EndsOnlyAfter
<1> QED
  BY <1>1, <1>3, <1>4, <1>5, <1>7, <1>8, <1>9, MessageStep

\* update_tracepoint()
LEMMA InfoStep ==
    ASSUME CInv, fate = "runs", NEW k \in Conns, NEW a \in Addrs, HandleTracepointInfo(k, a)
    PROVE  CInv'
<1>0. ctx \in Ctx /\ ctx.out = <<>> /\ NetType /\ Held(ctx, past) /\ Asked
  BY DEF CInv, Tidy, InTable, Running
<1> DEFINE m == [msg |-> "info", uuid |-> a]
<1>1. Receive(k, m) /\ up' = up
  BY DEF HandleTracepointInfo
<1>2. m.msg = "info" /\ m.uuid = a
  OBVIOUS
<1> HIDE DEF m
<1>3. /\ session # None /\ past \subseteq past' /\ past' \subseteq past \cup {"mixed"}
      /\ "mixed" \notin past' => k = session
      /\ down[k] \in Seq(Msgs) /\ down[k] # <<>> /\ m = down[k][1]
  BY <1>1, ReceiveIs
<1>4. \A t : (\A b \in Addrs : b # a => t[b] = ctx.tps[b]) => \A u \in Seq(Reqs) :
        AskedOnce(u, down[k], ctx.tps) => AskedOnce(u, Tail(down[k]), t)
  BY <1>2, <1>3, AskedKnown
<1>5. CASE ctx' = ctx /\ EndsOnlyAfter'
  <2>1. Held(ctx', past') /\ \A b \in Addrs : Live(ctx, b) <=> Live(ctx', b)
    BY <1>0, <1>3, <1>5 DEF Held
  <2>2. \A u \in Seq(Reqs) : AskedOnce(u, down[k], ctx.tps) => AskedOnce(u, Tail(down[k]), ctx'.tps)
    BY <1>4, <1>5
  <2> QED
    BY <1>0, <1>1, <1>5, <2>1, <2>2, MessageStep
<1>6. CASE a \notin ctx.uuids
  <2>1. ctx' = ctx /\ fate' = fate
    BY <1>6 DEF HandleTracepointInfo
  <2> QED
    BY <1>5, <2>1 DEF EndsOnlyAfter
<1>7. CASE a \in ctx.uuids /\ ~Live(ctx, a)
  <2>1. ctx' = ctx /\ fate' \in {"runs", "corrupt"}
    BY <1>7 DEF HandleTracepointInfo
  <2>2. "removed" \in past
    BY <1>0, <1>7 DEF Held
  <2> QED
    BY <1>3, <1>5, <2>1, <2>2 DEF EndsOnlyAfter
<1>8. CASE a \in ctx.uuids /\ Live(ctx, a) /\ ctx.tps[a].has_fields
  <2>1. ctx' = ctx /\ fate' = "aborted"
    BY <1>8 DEF HandleTracepointInfo
  <2>2. past' \cap {"removed", "mixed"} # {}
    <3> SUFFICES ASSUME past' \cap {"removed", "mixed"} = {}
                 PROVE  FALSE
      OBVIOUS
    <3>1. k = session /\ past \cap {"removed", "mixed"} = {}
      BY <1>3
    <3>2. AskedOnce(up[k], down[k], ctx.tps)
      BY <1>0, <1>3, <3>1 DEF Asked
    <3>3. 1 \in 1..Len(down[k])
      BY <1>3
    <3>4. Waits(ctx.tps, a)
      BY <1>2, <1>3, <3>2, <3>3 DEF AskedOnce
    <3> QED
      BY <1>8, <3>4 DEF Waits
  <2> QED
    BY <1>5, <2>1, <2>2 DEF EndsOnlyAfter
<1>9. CASE a \in ctx.uuids /\ Live(ctx, a) /\ ~ctx.tps[a].has_fields
  <2>0. PICK parses \in BOOLEAN : ctx' = [ctx EXCEPT !.tps[a].has_fields = parses] /\ fate' = fate
    BY <1>9 DEF HandleTracepointInfo
  <2> DEFINE x == [ctx.tps[a] EXCEPT !.has_fields = parses]
             t == [ctx.tps EXCEPT ![a] = x]
             c == [ctx EXCEPT !.tps = t]
  <2>1. ctx' = c /\ fate' = fate
    BY <2>0
  <2>2. ctx.tps \in [Addrs -> Tps \cup {None}] /\ ctx.tps[a] \in Tps
    BY <1>0, <1>9 DEF Ctx, Live
  <2>3. x \in Tps
    BY <2>2 DEF Tps
  <2>4. x # None
    BY <2>3, ClientAssumption DEF Tps
  <2> HIDE DEF x
  <2>5. t \in [Addrs -> Tps \cup {None}] /\ t[a] = x /\ \A b \in Addrs : b # a => t[b] = ctx.tps[b]
    BY <2>2, <2>3
  <2> HIDE DEF t
  <2>6. /\ c \in Ctx /\ c.tps = t
        /\ c.stream_id = ctx.stream_id /\ c.id = ctx.id /\ c.next = ctx.next /\ c.prev = ctx.prev
        /\ c.table = ctx.table /\ c.is_sampling = ctx.is_sampling
        /\ c.perf_tracepoints = ctx.perf_tracepoints /\ c.out = ctx.out
        /\ c.uuids = ctx.uuids /\ c.data = ctx.data
    BY <1>0, <2>5 DEF Ctx
  <2> HIDE DEF c
  <2>7. \A b \in Addrs : Live(ctx, b) <=> Live(c, b)
    BY <1>9, <2>4, <2>5, <2>6 DEF Live
  <2>8. Held(c, past')
    BY <1>0, <1>3, <2>6, <2>7 DEF Held, Ctx
  <2>9. \A u \in Seq(Reqs) : AskedOnce(u, down[k], ctx.tps) => AskedOnce(u, Tail(down[k]), c.tps)
    BY <1>4, <2>5, <2>6
  <2>10. EndsOnlyAfter'
    BY <2>1 DEF EndsOnlyAfter
  <2> QED
    BY <1>1, <2>1, <2>6, <2>7, <2>8, <2>9, <2>10, MessageStep
<1> QED
  BY <1>6, <1>7, <1>8, <1>9

\* handle_perf_data()
LEMMA PerfStep ==
    ASSUME CInv, fate = "runs", NEW k \in Conns, NEW i \in 1..MaxId, HandlePerfData(k, i)
    PROVE  CInv'
<1>0. /\ ctx \in Ctx /\ ctx.out = <<>> /\ NetType /\ Held(ctx, past)
      /\ Owned(ctx) /\ Tabled(ctx)
  BY DEF CInv, Tidy, InTable, Running
<1> DEFINE m == [msg |-> "data", id |-> i]
<1>1. Receive(k, m) /\ up' = up
  BY DEF HandlePerfData
<1> HIDE DEF m
<1>2. past \subseteq past' /\ down[k] \in Seq(Msgs) /\ down[k] # <<>>
  BY <1>1, ReceiveIs
<1>3. ctx.tps = ctx'.tps => \A u \in Seq(Reqs) :
        AskedOnce(u, down[k], ctx.tps) => AskedOnce(u, Tail(down[k]), ctx'.tps)
  BY <1>2, AskedLess
<1>4. CASE ctx.table[i] = None
  <2>1. ctx' = ctx /\ fate' = fate
    BY <1>4 DEF HandlePerfData
  <2>2. Held(ctx', past') /\ \A b \in Addrs : Live(ctx, b) <=> Live(ctx', b)
    BY <1>0, <1>2, <2>1 DEF Held
  <2>3. EndsOnlyAfter'
    BY <2>1 DEF EndsOnlyAfter
  <2> QED
    BY <1>0, <1>1, <1>3, <2>1, <2>2, <2>3, MessageStep
<1>5. CASE ctx.table[i] # None
  <2>1. PICK kept \in SUBSET ctx.data :
          /\ ctx' = [ctx EXCEPT !.data = kept \cup {ctx.table[i][1]}]
          /\ fate' \in IF DanglingData(ctx) \subseteq kept THEN {"runs"} ELSE {"runs", "corrupt"}
    BY <1>5 DEF HandlePerfData
  <2>2. PICK s \in TpStreams : s = ctx.table[i]
    BY <1>0, <1>5 DEF Ctx
  <2>3. ctx.id[s] = i /\ i # 0
    BY <1>0, <2>2, ClientAssumption DEF Tabled
  <2>4. Live(ctx, s[1]) /\ s[1] \in Addrs
    BY <1>0, <2>3, DifferentNodes DEF Owned
  <2> DEFINE x == kept \cup {s[1]}
             c == [ctx EXCEPT !.data = x]
  <2>5. ctx' = c
    BY <2>1, <2>2
  <2>6. x \in SUBSET Addrs
    BY <1>0, <2>4 DEF Ctx
  <2>7. \A a \in x : a \in ctx.data \/ a = s[1]
    OBVIOUS
  <2> HIDE DEF x
  <2>8. /\ c \in Ctx /\ c.tps = ctx.tps /\ c.data = x /\ c.uuids = ctx.uuids
        /\ c.stream_id = ctx.stream_id /\ c.id = ctx.id /\ c.next = ctx.next /\ c.prev = ctx.prev
        /\ c.table = ctx.table /\ c.is_sampling = ctx.is_sampling
        /\ c.perf_tracepoints = ctx.perf_tracepoints /\ c.out = ctx.out
    BY <1>0, <2>6 DEF Ctx
  <2> HIDE DEF c
  <2>9. Held(c, past') /\ \A b \in Addrs : Live(ctx, b) <=> Live(c, b)
    BY <1>0, <1>2, <2>4, <2>7, <2>8 DEF Held, Live
  <2>10. fate' = "runs" \/ (fate' = "corrupt" /\ DanglingData(ctx) # {})
    BY <2>1
  <2>11. EndsOnlyAfter'
    <3>1. fate' = "corrupt" => "removed" \in past
      BY <1>0, <2>10, DanglingIs
    <3> QED
      BY <1>2, <2>10, <3>1 DEF EndsOnlyAfter
  <2> QED
    BY <1>1, <1>3, <2>5, <2>8, <2>9, <2>11, MessageStep
<1> QED
  BY <1>4, <1>5

\* Unless a context was touched early or had its list emptied, its list ends.
LEMMA ShapeEnds ==
    ASSUME NEW c \in Ctx, NEW p, Shape(c, p), p \cap {"early", "nuked"} = {}
    PROVE  WalkEnds(c)
<1>1. c \in Linked => WalkEnds(c)
  BY LinkedEnds
<1>2. c \in Stale => WalkEnds(c)
  BY AloneEnds DEF Stale
<1> QED
  BY <1>1, <1>2 DEF Shape

\* find_stream()
LEMMA NotifyStep ==
    ASSUME CInv, fate = "runs", NEW k \in Conns, NEW i \in 1..MaxId, HandleNotify(k, i)
    PROVE  CInv'
<1>0. ctx \in Ctx /\ ctx.out = <<>> /\ NetType /\ Held(ctx, past) /\ Shape(ctx, past)
  BY DEF CInv, Tidy, InTable, Running
<1> DEFINE m == [msg |-> "notify", id |-> i]
<1>1. /\ Receive(k, m) /\ up' = up /\ ctx' = ctx
      /\ fate' = IF FindReturns(ctx, i) THEN "runs" ELSE "hangs"
  BY DEF HandleNotify
<1> HIDE DEF m
<1>2. past \subseteq past' /\ down[k] \in Seq(Msgs) /\ down[k] # <<>>
  BY <1>1, ReceiveIs
<1>3. \A u \in Seq(Reqs) : AskedOnce(u, down[k], ctx.tps) => AskedOnce(u, Tail(down[k]), ctx'.tps)
  BY <1>1, <1>2, AskedLess
<1>4. Held(ctx', past') /\ \A b \in Addrs : Live(ctx, b) <=> Live(ctx', b)
  BY <1>0, <1>1, <1>2 DEF Held
<1>5. fate' = "hangs" => past' \cap {"early", "nuked"} # {}
  <2>1. fate' = "hangs" => ~WalkEnds(ctx)
    BY <1>1 DEF FindReturns
  <2>2. fate' = "hangs" => past \cap {"early", "nuked"} # {}
    BY <1>0, <2>1, ShapeEnds
  <2> QED
    BY <1>2, <2>2
<1>6. EndsOnlyAfter'
  BY <1>1, <1>5 DEF EndsOnlyAfter
<1> QED
  BY <1>0, <1>1, <1>3, <1>4, <1>6, MessageStep

\* A new tracepoint is asked for.
LEMMA AskedNew ==
    ASSUME NEW u \in Seq(Reqs), NEW d \in Seq(Msgs), NEW tps, AskedOnce(u, d, tps),
           NEW a \in Addrs, tps[a] = None, NEW t, Waits(t, a), \A b \in Addrs : b # a => t[b] = tps[b],
           NEW r \in Reqs, r.req = "info", r.uuid = a
    PROVE  AskedOnce(Append(u, r), d, t) /\ AskedOnce(u, d, t)
<1> DEFINE v == Append(u, r)
<1>1. v \in Seq(Reqs) /\ Len(u) \in Nat /\ Len(v) = Len(u) + 1
  OBVIOUS
<1>2. v[Len(u) + 1] = r /\ \A i \in 1..Len(u) : v[i] = u[i]
  OBVIOUS
<1> HIDE DEF v
<1>3. \A i \in 1..Len(v) : (i \in 1..Len(u) /\ v[i] = u[i]) \/ (i = Len(u) + 1 /\ v[i] = r)
  BY <1>1, <1>2
<1>4. \A b \in Addrs : Waits(tps, b) => b # a /\ Waits(t, b)
  BY DEF Waits
<1>5. ASSUME NEW i \in 1..Len(d), d[i].msg = "info"
      PROVE  d[i].uuid # a /\ Waits(t, d[i].uuid)
  BY <1>4, <1>5, InfoUuid DEF AskedOnce
<1>6. ASSUME NEW i \in 1..Len(u), u[i].req = "info"
      PROVE  u[i].uuid # a /\ Waits(t, u[i].uuid)
  BY <1>4, <1>6, InfoUuid DEF AskedOnce
<1>7. AskedOnce(u, d, t)
  BY <1>5, <1>6 DEF AskedOnce
<1>8. AskedOnce(v, d, t)
  <2>1. \A i \in 1..Len(v) : v[i].req = "info" => Waits(t, v[i].uuid)
    BY <1>3, <1>6
  <2>2. \A i \in 1..Len(v) : \A j \in 1..Len(v) :
          (v[i].req = "info" /\ v[j].req = "info" /\ v[i].uuid = v[j].uuid) => i = j
    <3> SUFFICES ASSUME NEW i \in 1..Len(v), NEW j \in 1..Len(v),
                        v[i].req = "info" /\ v[j].req = "info" /\ v[i].uuid = v[j].uuid
                 PROVE  i = j
      OBVIOUS
    <3>1. (i \in 1..Len(u) /\ v[i] = u[i]) \/ (i = Len(u) + 1 /\ v[i] = r)
      BY <1>3
    <3>2. (j \in 1..Len(u) /\ v[j] = u[j]) \/ (j = Len(u) + 1 /\ v[j] = r)
      BY <1>3
    <3>3. CASE i \in 1..Len(u) /\ v[i] = u[i] /\ j \in 1..Len(u) /\ v[j] = u[j]
      BY <3>3 DEF AskedOnce
    <3>4. CASE i \in 1..Len(u) /\ v[i] = u[i] /\ j = Len(u) + 1 /\ v[j] = r
      BY <1>6, <3>4
    <3>5. CASE j \in 1..Len(u) /\ v[j] = u[j] /\ i = Len(u) + 1 /\ v[i] = r
      BY <1>6, <3>5
    <3>6. CASE i = Len(u) + 1 /\ j = Len(u) + 1
      BY <3>6
    <3> QED
      BY <3>1, <3>2, <3>3, <3>4, <3>5, <3>6
  <2>3. \A i \in 1..Len(v) : \A j \in 1..Len(d) :
          (v[i].req = "info" /\ d[j].msg = "info") => v[i].uuid # d[j].uuid
    BY <1>3, <1>5, <1>7 DEF AskedOnce
  <2> QED
    BY <1>7, <2>1, <2>2, <2>3 DEF AskedOnce
<1> QED
  BY <1>7, <1>8 DEF v

\* gputop_client_context_add_tracepoint()
LEMMA AddStep ==
    ASSUME CInv, fate = "runs", NEW n \in Names, add_tracepoint(n)
    PROVE  CInv'
<1>0. /\ ctx \in Ctx /\ Track(ctx) /\ ctx.out = <<>> /\ InPlace /\ Held(ctx, past) /\ NetType
  BY DEF CInv, Tidy, InTable, Running
<1>1. /\ past' = past /\ fate' = fate /\ down' = down
      /\ UNCHANGED <<connection, session, status, server>>
  BY DEF add_tracepoint, Clicks
<1>2. PICK a \in Addrs :
         /\ ~Live(ctx, a)
         /\ Becomes(send([ctx EXCEPT !.tps[a] = [name |-> n, has_fields |-> FALSE],
                                     !.perf_tracepoints = Append(ctx.perf_tracepoints, a),
                                     !.names[n] = a,
                                     !.uuids = ctx.uuids \cup {a}],
                         [req |-> "info", uuid |-> a]))
  BY DEF add_tracepoint
<1> DEFINE x == [name |-> n, has_fields |-> FALSE]
           t == [ctx.tps EXCEPT ![a] = x]
           l == Append(ctx.perf_tracepoints, a)
           ns == [ctx.names EXCEPT ![n] = a]
           us == ctx.uuids \cup {a}
           r == [req |-> "info", uuid |-> a]
           e == <<>>
           o == Append(e, r)
           c == [ctx EXCEPT !.tps = t, !.perf_tracepoints = l, !.names = ns, !.uuids = us, !.out = o]
<1>3. Becomes(c)
  <2>1. send([ctx EXCEPT !.tps[a] = [name |-> n, has_fields |-> FALSE],
                         !.perf_tracepoints = Append(ctx.perf_tracepoints, a),
                         !.names[n] = a, !.uuids = ctx.uuids \cup {a}],
             [req |-> "info", uuid |-> a]) = c
    BY <1>0 DEF send, Ctx
  <2> QED
    BY <1>2, <2>1
<1>4. x \in Tps /\ ~x.has_fields /\ x # None
  <2>1. x \in Tps
    BY DEF Tps
  <2>2. ~x.has_fields
    OBVIOUS
  <2>3. None \notin Tps
    BY ClientAssumption DEF Tps
  <2> HIDE DEF x
  <2> QED
    BY <2>1, <2>2, <2>3
<1> HIDE DEF x
<1>5. /\ t \in [Addrs -> Tps \cup {None}] /\ t[a] = x /\ \A b \in Addrs : b # a => t[b] = ctx.tps[b]
      /\ ns \in [Names -> Addrs \cup {None}] /\ us \in SUBSET Addrs
  <2>1. /\ ctx.tps \in [Addrs -> Tps \cup {None}] /\ ctx.names \in [Names -> Addrs \cup {None}]
        /\ ctx.uuids \in SUBSET Addrs
    BY <1>0 DEF Ctx
  <2>2. t \in [Addrs -> Tps \cup {None}] /\ t[a] = x /\ \A b \in Addrs : b # a => t[b] = ctx.tps[b]
    BY <1>4, <2>1
  <2>3. ns \in [Names -> Addrs \cup {None}]
    BY <2>1
  <2> QED
    BY <2>1, <2>2, <2>3
<1>6. r \in Reqs /\ r.req = "info" /\ r.uuid = a
  BY DEF Reqs
<1>7. e \in Seq(Reqs) /\ e = ctx.out
  BY <1>0
<1>8. /\ l \in Seq(Addrs) /\ Len(l) = Len(ctx.perf_tracepoints) + 1 /\ l[Len(ctx.perf_tracepoints) + 1] = a
      /\ \A i \in 1..Len(ctx.perf_tracepoints) : l[i] = ctx.perf_tracepoints[i]
      /\ Len(ctx.perf_tracepoints) \in Nat
  <2>1. ctx.perf_tracepoints \in Seq(Addrs)
    BY <1>0 DEF Ctx
  <2> QED
    BY <2>1
<1>9. Range(l) = Range(ctx.perf_tracepoints) \cup {a}
  <2>1. ctx.perf_tracepoints \in Seq(Addrs)
    BY <1>0 DEF Ctx
  <2> QED
    BY <2>1, RangeAppend
<1> HIDE DEF r, e
<1>10. o \in Seq(Reqs)
  BY <1>6, <1>7
<1>11. ASSUME NEW u \in Seq(Reqs)
       PROVE  u \o o = Append(u, r)
  <2>1. u \o o = Append(u \o e, r)
    BY <1>6, <1>7, AppendAfter
  <2>2. u \o e = u
    BY DEF e
  <2> QED
    BY <2>1, <2>2
<1>12. ASSUME NEW S \in SUBSET StreamSet
       PROVE  HandledAll(S, o) = S
  <2>1. HandledAll(S, o) = Handled(HandledAll(S, e), r)
    BY <1>6, <1>7, HandledAppend
  <2>2. HandledAll(S, e) = S
    BY HandledNone DEF e
  <2> QED
    BY <1>6, <2>1, <2>2 DEF Handled
<1> HIDE DEF t, l, ns, us, o
<1>13. /\ c \in Ctx /\ c.tps = t /\ c.perf_tracepoints = l /\ c.out = o
       /\ c.uuids = us /\ c.data = ctx.data
       /\ c.stream_id = ctx.stream_id /\ c.id = ctx.id /\ c.next = ctx.next /\ c.prev = ctx.prev
       /\ c.table = ctx.table /\ c.is_sampling = ctx.is_sampling
       /\ c.features = ctx.features /\ c.metric_set = ctx.metric_set
  BY <1>0, <1>5, <1>8, <1>10 DEF Ctx
<1> HIDE DEF c
<1>14. \A b \in Addrs : Live(c, b) <=> (Live(ctx, b) \/ b = a)
  BY <1>4, <1>5, <1>13 DEF Live
<1>15. Track(c)
  <2>1. a \notin Range(ctx.perf_tracepoints)
    BY <1>0, <1>2 DEF Track
  <2>2. \A i \in 1..Len(ctx.perf_tracepoints) : ctx.perf_tracepoints[i] # a
    <3>1. ctx.perf_tracepoints \in Seq(Addrs)
      BY <1>0 DEF Ctx
    <3> QED
      BY <2>1, <3>1 DEF Range
  <2>3. \A i \in 1..Len(l) : (i \in 1..Len(ctx.perf_tracepoints) /\ l[i] = ctx.perf_tracepoints[i])
                             \/ (i = Len(ctx.perf_tracepoints) + 1 /\ l[i] = a)
    BY <1>8
  <2>4. Once(l)
    <3> SUFFICES ASSUME NEW i \in 1..Len(l), NEW j \in 1..Len(l), l[i] = l[j]
                 PROVE  i = j
      BY DEF Once
    <3>1. Once(ctx.perf_tracepoints)
      BY <1>0 DEF Track
    <3> QED
      BY <2>2, <2>3, <3>1 DEF Once
  <2> QED
    BY <1>0, <1>9, <1>13, <1>14, <2>4 DEF Track
<1>16. Held(c, past)
  BY <1>0, <1>13, <1>14 DEF Held, us, Ctx
<1>17. session = None => Before(c, past)
  BY <1>0, <1>13 DEF InPlace, Before
<1>18. \A S \in SUBSET StreamSet : After(S, c) = S
  BY <1>12, <1>13 DEF After
<1>19. ASSUME session # None, NEW u \in Seq(Reqs), AskedOnce(u, down[session], ctx.tps)
       PROVE  AskedOnce(u \o c.out, down[session], c.tps) /\ AskedOnce(u, down[session], c.tps)
  <2>1. down[session] \in Seq(Msgs)
    BY <1>0, <1>19 DEF NetType
  <2>2. ctx.tps[a] = None /\ Waits(t, a)
    BY <1>2, <1>4, <1>5 DEF Live, Waits
  <2>3. AskedOnce(Append(u, r), down[session], t) /\ AskedOnce(u, down[session], t)
    BY <1>5, <1>6, <1>19, <2>1, <2>2, AskedNew
  <2> QED
    BY <1>11, <1>13, <2>3
<1>20. down \in [Conns -> Seq(Msgs)]
  BY <1>0 DEF NetType
<1>21. Handles(ctx, c, past, past, down, down)
  <2>1. \A b \in Addrs : Live(ctx, b) => Live(c, b)
    BY <1>14
  <2> QED
    BY <1>13, <1>15, <1>16, <1>17, <1>18, <1>19, <1>20, <2>1, SameHandles
<1>22. Handles(ctx, c, past, past', down, down')
  BY <1>1, <1>21
<1>23. EndsOnlyAfter'
  BY <1>1 DEF EndsOnlyAfter
<1> QED
  BY <1>1, <1>3, <1>13, <1>22, <1>23, HandlerStep DEF Becomes

\* A step of the network or of the server: the context stays.
LEMMA NetStep ==
    ASSUME CInv, fate = "runs", UNCHANGED <<ctx, session, fate>>, past \subseteq past',
           past' \subseteq past \cup {"cut"}, NetType', Idle', Current', Streamed', Asked'
    PROVE  CInv'
<1>0. Tidy(ctx) /\ Shape(ctx, past) /\ InPlace /\ Held(ctx, past)
  BY DEF CInv, Running
<1>1. Tidy(ctx') /\ Shape(ctx', past')
  BY <1>0 DEF Shape
<1>2. InPlace' /\ Held(ctx', past')
  BY <1>0 DEF InPlace, Before, During, Held
<1>3. EndsOnlyAfter'
  BY DEF EndsOnlyAfter
<1> QED
  BY <1>1, <1>2, <1>3 DEF CInv, Running

\* A message that tells no fields is sent.
LEMMA AskedAppend ==
    ASSUME NEW u \in Seq(Reqs), NEW d \in Seq(Msgs), NEW tps, AskedOnce(u, d, tps),
           NEW m \in Msgs, m.msg # "info"
    PROVE  AskedOnce(u, Append(d, m), tps)
<1> DEFINE e == Append(d, m)
<1>1. e \in Seq(Msgs) /\ Len(d) \in Nat /\ Len(e) = Len(d) + 1
  OBVIOUS
<1>2. e[Len(d) + 1] = m /\ \A i \in 1..Len(d) : e[i] = d[i]
  OBVIOUS
<1> HIDE DEF e
<1>3. \A i \in 1..Len(e) : e[i].msg = "info" => i \in 1..Len(d) /\ e[i] = d[i]
  BY <1>1, <1>2
<1>4. AskedOnce(u, e, tps)
  BY <1>3 DEF AskedOnce
<1> QED
  BY <1>4 DEF e

\* A request is handled.
LEMMA AskedTail ==
    ASSUME NEW u \in Seq(Reqs), NEW d \in Seq(Msgs), NEW tps, AskedOnce(u, d, tps), u # <<>>
    PROVE  Tail(u) \in Seq(Reqs) /\ AskedOnce(Tail(u), d, tps)
<1> DEFINE v == Tail(u)
<1>1. v \in Seq(Reqs) /\ Len(u) \in Nat /\ Len(u) >= 1 /\ Len(v) = Len(u) - 1
  OBVIOUS
<1>2. \A i \in 1..Len(v) : v[i] = u[i + 1] /\ i + 1 \in 1..Len(u)
  BY <1>1
<1> HIDE DEF v
<1>3. \A i \in 1..Len(v) : \A j \in 1..Len(v) : i + 1 = j + 1 => i = j
  BY <1>1
<1>4. AskedOnce(v, d, tps)
  <2>1. \A i \in 1..Len(v) : v[i].req = "info" => Waits(tps, v[i].uuid)
    BY <1>2 DEF AskedOnce
  <2>2. \A i \in 1..Len(v) : \A j \in 1..Len(v) :
          (v[i].req = "info" /\ v[j].req = "info" /\ v[i].uuid = v[j].uuid) => i = j
    <3> SUFFICES ASSUME NEW i \in 1..Len(v), NEW j \in 1..Len(v),
                        v[i].req = "info" /\ v[j].req = "info" /\ v[i].uuid = v[j].uuid
                 PROVE  i = j
      OBVIOUS
    <3>1. i + 1 \in 1..Len(u) /\ j + 1 \in 1..Len(u) /\ v[i] = u[i + 1] /\ v[j] = u[j + 1]
      BY <1>2
    <3>2. i + 1 = j + 1
      BY <3>1 DEF AskedOnce
    <3> QED
      BY <1>3, <3>2
  <2>3. \A i \in 1..Len(v) : \A j \in 1..Len(d) :
          (v[i].req = "info" /\ d[j].msg = "info") => v[i].uuid # d[j].uuid
    <3> SUFFICES ASSUME NEW i \in 1..Len(v), NEW j \in 1..Len(d), v[i].req = "info", d[j].msg = "info"
                 PROVE  v[i].uuid # d[j].uuid
      OBVIOUS
    <3>1. i + 1 \in 1..Len(u) /\ v[i] = u[i + 1]
      BY <1>2
    <3> QED
      BY <3>1 DEF AskedOnce
  <2>4. /\ \A i \in 1..Len(d) : d[i].msg = "info" => Waits(tps, d[i].uuid)
        /\ \A i \in 1..Len(d) : \A j \in 1..Len(d) :
             (d[i].msg = "info" /\ d[j].msg = "info" /\ d[i].uuid = d[j].uuid) => i = j
    BY DEF AskedOnce
  <2> QED
    BY <2>1, <2>2, <2>3, <2>4 DEF AskedOnce
<1> QED
  BY <1>1, <1>4 DEF v

\* The server tells the fields it was asked for.
LEMMA AskedTold ==
    ASSUME NEW u \in Seq(Reqs), NEW d \in Seq(Msgs), NEW tps, AskedOnce(u, d, tps), u # <<>>,
           u[1].req = "info", NEW m \in Msgs, m.msg = "info", m.uuid = u[1].uuid
    PROVE  AskedOnce(Tail(u), Append(d, m), tps)
<1> DEFINE v == Tail(u)
           e == Append(d, m)
<1>1. v \in Seq(Reqs) /\ Len(u) \in Nat /\ Len(u) >= 1 /\ Len(v) = Len(u) - 1
  OBVIOUS
<1>2. \A i \in 1..Len(v) : v[i] = u[i + 1] /\ i + 1 \in 1..Len(u) /\ i + 1 # 1
  BY <1>1
<1>3. AskedOnce(v, d, tps)
  BY AskedTail
<1>4. e \in Seq(Msgs) /\ Len(d) \in Nat /\ Len(e) = Len(d) + 1
  OBVIOUS
<1>5. e[Len(d) + 1] = m /\ \A i \in 1..Len(d) : e[i] = d[i]
  OBVIOUS
<1>6. 1 \in 1..Len(u)
  BY <1>1
<1> HIDE DEF v, e
<1>7. \A i \in 1..Len(e) : (i \in 1..Len(d) /\ e[i] = d[i]) \/ (i = Len(d) + 1 /\ e[i] = m)
  BY <1>4, <1>5
<1>8. ASSUME NEW i \in 1..Len(v), v[i].req = "info"
      PROVE  v[i].uuid # m.uuid
  BY <1>2, <1>6, <1>8 DEF AskedOnce
<1>9. ASSUME NEW i \in 1..Len(d), d[i].msg = "info"
      PROVE  d[i].uuid # m.uuid
  BY <1>6, <1>9 DEF AskedOnce
<1>10. Waits(tps, m.uuid)
  BY <1>6 DEF AskedOnce
<1>11. AskedOnce(v, e, tps)
  <2>1. \A i \in 1..Len(e) : e[i].msg = "info" => Waits(tps, e[i].uuid)
    BY <1>3, <1>7, <1>10 DEF AskedOnce
  <2>2. \A i \in 1..Len(e) : \A j \in 1..Len(e) :
          (e[i].msg = "info" /\ e[j].msg = "info" /\ e[i].uuid = e[j].uuid) => i = j
    <3> SUFFICES ASSUME NEW i \in 1..Len(e), NEW j \in 1..Len(e),
                        e[i].msg = "info" /\ e[j].msg = "info" /\ e[i].uuid = e[j].uuid
                 PROVE  i = j
      OBVIOUS
    <3>1. (i \in 1..Len(d) /\ e[i] = d[i]) \/ (i = Len(d) + 1 /\ e[i] = m)
      BY <1>7
    <3>2. (j \in 1..Len(d) /\ e[j] = d[j]) \/ (j = Len(d) + 1 /\ e[j] = m)
      BY <1>7
    <3>3. CASE i \in 1..Len(d) /\ e[i] = d[i] /\ j \in 1..Len(d) /\ e[j] = d[j]
      BY <3>3 DEF AskedOnce
    <3>4. CASE i \in 1..Len(d) /\ e[i] = d[i] /\ j = Len(d) + 1 /\ e[j] = m
      BY <1>9, <3>4
    <3>5. CASE j \in 1..Len(d) /\ e[j] = d[j] /\ i = Len(d) + 1 /\ e[i] = m
      BY <1>9, <3>5
    <3>6. CASE i = Len(d) + 1 /\ j = Len(d) + 1
      BY <3>6
    <3> QED
      BY <3>1, <3>2, <3>3, <3>4, <3>5, <3>6
  <2>3. \A i \in 1..Len(v) : \A j \in 1..Len(e) :
          (v[i].req = "info" /\ e[j].msg = "info") => v[i].uuid # e[j].uuid
    BY <1>3, <1>7, <1>8 DEF AskedOnce
  <2>4. /\ \A i \in 1..Len(v) : v[i].req = "info" => Waits(tps, v[i].uuid)
        /\ \A i \in 1..Len(v) : \A j \in 1..Len(v) :
             (v[i].req = "info" /\ v[j].req = "info" /\ v[i].uuid = v[j].uuid) => i = j
    BY <1>3 DEF AskedOnce
  <2> QED
    BY <2>1, <2>2, <2>3, <2>4 DEF AskedOnce
<1> QED
  BY <1>11 DEF v, e

\* reconnect()
LEMMA ReconnectStep ==
    ASSUME CInv, fate = "runs", reconnect
    PROVE  CInv'
<1>0. NetType /\ Idle /\ Current /\ Streamed /\ Asked
  BY DEF CInv, Running
<1>1. PICK k \in Conns :
        /\ status[k] = "none"
        /\ status' = [IF connection # None THEN Closed(status, connection)
                      ELSE status EXCEPT ![k] = "connecting"]
        /\ connection' = k
        /\ UNCHANGED <<ctx, session, up, down, server, fate, clicks, past>>
  BY DEF reconnect
<1>2. /\ status \in [Conns -> Statuses] /\ connection \in Conns \cup {None}
      /\ session \in Conns \cup {None} /\ None \notin Conns
  BY <1>0, ClientAssumption DEF NetType, Conns
<1>3. /\ status' \in [Conns -> Statuses] /\ status'[k] = "connecting"
      /\ \A j \in Conns : j # k =>
           \/ status'[j] = status[j] /\ ~(j = connection /\ status[j] = "open")
           \/ status[j] = "connecting" /\ status'[j] = "cancelled"
           \/ status[j] = "open" /\ status'[j] = "closing"
  <2>1. CASE connection = None
    <3>1. status' = [status EXCEPT ![k] = "connecting"]
      BY <1>1, <2>1
    <3> QED
      BY <1>2, <2>1, <3>1 DEF Statuses
  <2>2. CASE connection # None
    <3>1. PICK n \in Conns : n = connection
      BY <1>2, <2>2
    <3> DEFINE x == CASE status[n] = "connecting" -> "cancelled"
                      [] status[n] = "open" -> "closing"
                      [] OTHER -> status[n]
               st == [status EXCEPT ![n] = x]
    <3>2. Closed(status, connection) = st
      BY <3>1 DEF Closed
    <3>3. status' = [st EXCEPT ![k] = "connecting"]
      BY <1>1, <2>2, <3>2
    <3>4. /\ x \in Statuses
          /\ \/ x = status[n] /\ status[n] # "open"
             \/ status[n] = "connecting" /\ x = "cancelled"
             \/ status[n] = "open" /\ x = "closing"
      BY <1>2 DEF Statuses
    <3> HIDE DEF x
    <3>5. st \in [Conns -> Statuses] /\ st[n] = x /\ \A j \in Conns : j # n => st[j] = status[j]
      BY <1>2, <3>4
    <3> HIDE DEF st
    <3>6. /\ status' \in [Conns -> Statuses] /\ status'[k] = "connecting"
          /\ \A j \in Conns : j # k => status'[j] = st[j]
      BY <3>3, <3>5 DEF Statuses
    <3> QED
      BY <3>1, <3>4, <3>5, <3>6
  <2> QED
    BY <2>1, <2>2
<1>4. \A j \in Conns : /\ status'[j] = "open" => status[j] = "open" /\ j # connection /\ j # k
                       /\ status[j] \in {"open", "closing"} => status'[j] \in {"open", "closing"}
                       /\ status'[j] = "closing" => status[j] \in {"open", "closing"}
  BY <1>1, <1>3
<1>5. NetType'
  BY <1>0, <1>1, <1>3 DEF NetType
<1>6. Idle'
  BY <1>0, <1>1, <1>4 DEF Idle
<1>7. Current'
  BY <1>0, <1>1, <1>4 DEF Current
<1>8. Streamed'
  <2> SUFFICES ASSUME InSession', "cut" \notin past'
               PROVE  Matched(ctx', Settled', past')
    BY DEF Streamed
  <2>1. session \in Conns /\ status'[session] = "open" /\ session # None
    BY <1>1, <1>2 DEF InSession
  <2>2. InSession
    BY <1>4, <2>1 DEF InSession
  <2> QED
    BY <1>0, <1>1, <2>2 DEF Streamed, Settled
<1>9. Asked'
  BY <1>0, <1>1 DEF Asked
<1> QED
  BY <1>1, <1>5, <1>6, <1>7, <1>8, <1>9, NetStep

\* A connection is left for good.
LEMMA LeftStep ==
    ASSUME CInv, fate = "runs", UNCHANGED <<ctx, session, fate>>, NEW k \in Conns, NEW x \in {"gone", "lost"},
           status' = [status EXCEPT ![k] = x],
           up' = [up EXCEPT ![k] = <<>>], down' = [down EXCEPT ![k] = <<>>],
           server' = [server EXCEPT ![k] = {}], past \subseteq past', past' \subseteq past \cup {"cut"},
           connection' \in {connection, None},
           connection' = connection \/ (session # None /\ status'[session] = "open" => "cut" \in past')
    PROVE  CInv'
<1>0. NetType /\ Idle /\ Current /\ Streamed /\ Asked
  BY DEF CInv, Running
<1>1. /\ status \in [Conns -> Statuses] /\ connection \in Conns \cup {None}
      /\ session \in Conns \cup {None} /\ None \notin Conns
      /\ up \in [Conns -> Seq(Reqs)] /\ down \in [Conns -> Seq(Msgs)]
      /\ server \in [Conns -> SUBSET StreamSet]
  BY <1>0, ClientAssumption DEF NetType, Conns
<1> DEFINE e == <<>>
<1>2. e \in Seq(Reqs) /\ e \in Seq(Msgs) /\ Len(e) = 0
  OBVIOUS
<1>3. up' = [up EXCEPT ![k] = e] /\ down' = [down EXCEPT ![k] = e]
  OBVIOUS
<1> HIDE DEF e
<1>4. /\ status' \in [Conns -> Statuses] /\ up' \in [Conns -> Seq(Reqs)]
      /\ down' \in [Conns -> Seq(Msgs)] /\ server' \in [Conns -> SUBSET StreamSet]
      /\ status'[k] = x /\ up'[k] = e /\ down'[k] = e /\ server'[k] = {}
      /\ \A j \in Conns : j # k => /\ status'[j] = status[j] /\ up'[j] = up[j]
                                   /\ down'[j] = down[j] /\ server'[j] = server[j]
  <2>1. status' \in [Conns -> Statuses] /\ status'[k] = x /\ \A j \in Conns : j # k => status'[j] = status[j]
    BY <1>1 DEF Statuses
  <2>2. up' \in [Conns -> Seq(Reqs)] /\ up'[k] = e /\ \A j \in Conns : j # k => up'[j] = up[j]
    BY <1>1, <1>2, <1>3
  <2>3. down' \in [Conns -> Seq(Msgs)] /\ down'[k] = e /\ \A j \in Conns : j # k => down'[j] = down[j]
    BY <1>1, <1>2, <1>3
  <2>4. /\ server' \in [Conns -> SUBSET StreamSet] /\ server'[k] = {}
        /\ \A j \in Conns : j # k => server'[j] = server[j]
    BY <1>1
  <2> QED
    BY <2>1, <2>2, <2>3, <2>4
<1>5. NetType'
  BY <1>1, <1>4 DEF NetType
<1>6. Idle'
  BY <1>0, <1>4 DEF Idle, e
<1>7. Current'
  <2> SUFFICES ASSUME NEW j \in Conns
               PROVE  /\ (status'[j] = "open" /\ connection' = j) => session = j
                      /\ (status'[j] = "open" /\ session = j /\ "cut" \notin past') => connection' = j
                      /\ session = None => status'[j] \notin {"open", "closing"}
    BY DEF Current
  <2>1. CASE j = k
    BY <1>4, <2>1
  <2>2. CASE j # k
    <3>1. status'[j] = status[j]
      BY <1>4, <2>2
    <3>2. (status[j] = "open" /\ connection' = j) => session = j
      BY <1>0, <1>1 DEF Current
    <3>3. (status[j] = "open" /\ session = j /\ "cut" \notin past') => connection' = j
      BY <1>0, <1>1, <3>1 DEF Current
    <3>4. session = None => status[j] \notin {"open", "closing"}
      BY <1>0 DEF Current
    <3> QED
      BY <3>1, <3>2, <3>3, <3>4
  <2> QED
    BY <2>1, <2>2
<1>8. Streamed'
  <2> SUFFICES ASSUME InSession', "cut" \notin past'
               PROVE  Matched(ctx', Settled', past')
    BY DEF Streamed
  <2>1. session \in Conns /\ status'[session] = "open" /\ session # None
    BY <1>1 DEF InSession
  <2>2. session # k
    BY <1>4, <2>1
  <2>3. InSession /\ "cut" \notin past
    BY <1>4, <2>1, <2>2 DEF InSession
  <2>4. Settled' = Settled
    BY <1>4, <2>1, <2>2 DEF Settled
  <2>5. Matched(ctx, Settled, past)
    BY <1>0, <2>3 DEF Streamed
  <2> QED
    BY <2>4, <2>5 DEF Matched
<1>9. Asked'
  <2> SUFFICES ASSUME session # None, past' \cap {"removed", "mixed"} = {}
               PROVE  AskedOnce(up'[session], down'[session], ctx'.tps)
    BY DEF Asked
  <2>1. session \in Conns
    BY <1>1
  <2>2. CASE session = k
    <3>1. up'[session] = e /\ down'[session] = e
      BY <1>4, <2>2
    <3>2. \A i \in 1..Len(e) : FALSE
      BY <1>2
    <3> QED
      BY <3>1, <3>2 DEF AskedOnce
  <2>3. CASE session # k
    <3>1. up'[session] = up[session] /\ down'[session] = down[session]
      BY <1>4, <2>1, <2>3
    <3>2. AskedOnce(up[session], down[session], ctx.tps)
      BY <1>0 DEF Asked
    <3> QED
      BY <3>1, <3>2
  <2> QED
    BY <2>2, <2>3
<1> QED
  BY <1>5, <1>6, <1>7, <1>8, <1>9, NetStep

\* on_connection_closed()
LEMMA ClosedStep ==
    ASSUME CInv, fate = "runs", on_connection_closed
    PROVE  CInv'
<1>1. PICK k \in Conns :
        /\ status' = [status EXCEPT ![k] = "gone"] /\ connection' = None
        /\ up' = [up EXCEPT ![k] = <<>>] /\ down' = [down EXCEPT ![k] = <<>>]
        /\ server' = [server EXCEPT ![k] = {}]
        /\ past' = IF session # None /\ status'[session] = "open" THEN past \cup {"cut"} ELSE past
        /\ UNCHANGED <<ctx, session, fate, clicks>>
  BY DEF on_connection_closed
<1>2. /\ past \subseteq past' /\ past' \subseteq past \cup {"cut"}
      /\ session # None /\ status'[session] = "open" => "cut" \in past'
  BY <1>1
<1>3. UNCHANGED <<ctx, session, fate>>
  BY <1>1
<1>4. connection' \in {connection, None}
  BY <1>1
<1>5. PICK x \in {"gone", "lost"} : x = "gone"
  OBVIOUS
<1>6. status' = [status EXCEPT ![k] = x]
  BY <1>1, <1>5
<1> QED
  BY <1>1, <1>2, <1>3, <1>4, <1>6, LeftStep

\* A connection is lost.
LEMMA LostStep ==
    ASSUME CInv, fate = "runs", NEW k \in Conns, ConnectionLost(k)
    PROVE  CInv'
<1>1. /\ status' = [status EXCEPT ![k] = "lost"]
      /\ up' = [up EXCEPT ![k] = <<>>] /\ down' = [down EXCEPT ![k] = <<>>]
      /\ server' = [server EXCEPT ![k] = {}]
      /\ UNCHANGED <<ctx, connection, session, fate, clicks, past>>
  BY DEF ConnectionLost
<1>3. UNCHANGED <<ctx, session, fate>> /\ past \subseteq past' /\ past' \subseteq past \cup {"cut"}
  BY <1>1
<1>4. connection' \in {connection, None} /\ connection' = connection
  BY <1>1
<1>5. PICK x \in {"gone", "lost"} : x = "lost"
  OBVIOUS
<1>6. status' = [status EXCEPT ![k] = x]
  BY <1>1, <1>5
<1> QED
  BY <1>1, <1>3, <1>4, <1>6, LeftStep

\* A step of the server on the connection k.
LEMMA ServedStep ==
    ASSUME CInv, fate = "runs", NEW k \in Conns, ServerStep(k),
           NEW u \in Seq(Reqs), NEW d \in Seq(Msgs), NEW S \in SUBSET StreamSet,
           up' = [up EXCEPT ![k] = u], down' = [down EXCEPT ![k] = d], server' = [server EXCEPT ![k] = S],
           HandledAll(S, u) = HandledAll(server[k], up[k]),
           AskedOnce(up[k], down[k], ctx.tps) => AskedOnce(u, d, ctx.tps)
    PROVE  CInv'
<1>0. NetType /\ Idle /\ Current /\ Streamed /\ Asked
  BY DEF CInv, Running
<1>1. /\ status[k] \in {"open", "closing"}
      /\ UNCHANGED <<ctx, connection, session, status, fate, clicks, past>>
  BY DEF ServerStep
<1>2. /\ session \in Conns \cup {None}
      /\ up \in [Conns -> Seq(Reqs)] /\ down \in [Conns -> Seq(Msgs)]
      /\ server \in [Conns -> SUBSET StreamSet]
  BY <1>0 DEF NetType
<1>3. /\ up' \in [Conns -> Seq(Reqs)] /\ up'[k] = u /\ \A j \in Conns : j # k => up'[j] = up[j]
      /\ down' \in [Conns -> Seq(Msgs)] /\ down'[k] = d /\ \A j \in Conns : j # k => down'[j] = down[j]
      /\ server' \in [Conns -> SUBSET StreamSet] /\ server'[k] = S
      /\ \A j \in Conns : j # k => server'[j] = server[j]
  <2>1. up' \in [Conns -> Seq(Reqs)] /\ up'[k] = u /\ \A j \in Conns : j # k => up'[j] = up[j]
    BY <1>2
  <2>2. down' \in [Conns -> Seq(Msgs)] /\ down'[k] = d /\ \A j \in Conns : j # k => down'[j] = down[j]
    BY <1>2
  <2>3. /\ server' \in [Conns -> SUBSET StreamSet] /\ server'[k] = S
        /\ \A j \in Conns : j # k => server'[j] = server[j]
    BY <1>2
  <2> QED
    BY <2>1, <2>2, <2>3
<1>4. NetType'
  BY <1>0, <1>1, <1>3 DEF NetType
<1>5. Idle'
  <2> SUFFICES ASSUME NEW j \in Conns, status[j] \notin {"open", "closing"}
               PROVE  up'[j] = <<>> /\ down'[j] = <<>> /\ server'[j] = {}
    BY <1>1 DEF Idle
  <2>1. j # k
    BY <1>1
  <2> QED
    BY <1>0, <1>3, <2>1 DEF Idle
<1>6. Current'
  BY <1>0, <1>1 DEF Current
<1>7. Streamed'
  <2> SUFFICES ASSUME InSession', "cut" \notin past'
               PROVE  Matched(ctx', Settled', past')
    BY DEF Streamed
  <2>1. InSession /\ "cut" \notin past /\ session \in Conns
    BY <1>1, <1>2 DEF InSession
  <2>2. Settled' = Settled
    <3>1. CASE session = k
      BY <1>1, <1>3, <3>1 DEF Settled
    <3>2. CASE session # k
      BY <1>1, <1>3, <2>1, <3>2 DEF Settled
    <3> QED
      BY <3>1, <3>2
  <2>3. Matched(ctx, Settled, past)
    BY <1>0, <2>1 DEF Streamed
  <2> QED
    BY <1>1, <2>2, <2>3
<1>8. Asked'
  <2> SUFFICES ASSUME session # None, past' \cap {"removed", "mixed"} = {}
               PROVE  AskedOnce(up'[session], down'[session], ctx'.tps)
    BY <1>1 DEF Asked
  <2>1. session \in Conns /\ AskedOnce(up[session], down[session], ctx.tps)
    BY <1>0, <1>1, <1>2 DEF Asked
  <2>2. CASE session = k
    BY <1>1, <1>3, <2>1, <2>2
  <2>3. CASE session # k
    BY <1>1, <1>3, <2>1, <2>3
  <2> QED
    BY <2>2, <2>3
<1> QED
  BY <1>1, <1>4, <1>5, <1>6, <1>7, <1>8, NetStep

\* The server handles a request.
LEMMA RequestStep ==
    ASSUME CInv, fate = "runs", NEW k \in Conns, ServerRequest(k)
    PROVE  CInv'
<1>0. /\ up \in [Conns -> Seq(Reqs)] /\ down \in [Conns -> Seq(Msgs)]
      /\ server \in [Conns -> SUBSET StreamSet]
      /\ up[k] \in Seq(Reqs) /\ down[k] \in Seq(Msgs) /\ server[k] \in SUBSET StreamSet
  BY DEF CInv, Running, NetType
<1> DEFINE u == up[k]
           r == up[k][1]
           v == Tail(up[k])
           S == Handled(server[k], r)
<1>1. /\ ServerStep(k) /\ u # <<>> /\ up' = [up EXCEPT ![k] = v]
      /\ CASE r.req = "features" -> Answer(k, [msg |-> "features"]) /\ UNCHANGED server
           [] r.req = "info" -> Answer(k, [msg |-> "info", uuid |-> r.uuid]) /\ UNCHANGED server
           [] r.req = "open" ->
                /\ server' = [server EXCEPT ![k] = server[k] \cup {[id |-> r.id, stream |-> r.stream]}]
                /\ UNCHANGED down
           [] r.req = "close" ->
                LET closed == {s \in server[k] : s.id = r.id} IN
                /\ server' = [server EXCEPT ![k] = server[k] \ closed]
                /\ IF closed = {} THEN UNCHANGED down
                   ELSE Answer(k, [msg |-> "notify", id |-> r.id])
  BY DEF ServerRequest
<1>2. r \in Reqs /\ v \in Seq(Reqs)
  BY <1>0, <1>1
<1>3. S \in SUBSET StreamSet
  BY <1>0, <1>2, HandledType
<1>4. HandledAll(S, v) = HandledAll(server[k], u)
  BY <1>0, <1>1, HandledFirst
<1>5. AskedOnce(u, down[k], ctx.tps) => AskedOnce(v, down[k], ctx.tps)
  BY <1>0, <1>1, AskedTail
<1>6. server' = [server EXCEPT ![k] = S] /\ (r.req # "info" => down' = down \/
        \E m \in Msgs : m.msg # "info" /\ down' = [down EXCEPT ![k] = Append(down[k], m)])
  <2> HIDE DEF r, u, v
  <2>1. r.req \in {"features", "info", "open", "close"}
    BY <1>2 DEF Reqs
  <2>2. CASE r.req = "features"
    <3> DEFINE m == [msg |-> "features"]
    <3>1. m \in Msgs /\ m.msg # "info"
      BY DEF Msgs
    <3>2. down' = [down EXCEPT ![k] = Append(down[k], m)] /\ server' = server
      BY <1>1, <2>2 DEF Answer
    <3>3. S = server[k]
      BY <2>2 DEF Handled
    <3> QED
      BY <1>0, <3>1, <3>2, <3>3
  <2>3. CASE r.req = "info"
    <3>1. server' = server
      BY <1>1, <2>3
    <3>2. S = server[k]
      BY <2>3 DEF Handled
    <3> QED
      BY <1>0, <2>3, <3>1, <3>2
  <2>4. CASE r.req = "open"
    BY <1>1, <2>4 DEF Handled
  <2>5. CASE r.req = "close"
    <3> DEFINE closed == {s \in server[k] : s.id = r.id}
               m == [msg |-> "notify", id |-> r.id]
    <3>1. S = server[k] \ closed
      BY <2>5 DEF Handled
    <3>2. /\ server' = [server EXCEPT ![k] = server[k] \ closed]
          /\ IF closed = {} THEN down' = down ELSE down' = [down EXCEPT ![k] = Append(down[k], m)]
      BY <1>1, <2>5 DEF Answer
    <3>3. r.id \in Nat
      BY <1>2, <2>5 DEF Reqs
    <3>4. m \in Msgs /\ m.msg # "info"
      BY <3>3 DEF Msgs
    <3> HIDE DEF closed, m
    <3> QED
      BY <2>5, <3>1, <3>2, <3>4
  <2> QED
    BY <2>1, <2>2, <2>3, <2>4, <2>5
<1>7. CASE r.req = "info"
  <2> DEFINE m == [msg |-> "info", uuid |-> r.uuid]
             d == Append(down[k], m)
  <2>1. down' = [down EXCEPT ![k] = d]
    BY <1>1, <1>7 DEF Answer
  <2>2. r.uuid \in Addrs
    <3> HIDE DEF r
    <3> QED
      BY <1>2, <1>7 DEF Reqs
  <2>3. m \in Msgs /\ m.msg = "info" /\ m.uuid = r.uuid
    BY <2>2 DEF Msgs
  <2> HIDE DEF m
  <2>4. d \in Seq(Msgs)
    BY <1>0, <2>3
  <2>5. AskedOnce(u, down[k], ctx.tps) => AskedOnce(v, d, ctx.tps)
    BY <1>0, <1>1, <1>7, <2>3, AskedTold
  <2> HIDE DEF d, v, S
  <2> QED
    BY <1>1, <1>2, <1>3, <1>4, <1>6, <2>1, <2>4, <2>5, ServedStep
<1>8. CASE down' = down
  <2>1. down' = [down EXCEPT ![k] = down[k]]
    BY <1>0, <1>8
  <2> HIDE DEF v, S
  <2> QED
    BY <1>0, <1>1, <1>2, <1>3, <1>4, <1>5, <1>6, <2>1, ServedStep
<1>9. ASSUME NEW m \in Msgs, m.msg # "info", down' = [down EXCEPT ![k] = Append(down[k], m)]
      PROVE  CInv'
  <2> DEFINE d == Append(down[k], m)
  <2>1. d \in Seq(Msgs)
    BY <1>0
  <2>2. AskedOnce(v, down[k], ctx.tps) => AskedOnce(v, d, ctx.tps)
    BY <1>0, <1>2, <1>9, AskedAppend
  <2>3. down' = [down EXCEPT ![k] = d]
    BY <1>9
  <2> HIDE DEF d, v, S
  <2> QED
    BY <1>1, <1>2, <1>3, <1>4, <1>5, <1>6, <2>1, <2>2, <2>3, ServedStep
<1> QED
  BY <1>6, <1>7, <1>8, <1>9

\* The server sends data of a stream.
LEMMA DataStep ==
    ASSUME CInv, fate = "runs", NEW k \in Conns, ServerData(k)
    PROVE  CInv'
<1>0. /\ up \in [Conns -> Seq(Reqs)] /\ down \in [Conns -> Seq(Msgs)]
      /\ server \in [Conns -> SUBSET StreamSet]
      /\ up[k] \in Seq(Reqs) /\ down[k] \in Seq(Msgs) /\ server[k] \in SUBSET StreamSet
  BY DEF CInv, Running, NetType
<1>1. PICK s \in server[k] : down' = [down EXCEPT ![k] = Append(down[k], [msg |-> "data", id |-> s.id])]
  BY DEF ServerData, Answer
<1>2. ServerStep(k) /\ up' = up /\ server' = server
  BY DEF ServerData
<1> DEFINE m == [msg |-> "data", id |-> s.id]
           d == Append(down[k], m)
<1>3. s.id \in Nat
  BY <1>0 DEF StreamSet
<1>4. m \in Msgs /\ m.msg # "info"
  BY <1>3 DEF Msgs
<1>5. down' = [down EXCEPT ![k] = d]
  BY <1>1
<1> HIDE DEF m
<1>6. d \in Seq(Msgs)
  BY <1>0, <1>4
<1>7. AskedOnce(up[k], down[k], ctx.tps) => AskedOnce(up[k], d, ctx.tps)
  BY <1>0, <1>4, AskedAppend
<1> HIDE DEF d
<1>8. up' = [up EXCEPT ![k] = up[k]] /\ server' = [server EXCEPT ![k] = server[k]]
  BY <1>0, <1>2
<1> QED
  BY <1>0, <1>2, <1>5, <1>6, <1>7, <1>8, ServedStep

\* The context of a new session, before its requests are sent.
NewContext(b) == reset_connection([reset_tracepoints(b) EXCEPT !.out = <<>>])

\* gputop_client_context_reset()
LEMMA ResetIs ==
    ASSUME NEW b, Tidy(b)
    PROVE  LET c == reset_tracepoints(b)
               d == NewContext(b)
           IN  /\ c.out \in Seq(Reqs) /\ NoInfo(c.out) /\ HandledAll({}, c.out) = {}
               /\ d \in Ctx /\ d.out \in Seq(Reqs) /\ NoInfo(d.out)
               /\ HandledAll({}, d.out) = {[id |-> 1, stream |-> Cpu]}
               /\ d \in InTable /\ Track(d) /\ (d.is_sampling <=> d.id[Oa] # 0)
               /\ d.stream_id = 2 /\ d.id[Cpu] = 1 /\ d.id[Oa] = b.id[Oa]
               /\ \A s \in TpStreams : d.id[s] = 0
               /\ d.uuids = {} /\ d.data = {}
               /\ ((\A s \in TpStreams : b.id[s] = 0) /\ StreamsEmptied(b)) =>
                    CpuAlone(d) /\ d.next[Oa] = b.next[Oa] /\ d.prev[Oa] = b.prev[Oa]
<1>0. b \in InTable /\ b \in Ctx /\ b.out = <<>> /\ Track(b) /\ (b.is_sampling <=> b.id[Oa] # 0)
  BY DEF Tidy, InTable
<1> DEFINE c == reset_tracepoints(b)
           e == [c EXCEPT !.out = <<>>]
           d == reset_connection(e)
<1>1. NewContext(b) = d
  BY DEF NewContext
<1>2. /\ c \in Ctx /\ c \in InTable /\ Track(c) /\ c \in Quiet /\ c \in Silent
      /\ c.is_sampling = b.is_sampling /\ ~c.features /\ ~c.metric_set
      /\ c.uuids = {} /\ c.data = {}
      /\ \A s \in TpStreams : c.id[s] = 0
      /\ \A s \in {Oa, Cpu} : c.id[s] = b.id[s]
      /\ (\A s \in TpStreams : b.id[s] = 0) =>
           c.next = EmptyStreams(b).next /\ c.prev = EmptyStreams(b).prev
  BY <1>0, ResetTpsIs
<1> HIDE DEF c
<1>3. /\ e \in Ctx /\ e.out = <<>> /\ Kept(c, e)
      /\ e.stream_id = c.stream_id /\ e.id = c.id /\ e.next = c.next /\ e.prev = c.prev
      /\ e.table = c.table
  BY <1>2, SentIs
<1> HIDE DEF e
<1>4. /\ d \in Ctx /\ Kept(e, d) /\ d.stream_id = 2 /\ d.table = e.table
      /\ d.id = [e.id EXCEPT ![Cpu] = 1]
      /\ d \in Silent
      /\ \A S \in SUBSET StreamSet : HandledAll(S, d.out) = S \cup {[id |-> 1, stream |-> Cpu]}
      /\ e.next[ListHead] = ListHead =>
           CpuAlone(d) /\ d.next[Oa] = e.next[Oa] /\ d.prev[Oa] = e.prev[Oa]
  BY <1>3, ResetConnIs
<1> HIDE DEF d
<1>5. d.id[Cpu] = 1 /\ d.id[Oa] = b.id[Oa] /\ \A s \in TpStreams : d.id[s] = 0
  <2>1. e.id \in [Streams -> Nat]
    BY <1>3 DEF Ctx
  <2> QED
    BY <1>2, <1>3, <1>4, <2>1, MainStreams
<1>6. d \in InTable
  <2>1. Tabled(c)
    BY <1>2 DEF InTable
  <2>2. Owned(d) /\ Below(d)
    BY <1>5 DEF Owned, Below
  <2>3. Tabled(d)
    BY <1>2, <1>3, <1>4, <1>5, <2>1 DEF Tabled
  <2> QED
    BY <1>4, <2>2, <2>3 DEF InTable
<1>7. Track(d) /\ (d.is_sampling <=> d.id[Oa] # 0) /\ d.uuids = {} /\ d.data = {}
  BY <1>0, <1>2, <1>3, <1>4, <1>5 DEF Kept, Track, Live
<1>8. c.out \in Seq(Reqs) /\ NoInfo(c.out) /\ HandledAll({}, c.out) = {}
  BY <1>2 DEF Ctx, Silent, Quiet, After
<1>9. d.out \in Seq(Reqs) /\ NoInfo(d.out) /\ HandledAll({}, d.out) = {[id |-> 1, stream |-> Cpu]}
  <2>1. {} \in SUBSET StreamSet
    OBVIOUS
  <2>2. HandledAll({}, d.out) = {} \cup {[id |-> 1, stream |-> Cpu]}
    BY <1>4, <2>1
  <2>3. {} \cup {[id |-> 1, stream |-> Cpu]} = {[id |-> 1, stream |-> Cpu]}
    OBVIOUS
  <2> QED
    BY <1>4, <2>2, <2>3 DEF Ctx, Silent
<1>10. ASSUME \A s \in TpStreams : b.id[s] = 0, StreamsEmptied(b)
       PROVE  CpuAlone(d) /\ d.next[Oa] = b.next[Oa] /\ d.prev[Oa] = b.prev[Oa]
  <2>1. \A x \in Nodes : x # ListHead =>
          EmptyStreams(b).next[x] = b.next[x] /\ EmptyStreams(b).prev[x] = b.prev[x]
    BY <1>0, EmptyFields
  <2>2. EmptyStreams(b).next[ListHead] = ListHead
    BY <1>10 DEF StreamsEmptied
  <2>3. e.next = EmptyStreams(b).next /\ e.prev = EmptyStreams(b).prev
    BY <1>2, <1>3, <1>10
  <2>4. e.next[ListHead] = ListHead /\ e.next[Oa] = b.next[Oa] /\ e.prev[Oa] = b.prev[Oa]
    BY <2>1, <2>2, <2>3, MainStreams
  <2> QED
    BY <1>4, <2>4
<1> QED
  BY <1>1, <1>4, <1>5, <1>6, <1>7, <1>8, <1>9, <1>10 DEF c

\* A list is not empty at the first connection only if it was used early.
LEMMA EmptyBefore ==
    ASSUME NEW c \in Ctx, NEW p, Before(c, p), Shape(c, p), "early" \notin p
    PROVE  c.next[ListHead] = ListHead
<1>1. \A s \in Streams : c.id[s] = 0
  BY MainStreams DEF Before
<1>2. OpenOf(c) = {}
  BY <1>1 DEF OpenOf
<1>3. c \in Linked
  <2>1. c \notin Stale
    BY <1>2, MainStreams DEF Stale
  <2>2. p \cap {"early", "nuked"} = {}
    BY DEF Before
  <2> QED
    BY <2>1, <2>2 DEF Shape
<1>4. PICK r \in Ranks : Ring(c.next, c.prev, {}, r)
  BY <1>2, <1>3 DEF Linked
<1> QED
  BY <1>4 DEF Ring, Path

\* A reset meets an open list, or one it never leaves, only after an early
\* change of the CPU period.
LEMMA ResetAsserts ==
    ASSUME CInv, fate = "runs", ~StreamsEmptied(ctx) \/ ~WalkEnds(EmptyStreams(ctx))
    PROVE  "early" \in past
<1>0. ctx \in Ctx /\ Shape(ctx, past) /\ InPlace
  BY DEF CInv, Tidy, InTable, Running
<1>1. EmptyStreams(ctx) \in Ctx /\ EmptyStreams(ctx).next[ListHead] # ListHead
  <2>1. EmptyStreams(ctx) \in Ctx
    BY <1>0, EmptyFields
  <2>2. EmptyStreams(ctx).next[ListHead] = ListHead => WalkEnds(EmptyStreams(ctx))
    BY <2>1, EmptyEnds
  <2> QED
    BY <2>1, <2>2 DEF StreamsEmptied
<1>2. ctx.id[Cpu] = 0
  BY <1>0, <1>1, EmptyFields
<1>3. EmptyStreams(ctx) = ctx
  BY <1>0, <1>2, EmptyFields
<1>4. session = None /\ Before(ctx, past)
  BY <1>0, <1>2 DEF InPlace, During
<1> QED
  BY <1>0, <1>1, <1>3, <1>4, EmptyBefore

\* The list of a new session.
LEMMA ResetShape ==
    ASSUME CInv, fate = "runs", StreamsEmptied(ctx), NEW e \in Ctx, NEW q,
           e.id[Cpu] = 1, e.id[Oa] = ctx.id[Oa], \A s \in TpStreams : e.id[s] = 0,
           ((\A s \in TpStreams : ctx.id[s] = 0) /\ StreamsEmptied(ctx)) =>
              CpuAlone(e) /\ e.next[Oa] = ctx.next[Oa] /\ e.prev[Oa] = ctx.prev[Oa],
           (OpenTpStreams(ctx) # {} \/ ("nuked" \in past /\ ctx.id[Oa] # 0)) => "nuked" \in q
    PROVE  Shape(e, q)
<1>0. ctx \in Ctx /\ Shape(ctx, past) /\ InPlace
  BY DEF CInv, Tidy, InTable, Running
<1> SUFFICES ASSUME "nuked" \notin q
             PROVE  e \in Linked \/ e \in Stale
  BY DEF Shape
<1>1. \A s \in TpStreams : ctx.id[s] = 0
  BY DEF OpenTpStreams, is_stream_opened
<1>2. CpuAlone(e) /\ e.next[Oa] = ctx.next[Oa] /\ e.prev[Oa] = ctx.prev[Oa]
  BY <1>1
<1>3. CASE ctx.id[Oa] = 0
  <2>1. OpenOf(e) = {Cpu}
    BY <1>3, MainStreams DEF OpenOf
  <2> QED
    BY <1>2, <2>1, AloneLinked
<1>4. CASE ctx.id[Oa] # 0
  <2>1. session # None /\ During(ctx, past)
    BY <1>0, <1>4, MainStreams DEF InPlace, Before
  <2>2. "nuked" \notin past /\ "early" \notin past
    BY <1>4, <2>1 DEF During
  <2>3. OpenOf(ctx) = {Oa, Cpu}
    BY <1>1, <1>4, <2>1, MainStreams DEF OpenOf, During
  <2>4. Beside(ctx)
    <3>1. ctx \in Linked \/ ctx \in Stale
      BY <1>0, <2>2 DEF Shape
    <3>2. ctx \in Linked => Beside(ctx)
      BY <2>3, LinkedBeside
    <3> QED
      BY <3>1, <3>2 DEF Stale
  <2>5. OpenOf(e) = {Oa, Cpu}
    BY <1>4, MainStreams DEF OpenOf
  <2>6. Beside(e)
    BY <1>2, <2>4 DEF Beside
  <2> QED
    BY <1>2, <2>5, <2>6 DEF Stale
<1> QED
  BY <1>3, <1>4

\* The streams of a new session.
LEMMA ResetMatched ==
    ASSUME NEW e \in Ctx, e.stream_id = 2, e.id[Cpu] = 1, \A s \in TpStreams : e.id[s] = 0,
           NEW q, e.id[Oa] # 0 => "stale" \in q
    PROVE  Matched(e, {[id |-> 1, stream |-> Cpu]}, q)
<1> DEFINE x == [id |-> 1, stream |-> Cpu]
<1>1. x \in StreamSet /\ x.id = 1 /\ x.stream = Cpu
  BY MainStreams DEF StreamSet
<1>2. x \in ListedOf(e)
  BY <1>1, ListedIs
<1>3. ASSUME "stale" \notin q
      PROVE  Unique(e) /\ ListedOf(e) \subseteq {x}
  <2>1. \A s \in Streams : e.id[s] # 0 => s = Cpu
    BY <1>3, MainStreams
  <2>2. Unique(e)
    BY <2>1 DEF Unique
  <2>3. ASSUME NEW y \in ListedOf(e)
        PROVE  y = x
    <3>1. PICK s \in Streams : e.id[s] # 0 /\ y = [id |-> e.id[s], stream |-> s]
      BY DEF ListedOf, is_stream_opened
    <3> QED
      BY <2>1, <3>1
  <2> QED
    BY <2>2, <2>3
<1> QED
  BY <1>2, <1>3 DEF Matched

\* What a connection that becomes ready has to send: the closes of the reset,
\* if the context already was on it, and the requests of the session.
LEMMA ReadyUp ==
    ASSUME CInv, fate = "runs", NEW k \in Conns, status[k] = "connecting",
           status' = [status EXCEPT ![k] = "open"],
           NEW o \in Seq(Reqs), NoInfo(o), HandledAll({}, o) = {}, NEW p \in Seq(Reqs), NoInfo(p),
           NEW closes,
           closes = IF connection # None /\ status'[connection] = "open"
                    THEN [up EXCEPT ![connection] = @ \o o] ELSE up,
           up' = [closes EXCEPT ![k] = @ \o p]
    PROVE  /\ up' \in [Conns -> Seq(Reqs)] /\ NoInfo(up'[k])
           /\ HandledAll({}, up'[k]) = HandledAll({}, p)
           /\ \A j \in Conns : j # k /\ status[j] \notin {"open", "closing"} => up'[j] = up[j]
<1>0. /\ up \in [Conns -> Seq(Reqs)] /\ connection \in Conns \cup {None}
      /\ status \in [Conns -> Statuses] /\ None \notin Conns
      /\ up[k] = <<>>
  BY ClientAssumption DEF CInv, Running, NetType, Idle, Conns
<1>1. status'[k] = "open" /\ \A j \in Conns : j # k => status'[j] = status[j]
  BY <1>0
<1> DEFINE e == <<>>
<1>2. e \in Seq(Reqs) /\ Len(e) = 0 /\ up[k] = e /\ e \o o = o
  BY <1>0
<1>3. NoInfo(e)
  BY DEF NoInfo
<1>4. HandledAll({}, e) = {}
  <2> DEFINE S == {}
  <2>1. S \in SUBSET StreamSet
    OBVIOUS
  <2>2. HandledAll(S, <<>>) = S
    <3> HIDE DEF S
    <3> QED
      BY <2>1, HandledNone
  <2> QED
    BY <2>2
<1> HIDE DEF e
<1>5. /\ closes \in [Conns -> Seq(Reqs)]
      /\ closes[k] = o \/ closes[k] = e
      /\ \A j \in Conns : j # k /\ status[j] \notin {"open", "closing"} => closes[j] = up[j]
  <2>1. CASE connection # None /\ status'[connection] = "open"
    <3>1. PICK n \in Conns : n = connection
      BY <1>0, <2>1
    <3> DEFINE v == up[n] \o o
    <3>2. up[n] \in Seq(Reqs)
      BY <1>0
    <3>3. v \in Seq(Reqs)
      BY <3>2
    <3>4. closes = [up EXCEPT ![n] = v]
      BY <2>1, <3>1
    <3>5. n = k => v = o
      BY <1>2
    <3> HIDE DEF v
    <3>6. /\ closes \in [Conns -> Seq(Reqs)] /\ closes[n] = v
          /\ \A j \in Conns : j # n => closes[j] = up[j]
      BY <1>0, <3>3, <3>4
    <3>7. n = k \/ status[n] = "open"
      BY <1>1, <2>1, <3>1
    <3> QED
      BY <1>2, <3>5, <3>6, <3>7
  <2>2. CASE ~(connection # None /\ status'[connection] = "open")
    BY <1>0, <1>2, <2>2
  <2> QED
    BY <2>1, <2>2
<1>6. closes[k] \in Seq(Reqs) /\ NoInfo(closes[k]) /\ HandledAll({}, closes[k]) = {}
  BY <1>2, <1>3, <1>4, <1>5
<1> DEFINE c == closes[k]
           w == c \o p
<1>7. w \in Seq(Reqs) /\ Len(w) = Len(c) + Len(p)
  BY <1>6
<1>8. NoInfo(w)
  <2>1. \A i \in 1..Len(c) : w[i] = c[i]
    BY <1>6
  <2>2. ASSUME NEW i \in 1..Len(w), i \notin 1..Len(c)
        PROVE  i - Len(c) \in 1..Len(p) /\ w[i] = p[i - Len(c)]
    <3>0. c \in Seq(Reqs)
      BY <1>6
    <3> HIDE DEF c
    <3>1. /\ Len(c) \in Nat /\ Len(p) \in Nat /\ i \in Int /\ i > Len(c) /\ i <= Len(c) + Len(p)
      BY <1>7, <2>2, <3>0
    <3>2. w[i] = p[i - Len(c)]
      BY <3>0, <3>1
    <3> QED
      BY <3>1, <3>2
  <2> HIDE DEF w, c
  <2>3. \A i \in 1..Len(c) : c[i].req # "info"
    BY <1>6 DEF NoInfo, c
  <2>4. \A i \in 1..Len(p) : p[i].req # "info"
    BY DEF NoInfo
  <2> SUFFICES ASSUME NEW i \in 1..Len(w)
               PROVE  w[i].req # "info"
    BY DEF NoInfo
  <2>5. CASE i \in 1..Len(c)
    BY <2>1, <2>3, <2>5
  <2>6. CASE i \notin 1..Len(c)
    BY <2>2, <2>4, <2>6
  <2> QED
    BY <2>5, <2>6
<1>9. HandledAll({}, w) = HandledAll({}, p)
  <2> DEFINE S == {}
  <2>1. S \in SUBSET StreamSet
    OBVIOUS
  <2>2. HandledAll(S, c) = S
    BY <1>6
  <2> HIDE DEF S, c
  <2>3. c \in Seq(Reqs)
    BY <1>6 DEF c
  <2>4. HandledAll(S, c \o p) = HandledAll(HandledAll(S, c), p)
    BY <2>1, <2>3, HandledConcat
  <2>5. HandledAll(S, w) = HandledAll(S, p)
    BY <2>2, <2>4
  <2> HIDE DEF w
  <2> QED
    BY <2>5 DEF S
<1>10. up' = [closes EXCEPT ![k] = w]
  OBVIOUS
<1> HIDE DEF w
<1>11. up' \in [Conns -> Seq(Reqs)] /\ up'[k] = w /\ \A j \in Conns : j # k => up'[j] = closes[j]
  BY <1>5, <1>7, <1>10, ZenonT(60)
<1> QED
  BY <1>5, <1>8, <1>9, <1>11

\* on_connection_ready()
LEMMA ReadyStep ==
    ASSUME CInv, fate = "runs", on_connection_ready
    PROVE  CInv'
<1>0. /\ Tidy(ctx) /\ ctx \in Ctx /\ Shape(ctx, past) /\ NetType /\ Idle /\ Current /\ InPlace
      /\ Held(ctx, past)
  BY DEF CInv, Tidy, InTable, Running
<1> DEFINE c == reset_tracepoints(ctx)
           d == NewContext(ctx)
<1>1. PICK k \in Conns :
        /\ status[k] = "connecting" /\ status' = [status EXCEPT ![k] = "open"] /\ session' = k
        /\ UNCHANGED <<down, server, clicks>>
        /\ IF ~StreamsEmptied(ctx) \/ ~WalkEnds(EmptyStreams(ctx))
           THEN /\ fate' = IF WalkEnds(EmptyStreams(ctx)) THEN "aborted" ELSE "hangs"
                /\ UNCHANGED <<ctx, connection, up, past>>
           ELSE LET closes == IF connection # None /\ status'[connection] = "open"
                              THEN [up EXCEPT ![connection] = @ \o c.out] ELSE up
                IN  /\ fate' \in IF DanglingData(ctx) = {} THEN {"runs"}
                                 ELSE {"runs", "corrupt"}
                    /\ ctx' = [d EXCEPT !.out = <<>>]
                    /\ up' = [closes EXCEPT ![k] = @ \o d.out]
                    /\ connection' = k
                    /\ past' =
                         (IF fate' = "corrupt" THEN past ELSE {})
                         \cup (IF is_stream_opened(ctx, Oa) THEN {"stale"} ELSE {})
                         \cup (IF \/ OpenTpStreams(ctx) # {}
                                  \/ "nuked" \in past /\ is_stream_opened(ctx, Oa)
                               THEN {"nuked"} ELSE {})
  BY DEF on_connection_ready, NewContext
<1>2. CASE ~StreamsEmptied(ctx) \/ ~WalkEnds(EmptyStreams(ctx))
  <2>1. "early" \in past
    BY <1>2, ResetAsserts
  <2>2. ctx' = ctx /\ past' = past /\ fate' \in {"aborted", "hangs"}
    BY <1>1, <1>2
  <2>3. EndsOnlyAfter'
    BY <2>1, <2>2 DEF EndsOnlyAfter
  <2> QED
    BY <1>0, <2>2, <2>3 DEF CInv
<1>3. CASE StreamsEmptied(ctx) /\ WalkEnds(EmptyStreams(ctx))
  <2> DEFINE closes == IF connection # None /\ status'[connection] = "open"
                       THEN [up EXCEPT ![connection] = @ \o c.out] ELSE up
             x == [id |-> 1, stream |-> Cpu]
  <2>1. /\ fate' = "runs" \/ (fate' = "corrupt" /\ DanglingData(ctx) # {})
        /\ ctx' = [d EXCEPT !.out = <<>>] /\ connection' = k
        /\ up' = [closes EXCEPT ![k] = @ \o d.out]
    BY <1>1, <1>3
  <2>2. /\ fate' = "corrupt" => past \subseteq past'
        /\ fate' = "runs" => past' \subseteq {"stale", "nuked"}
        /\ ctx.id[Oa] # 0 => "stale" \in past'
        /\ (OpenTpStreams(ctx) # {} \/ ("nuked" \in past /\ ctx.id[Oa] # 0)) => "nuked" \in past'
    BY <1>1, <1>3 DEF is_stream_opened
  <2>3. /\ c.out \in Seq(Reqs) /\ NoInfo(c.out) /\ HandledAll({}, c.out) = {}
        /\ d \in Ctx /\ d.out \in Seq(Reqs) /\ NoInfo(d.out)
        /\ HandledAll({}, d.out) = {x}
        /\ d \in InTable /\ Track(d) /\ (d.is_sampling <=> d.id[Oa] # 0)
        /\ d.stream_id = 2 /\ d.id[Cpu] = 1 /\ d.id[Oa] = ctx.id[Oa]
        /\ \A s \in TpStreams : d.id[s] = 0
        /\ d.uuids = {} /\ d.data = {}
        /\ ((\A s \in TpStreams : ctx.id[s] = 0) /\ StreamsEmptied(ctx)) =>
             CpuAlone(d) /\ d.next[Oa] = ctx.next[Oa] /\ d.prev[Oa] = ctx.prev[Oa]
    BY <1>0, ResetIs
  <2>4. /\ up' \in [Conns -> Seq(Reqs)] /\ NoInfo(up'[k])
        /\ HandledAll({}, up'[k]) = HandledAll({}, d.out)
        /\ \A j \in Conns : j # k /\ status[j] \notin {"open", "closing"} => up'[j] = up[j]
    <3>1. PICK o \in Seq(Reqs) : o = c.out
      BY <2>3
    <3>2. PICK p \in Seq(Reqs) : p = d.out
      BY <2>3
    <3>3. NoInfo(o) /\ HandledAll({}, o) = {} /\ NoInfo(p)
      BY <2>3, <3>1, <3>2
    <3> HIDE DEF c, d
    <3>4. closes = IF connection # None /\ status'[connection] = "open"
                   THEN [up EXCEPT ![connection] = @ \o o] ELSE up
      BY <3>1
    <3>5. up' = [closes EXCEPT ![k] = @ \o p]
      BY <2>1, <3>2
    <3> HIDE DEF closes
    <3>6. status[k] = "connecting" /\ status' = [status EXCEPT ![k] = "open"]
      BY <1>1
    <3>7. /\ up' \in [Conns -> Seq(Reqs)] /\ NoInfo(up'[k])
          /\ HandledAll({}, up'[k]) = HandledAll({}, p)
          /\ \A j \in Conns : j # k /\ status[j] \notin {"open", "closing"} => up'[j] = up[j]
      BY <3>3, <3>4, <3>5, <3>6, ReadyUp
    <3> QED
      BY <3>2, <3>7
  <2> HIDE DEF c, d, closes, x
  <2>5. /\ ctx' \in Ctx /\ ctx'.out = <<>> /\ Kept(d, ctx')
        /\ ctx'.stream_id = d.stream_id /\ ctx'.id = d.id /\ ctx'.next = d.next /\ ctx'.prev = d.prev
        /\ ctx'.table = d.table
    BY <2>1, <2>3, SentIs
  <2>6. Tidy(ctx')
    <3>1. ctx'.stream_id >= d.stream_id
      BY <2>3, <2>5
    <3>2. \A s \in TpStreams : ctx'.id[s] = d.id[s]
      BY <2>5
    <3>3. \A a \in Addrs : Live(d, a) => Live(ctx', a)
      BY <2>5 DEF Kept, Live
    <3>4. ctx' \in InTable
      BY <2>3, <2>5, <3>1, <3>2, <3>3, SameTable
    <3>5. Track(ctx')
      BY <2>3, <2>5 DEF Track, Kept, Live
    <3> QED
      BY <2>3, <2>5, <3>4, <3>5 DEF Tidy, Kept
  <2>7. Shape(ctx', past')
    <3>1. PICK e \in Ctx : e = ctx'
      BY <2>5
    <3>2. PICK q : q = past'
      OBVIOUS
    <3>3. /\ e.id[Cpu] = 1 /\ e.id[Oa] = ctx.id[Oa] /\ \A s \in TpStreams : e.id[s] = 0
          /\ ((\A s \in TpStreams : ctx.id[s] = 0) /\ StreamsEmptied(ctx)) =>
               CpuAlone(e) /\ e.next[Oa] = ctx.next[Oa] /\ e.prev[Oa] = ctx.prev[Oa]
      BY <2>3, <2>5, <3>1 DEF CpuAlone
    <3>4. (OpenTpStreams(ctx) # {} \/ ("nuked" \in past /\ ctx.id[Oa] # 0)) => "nuked" \in q
      BY <2>2, <3>2
    <3>5. Shape(e, q)
      BY <1>3, <3>3, <3>4, ResetShape
    <3> QED
      BY <3>1, <3>2, <3>5
  <2>8. EndsOnlyAfter'
    <3>1. fate' = "corrupt" => "removed" \in past
      BY <1>0, <2>1, DanglingIs
    <3> QED
      BY <2>1, <2>2, <3>1 DEF EndsOnlyAfter
  <2>9. ASSUME fate' = "runs"
        PROVE  Running'
    <3>0. /\ status \in [Conns -> Statuses] /\ None \notin Conns
          /\ down \in [Conns -> Seq(Msgs)] /\ server \in [Conns -> SUBSET StreamSet]
      BY <1>0, ClientAssumption DEF NetType, Conns
    <3>1. /\ status' \in [Conns -> Statuses] /\ status'[k] = "open"
          /\ \A j \in Conns : j # k => status'[j] = status[j]
      BY <1>1, <3>0 DEF Statuses
    <3>2. NetType'
      BY <1>1, <2>1, <2>4, <3>0, <3>1 DEF NetType
    <3>3. Idle'
      <4> SUFFICES ASSUME NEW j \in Conns, status'[j] \notin {"open", "closing"}
                   PROVE  up'[j] = <<>> /\ down'[j] = <<>> /\ server'[j] = {}
        BY DEF Idle
      <4>1. j # k /\ status[j] \notin {"open", "closing"}
        BY <3>1
      <4> QED
        BY <1>0, <1>1, <2>4, <4>1 DEF Idle
    <3>4. Current'
      BY <1>1, <2>1, <3>0 DEF Current
    <3>5. InPlace'
      <4>1. session' # None
        BY <1>1, <3>0
      <4>2. During(ctx', past')
        BY <2>2, <2>3, <2>5, <2>9 DEF During
      <4> QED
        BY <4>1, <4>2 DEF InPlace
    <3>6. Held(ctx', past')
      BY <2>3, <2>5 DEF Held, Kept
    <3>7. down'[k] = <<>> /\ server'[k] = {}
      BY <1>0, <1>1 DEF Idle
    <3>8. Streamed'
      <4>1. Settled' = {x}
        BY <1>1, <2>3, <2>4, <3>7 DEF Settled
      <4>2. PICK e \in Ctx : e = ctx'
        BY <2>5
      <4>3. PICK q : q = past'
        OBVIOUS
      <4>4. /\ e.stream_id = 2 /\ e.id[Cpu] = 1 /\ \A s \in TpStreams : e.id[s] = 0
            /\ e.id[Oa] # 0 => "stale" \in q
        BY <2>2, <2>3, <2>5, <4>2, <4>3
      <4>5. Matched(e, {x}, q)
        BY <4>4, ResetMatched DEF x
      <4> QED
        BY <4>1, <4>2, <4>3, <4>5 DEF Streamed
    <3>9. Asked'
      <4>1. \A i \in 1..Len(down'[k]) : FALSE
        <5>1. Len(<<>>) = 0
          OBVIOUS
        <5> QED
          BY <3>7, <5>1
      <4>2. AskedOnce(up'[k], down'[k], ctx'.tps)
        BY <2>4, <4>1 DEF AskedOnce, NoInfo
      <4> QED
        BY <1>1, <4>2 DEF Asked
    <3> QED
      BY <3>2, <3>3, <3>4, <3>5, <3>6, <3>8, <3>9 DEF Running
  <2> QED
    BY <2>6, <2>7, <2>8, <2>9 DEF CInv
<1> QED
  BY <1>2, <1>3

\* gputop_client_context_init()
LEMMA InitHolds ==
    ASSUME Init
    PROVE  CInv
<1> DEFINE e == <<>>
           i0 == [s \in Streams |-> 0]
           l0 == [s \in Nodes |-> IF s = ListHead THEN ListHead ELSE None]
           t0 == [a \in Addrs |-> None]
           n0 == [n \in Names |-> None]
           b0 == [i \in 1..MaxId |-> None]
<1>1. e \in Seq(Reqs) /\ e \in Seq(Msgs) /\ e \in Seq(Addrs) /\ Len(e) = 0
  OBVIOUS
<1>2. /\ i0 \in [Streams -> Nat] /\ l0 \in [Nodes -> Nodes \cup {None}]
      /\ t0 \in [Addrs -> Tps \cup {None}] /\ n0 \in [Names -> Addrs \cup {None}]
      /\ b0 \in [1..MaxId -> TpStreams \cup {None}]
      /\ l0[ListHead] = ListHead
      /\ \A s \in Streams : i0[s] = 0
      /\ \A a \in Addrs : t0[a] = None
      /\ \A i \in 1..MaxId : b0[i] = None
  BY DifferentNodes
<1>3. Range(e) = {}
  BY DEF Range
<1>4. ctx = [stream_id |-> 0, id |-> i0, next |-> l0, prev |-> l0, is_sampling |-> FALSE,
             features |-> FALSE, metric_set |-> FALSE, perf_tracepoints |-> e, tps |-> t0,
             names |-> n0, uuids |-> {}, table |-> b0, data |-> {}, out |-> e]
  BY DEF Init
<1> HIDE DEF e, i0, l0, t0, n0, b0
<1>5. /\ ctx \in Ctx /\ ctx.out = e /\ ctx.stream_id = 0 /\ ctx.id = i0 /\ ctx.next = l0 /\ ctx.prev = l0
      /\ ~ctx.is_sampling /\ ~ctx.features /\ ~ctx.metric_set /\ ctx.perf_tracepoints = e
      /\ ctx.tps = t0 /\ ctx.uuids = {} /\ ctx.data = {} /\ ctx.table = b0
  BY <1>1, <1>2, <1>4 DEF Ctx
<1>6. ctx \in InTable
  <2>1. Owned(ctx) /\ Below(ctx)
    BY <1>2, <1>5, MainStreams DEF Owned, Below
  <2>2. Tabled(ctx)
    <3> SUFFICES ASSUME NEW i \in 1..MaxId, NEW s \in TpStreams
                 PROVE  ctx.table[i] = s <=> ctx.id[s] = i
      BY DEF Tabled
    <3>1. ctx.table[i] # s
      BY <1>2, <1>5, DifferentNodes, MainStreams
    <3>2. ctx.id[s] # i
      BY <1>2, <1>5, MainStreams, ClientAssumption
    <3> QED
      BY <3>1, <3>2
  <2> QED
    BY <1>5, <2>1, <2>2 DEF InTable
<1>7. Track(ctx)
  <2>1. Once(e)
    BY <1>1 DEF Once
  <2> QED
    BY <1>2, <1>3, <1>5, <2>1 DEF Track, Live
<1>8. Tidy(ctx)
  BY <1>2, <1>5, <1>6, <1>7, MainStreams DEF Tidy, e
<1>9. Shape(ctx, past)
  <2> DEFINE r == [x \in Nodes |-> 0]
  <2>1. r \in Ranks
    BY DEF Ranks
  <2>2. OpenOf(ctx) = {}
    BY <1>2, <1>5 DEF OpenOf
  <2>3. Ring(ctx.next, ctx.prev, {}, r)
    BY <1>2, <1>5 DEF Ring, Path
  <2> QED
    BY <1>5, <2>1, <2>2, <2>3 DEF Shape, Linked
<1>10. /\ connection = None /\ session = None /\ fate = "runs" /\ past = {}
       /\ status = [k \in Conns |-> "none"] /\ up = [k \in Conns |-> e] /\ down = [k \in Conns |-> e]
       /\ server = [k \in Conns |-> {}]
  BY DEF Init, e
<1>11. NetType
  BY <1>1, <1>10 DEF NetType, Statuses
<1>12. Idle
  BY <1>10 DEF Idle, e
<1>13. Current
  BY <1>10 DEF Current
<1>14. InPlace
  BY <1>2, <1>5, <1>10, MainStreams DEF InPlace, Before
<1>15. Held(ctx, past) /\ Streamed /\ Asked /\ EndsOnlyAfter
  BY <1>5, <1>10 DEF Held, Streamed, InSession, Asked, EndsOnlyAfter
<1> QED
  BY <1>8, <1>9, <1>11, <1>12, <1>13, <1>14, <1>15 DEF CInv, Running

\* Every step of the client, its user, its connections and the server keeps
\* the invariant.
LEMMA NextKeeps ==
    ASSUME CInv, [Next]_vars
    PROVE  CInv'
<1>1. CASE UNCHANGED vars
  BY <1>1 DEF vars, CInv, Running, NetType, Idle, Current, InPlace, Streamed, InSession, Settled, Asked, EndsOnlyAfter
<1>2. CASE Next
  <2>0. fate = "runs"
    BY <1>2 DEF Next
  <2>1. CASE reconnect
    BY <2>0, <2>1, ReconnectStep
  <2>2. CASE on_connection_ready
    BY <2>0, <2>2, ReadyStep
  <2>3. CASE on_connection_closed
    BY <2>0, <2>3, ClosedStep
  <2>4. ASSUME NEW k \in Conns, HandleFeatures(k)
        PROVE  CInv'
    BY <2>0, <2>4, FeaturesStep
  <2>5. ASSUME NEW k \in Conns, NEW a \in Addrs, HandleTracepointInfo(k, a)
        PROVE  CInv'
    BY <2>0, <2>5, InfoStep
  <2>6. ASSUME NEW k \in Conns, NEW i \in 1..MaxId, HandlePerfData(k, i)
        PROVE  CInv'
    BY <2>0, <2>6, PerfStep
  <2>7. ASSUME NEW k \in Conns, NEW i \in 1..MaxId, HandleNotify(k, i)
        PROVE  CInv'
    BY <2>0, <2>7, NotifyStep
  <2>8. CASE toggle_start_stop_sampling
    BY <2>0, <2>8, ToggleStep
  <2>9. CASE select_metric_set
    BY <2>0, <2>9, SelectMetricStep
  <2>10. CASE select_cpu_period
    BY <2>0, <2>10, SelectCpuStep
  <2>11. ASSUME NEW n \in Names, add_tracepoint(n)
         PROVE  CInv'
    BY <2>0, <2>11, AddStep
  <2>12. CASE select_remove_tracepoint
    BY <2>0, <2>12, RemoveStep
  <2>13. ASSUME NEW k \in Conns, ServerRequest(k)
         PROVE  CInv'
    BY <2>0, <2>13, RequestStep
  <2>14. ASSUME NEW k \in Conns, ServerData(k)
         PROVE  CInv'
    BY <2>0, <2>14, DataStep
  <2>15. ASSUME NEW k \in Conns, ConnectionLost(k)
         PROVE  CInv'
    BY <2>0, <2>15, LostStep
  <2> QED
    BY <1>2, <2>1, <2>2, <2>3, <2>4, <2>5, <2>6, <2>7, <2>8, <2>9, <2>10, <2>11, <2>12, <2>13,
       <2>14, <2>15 DEF Next
<1> QED
  BY <1>1, <1>2

\* The invariant holds throughout.
THEOREM ContextInvariant == Spec => []CInv
<1>1. Init => CInv
  BY InitHolds
<1>2. CInv /\ [Next]_vars => CInv'
  BY NextKeeps
<1> QED
  BY <1>1, <1>2, PTL DEF Spec

\* No stream runs on the server that the client has forgotten
\* (gputop-client-context.c: open_stream(), close_stream()).
THEOREM NothingOrphaned == Spec => []NoOrphans
<1>1. CInv => NoOrphans
  BY DEF CInv, Running, Streamed, Matched, NoOrphans, InSession, Listed, ListedOf
<1> QED
  BY <1>1, ContextInvariant, PTL

\* What the client lists is open on the server, or about to be.
THEOREM ListedAreOpen == Spec => []ListedStreamsOpen
<1>1. CInv => ListedStreamsOpen
  <2> SUFFICES ASSUME CInv, InSession, past \cap {"cut", "stale"} = {}
               PROVE  Listed \subseteq Settled
    BY DEF ListedStreamsOpen
  <2>1. "cut" \notin past /\ "stale" \notin past /\ fate = "runs"
    BY DEF InSession
  <2> QED
    BY <2>1 DEF CInv, Running, Streamed, Matched, Listed, ListedOf
<1> QED
  BY <1>1, ContextInvariant, PTL

\* find_stream() returns, unless the list was used early or emptied under
\* open streams.
THEOREM FindEnds == Spec => []FindStreamEnds
<1>1. CInv => FindStreamEnds
  <2> SUFFICES ASSUME CInv, "nuked" \notin past, "early" \notin past
               PROVE  WalkEnds(ctx)
    BY DEF FindStreamEnds
  <2>1. ctx \in Ctx /\ Shape(ctx, past) /\ past \cap {"early", "nuked"} = {}
    BY DEF CInv, Tidy, InTable
  <2> QED
    BY <2>1, ShapeEnds
<1> QED
  BY <1>1, ContextInvariant, PTL

\* The table handle_perf_data() uses is in step with the streams.
THEOREM TableAgrees == Spec => []TableInStep
<1>1. CInv => TableInStep
  BY TableIs DEF CInv, Tidy, TableInStep
<1> QED
  BY <1>1, ContextInvariant, PTL

\* What ends the process has a cause in the session.
THEOREM EndsHaveCauses == Spec => []EndsOnlyAfter
<1>1. CInv => EndsOnlyAfter
  BY DEF CInv
<1> QED
  BY <1>1, ContextInvariant, PTL

=============================================================================
