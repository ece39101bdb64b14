-------------------------- MODULE ServerLogProofs --------------------------
(***************************************************************************)
(* Proofs about ServerLog, for any set of threads, any limit of the list   *)
(* and any number of messages.                                             *)
(***************************************************************************)
EXTENDS ServerLog, SequenceTheorems, TLAPS

-----------------------------------------------------------------------------
(***************************************************************************)
(* Sequences of serial numbers.                                            *)
(***************************************************************************)

Increasing(q) == \A i, j \in 1..Len(q) : i < j => q[i] < q[j]

Before(p, q) == \A i \in 1..Len(p), j \in 1..Len(q) : p[i] < q[j]

\* What appending a message does to a list.
LEMMA AppendList ==
    ASSUME NEW q \in Seq(Nat), NEW e \in Nat
    PROVE  /\ Append(q, e) \in Seq(Nat)
           /\ Len(Append(q, e)) = Len(q) + 1
           /\ Elements(Append(q, e)) = Elements(q) \cup {e}
           /\ Increasing(q) /\ (\A x \in Elements(q) : x < e) => Increasing(Append(q, e))
           /\ \A p \in Seq(Nat) : Before(p, Append(q, e)) <=>
                 Before(p, q) /\ \A x \in Elements(p) : x < e
           /\ \A p \in Seq(Nat) : Before(Append(q, e), p) <=>
                 Before(q, p) /\ \A x \in Elements(p) : e < x
<1> DEFINE r == Append(q, e)
<1>1. r \in Seq(Nat) /\ Len(r) = Len(q) + 1
  OBVIOUS
<1>2. r[Len(q) + 1] = e /\ \A i \in 1..Len(q) : r[i] = q[i]
  OBVIOUS
<1>3. 1..Len(r) = 1..Len(q) \cup {Len(q) + 1}
  BY <1>1
<1> HIDE DEF r
<1>4. Elements(r) = Elements(q) \cup {e}
  BY <1>1, <1>2, <1>3, ZenonT(60) DEF Elements
<1>5. ASSUME Increasing(q), \A x \in Elements(q) : x < e
      PROVE  Increasing(r)
  <2>1. SUFFICES ASSUME NEW i \in 1..Len(r), NEW j \in 1..Len(r), i < j
                 PROVE  r[i] < r[j]
    BY DEF Increasing
  <2>2. i \in 1..Len(q) /\ q[i] \in Elements(q)
    BY <2>1, <1>1 DEF Elements
  <2> QED
    BY <1>2, <1>3, <1>5, <2>1, <2>2 DEF Increasing
<1>6. ASSUME NEW p \in Seq(Nat)
      PROVE  Before(p, r) <=> Before(p, q) /\ \A x \in Elements(p) : x < e
  BY <1>2, <1>3 DEF Before, Elements
<1>7. ASSUME NEW p \in Seq(Nat)
      PROVE  Before(r, p) <=> Before(q, p) /\ \A x \in Elements(p) : e < x
  BY <1>2, <1>3 DEF Before, Elements
<1> QED
  BY <1>1, <1>4, <1>5, <1>6, <1>7 DEF r

\* What removing the last message does to a list.
LEMMA RemoveLast ==
    ASSUME NEW q \in Seq(Nat), q # <<>>
    PROVE  LET r == SubSeq(q, 1, Len(q) - 1) IN
           /\ r \in Seq(Nat)
           /\ Len(r) = Len(q) - 1
           /\ q[Len(q)] \in Nat
           /\ Elements(q) = Elements(r) \cup {q[Len(q)]}
           /\ Increasing(q) => Increasing(r)
           /\ \A p \in Seq(Nat) : Before(p, q) => Before(p, r)
<1> DEFINE n == Len(q) - 1
           r == SubSeq(q, 1, n)
<1>1. Len(q) \in Nat \ {0} /\ n \in Nat /\ Len(q) = n + 1
  OBVIOUS
<1>2. \A i \in 1..n : q[i] \in Nat
  BY <1>1
<1>3. r \in Seq(Nat) /\ Len(r) = n /\ \A i \in 1..n : r[i] = q[i]
  <2> HIDE DEF n
  <2>1. /\ r \in Seq(Nat)
        /\ Len(r) = IF 1 <= n THEN n - 1 + 1 ELSE 0
        /\ \A i \in 1..n - 1 + 1 : r[i] = q[1 + i - 1]
    BY <1>1, <1>2, SubSeqProperties
  <2> QED
    BY <1>1, <2>1
<1> HIDE DEF r, n
<1>4. 1..Len(q) = 1..n \cup {Len(q)} /\ 1..n \subseteq 1..Len(q)
  BY <1>1
<1>5. Elements(q) = Elements(r) \cup {q[Len(q)]}
  BY <1>3, <1>4 DEF Elements
<1>6. ASSUME Increasing(q)
      PROVE  Increasing(r)
  BY <1>1, <1>3, <1>4, <1>6 DEF Increasing
<1>7. ASSUME NEW p \in Seq(Nat), Before(p, q)
      PROVE  Before(p, r)
  BY <1>3, <1>4, <1>7 DEF Before
<1>8. q[Len(q)] \in Nat
  BY <1>1
<1> QED
  BY <1>1, <1>3, <1>5, <1>6, <1>7, <1>8 DEF r, n

\* What removing the first message does to a list.
LEMMA RemoveFirst ==
    ASSUME NEW q \in Seq(Nat), q # <<>>
    PROVE  /\ Tail(q) \in Seq(Nat)
           /\ Len(Tail(q)) = Len(q) - 1
           /\ Head(q) \in Nat
           /\ Elements(q) = Elements(Tail(q)) \cup {Head(q)}
           /\ Increasing(q) =>
                 Increasing(Tail(q)) /\ \A x \in Elements(Tail(q)) : Head(q) < x
           /\ \A p \in Seq(Nat) : Before(p, q) =>
                 Before(p, Tail(q)) /\ \A x \in Elements(p) : x < Head(q)
<1> DEFINE r == Tail(q)
           n == Len(q) - 1
<1>1. n \in Nat /\ Len(q) = n + 1
  OBVIOUS
<1>2. r \in Seq(Nat) /\ Len(r) = n /\ \A i \in 1..n : r[i] = q[i + 1]
  BY <1>1, HeadTailProperties
<1>3. Head(q) = q[1] /\ q[1] \in Nat
  BY <1>1
<1> HIDE DEF r, n
<1>4. \A i \in 1..n : i \in Int /\ i + 1 \in 1..Len(q) /\ 1 < i + 1
  BY <1>1
<1>5. 1 \in 1..Len(q)
  BY <1>1
<1>6. Elements(q) = Elements(r) \cup {q[1]}
  <2>1. ASSUME NEW x \in Elements(q)
        PROVE  x \in Elements(r) \cup {q[1]}
    <3>1. PICK i \in 1..Len(q) : x = q[i]
      BY DEF Elements
    <3>2. CASE i = 1
      BY <3>1, <3>2
    <3>3. CASE i # 1
      <4>1. i - 1 \in 1..n /\ (i - 1) + 1 = i
        BY <1>1, <3>3
      <4>2. r[i - 1] = q[i]
        BY <1>2, <4>1
      <4> QED
        BY <1>2, <3>1, <4>1, <4>2 DEF Elements
    <3> QED
      BY <3>2, <3>3
  <2>2. Elements(r) \subseteq Elements(q) /\ q[1] \in Elements(q)
    BY <1>2, <1>4, <1>5 DEF Elements
  <2> QED
    BY <2>1, <2>2
<1>7. ASSUME Increasing(q)
      PROVE  Increasing(r) /\ \A x \in Elements(r) : q[1] < x
  <2>1. Increasing(r)
    <3>1. SUFFICES ASSUME NEW i \in 1..n, NEW j \in 1..n, i < j
                   PROVE  r[i] < r[j]
      BY <1>2 DEF Increasing
    <3>2. i + 1 < j + 1
      BY <3>1
    <3> QED
      BY <1>2, <1>4, <1>7, <3>2 DEF Increasing
  <2>2. ASSUME NEW i \in 1..n
        PROVE  q[1] < r[i]
    BY <1>2, <1>4, <1>5, <1>7 DEF Increasing
  <2> QED
    BY <1>2, <2>1, <2>2 DEF Elements
<1>8. ASSUME NEW p \in Seq(Nat), Before(p, q)
      PROVE  Before(p, r) /\ \A x \in Elements(p) : x < q[1]
  <2>1. Before(p, r)
    BY <1>2, <1>4, <1>8 DEF Before
  <2>2. \A x \in Elements(p) : x < q[1]
    BY <1>5, <1>8 DEF Before, Elements
  <2> QED
    BY <2>1, <2>2
<1> QED
  BY <1>2, <1>3, <1>6, <1>7, <1>8 DEF r, n

\* What joining two lists does.
LEMMA JoinLists ==
    ASSUME NEW p \in Seq(Nat), NEW q \in Seq(Nat)
    PROVE  /\ p \o q \in Seq(Nat)
           /\ Elements(p \o q) = Elements(p) \cup Elements(q)
           /\ Increasing(p) /\ Increasing(q) /\ Before(p, q) => Increasing(p \o q)
           /\ \A r \in Seq(Nat) :
                 Before(p, r) /\ Before(q, r) => Before(p \o q, r)
<1> DEFINE j == p \o q
           m == Len(p)
           n == Len(q)
<1>1. m \in Nat /\ n \in Nat
  OBVIOUS
<1>2. /\ j \in Seq(Nat) /\ Len(j) = m + n
      /\ \A i \in 1..m + n : j[i] = IF i <= m THEN p[i] ELSE q[i - m]
  BY ConcatProperties
<1> HIDE DEF j
<1>3. \A i \in 1..m + n : \/ i \in 1..m /\ j[i] = p[i]
                          \/ i > m /\ i - m \in 1..n /\ j[i] = q[i - m]
  BY <1>1, <1>2
<1>4. /\ \A i \in 1..m : i \in 1..m + n /\ j[i] = p[i]
      /\ \A i \in 1..n : m + i \in 1..m + n /\ j[m + i] = q[i]
  <2>1. \A i \in 1..m : i \in 1..m + n /\ i <= m
    BY <1>1
  <2>2. \A i \in 1..n : m + i \in 1..m + n /\ ~(m + i <= m) /\ (m + i) - m = i
    BY <1>1
  <2> QED
    BY <1>2, <2>1, <2>2
<1> HIDE DEF m, n
<1>5. Elements(j) = Elements(p) \cup Elements(q)
  <2>1. Elements(j) \subseteq Elements(p) \cup Elements(q)
    BY <1>2, <1>3 DEF Elements, m, n
  <2>2. Elements(p) \subseteq Elements(j)
    BY <1>2, <1>4 DEF Elements, m, n
  <2>3. ASSUME NEW i \in 1..n
        PROVE  q[i] \in Elements(j)
    <3>1. m + i \in 1..Len(j) /\ j[m + i] = q[i]
      BY <1>2, <1>4
    <3> QED
      BY <3>1 DEF Elements
  <2> QED
    BY <2>1, <2>2, <2>3 DEF Elements, n
<1>6. ASSUME Increasing(p), Increasing(q), Before(p, q)
      PROVE  Increasing(j)
  <2>1. SUFFICES ASSUME NEW i \in 1..m + n, NEW k \in 1..m + n, i < k
                 PROVE  j[i] < j[k]
    BY <1>2 DEF Increasing
  <2>2. CASE i \in 1..m /\ k \in 1..m
    BY <1>4, <1>6, <2>1, <2>2 DEF Increasing, m
  <2>3. CASE i \in 1..m /\ ~(k \in 1..m)
    BY <1>3, <1>4, <1>6, <2>3 DEF Before, m, n
  <2>4. CASE ~(i \in 1..m)
    <3>1. i - m \in 1..n /\ k - m \in 1..n /\ i - m < k - m
      BY <1>1, <2>1, <2>4
    <3>2. ~(k \in 1..m)
      BY <1>1, <2>1, <2>4
    <3>3. j[i] = q[i - m] /\ j[k] = q[k - m]
      BY <1>3, <2>4, <3>2
    <3> QED
      BY <1>6, <3>1, <3>3 DEF Increasing, n
  <2> QED
    BY <2>2, <2>3, <2>4
<1>7. ASSUME NEW r \in Seq(Nat), Before(p, r), Before(q, r)
      PROVE  Before(j, r)
  BY <1>2, <1>3, <1>7 DEF Before, m, n
<1> QED
  BY <1>2, <1>5, <1>6, <1>7 DEF j

-----------------------------------------------------------------------------
(***************************************************************************)
(* The inductive invariant.                                                *)
(***************************************************************************)

Adding == \E t \in Threads : pc[t] = "added"

\* The types of the copy and of the histories too, which TypeOK leaves out.
Types ==
    /\ gputop_log_entries \in Seq(Nat)
    /\ gputop_log_len \in Nat
    /\ pc \in [Threads -> {"idle", "log", "added", "get", "getting", "forward"}]
    /\ log \in [n_entries : Nat, entries : Seq(Nat)]
    /\ connected \in BOOLEAN
    /\ msgs \in Nat
    /\ sent \in Seq(Nat)

\* Who is inside gputop_log() holds the lock alone; the reader is the server's
\* thread inside the loop of gputop_get_pb_log().
Locked ==
    /\ writer = {t \in Threads : pc[t] \in {"log", "added"}}
    /\ \A t, u \in writer : t = u
    /\ readers = {t \in {Server} : pc[t] = "getting"}
    /\ readers # {} => writer = {}

\* The length is that of the list, but for the entry that a thread has added
\* and not counted yet, and for those the getter has taken.
Counted ==
    /\ IF pc[Server] = "getting"
       THEN /\ Len(log.entries) + Len(gputop_log_entries) = gputop_log_len
            /\ log.n_entries = gputop_log_len
       ELSE Len(gputop_log_entries) = gputop_log_len + (IF Adding THEN 1 ELSE 0)
    /\ gputop_log_len <= MaxLog + 1
    /\ Adding => gputop_log_len <= MaxLog
    /\ msgs <= MaxMsgs
    /\ \A t \in Threads : pc[t] = "log" => msgs < MaxMsgs

\* What was sent was logged before what the server holds, and that before what
\* is in the list; the server holds something only between get and free.
Ordered ==
    /\ Increasing(sent) /\ Increasing(log.entries) /\ Increasing(gputop_log_entries)
    /\ Before(sent, log.entries)
    /\ Before(sent, gputop_log_entries)
    /\ Before(log.entries, gputop_log_entries)
    /\ log.entries # <<>> => pc[Server] \in {"getting", "forward"}

IInv == Types /\ Locked /\ Counted /\ Ordered /\ NothingVanishes

\* An empty log.
LEMMA InitInductive == Init => IInv
<1> SUFFICES ASSUME Init
             PROVE  IInv
  OBVIOUS
<1>1. Types
  <2>1. log \in [n_entries : Nat, entries : Seq(Nat)]
    BY DEF Init, NoLog
  <2>2. pc \in [Threads -> {"idle", "log", "added", "get", "getting", "forward"}]
    BY DEF Init
  <2>3. gputop_log_entries \in Seq(Nat) /\ sent \in Seq(Nat)
    BY DEF Init
  <2>4. gputop_log_len \in Nat /\ msgs \in Nat
    BY DEF Init
  <2>5. connected \in BOOLEAN
    BY DEF Init
  <2> QED
    BY <2>1, <2>2, <2>3, <2>4, <2>5 DEF Types
<1>2. Locked
  BY LogAssumption DEF Init, Locked
<1>3. Counted
  BY LogAssumption DEF Init, Counted, Adding, NoLog
<1>4. Ordered
  BY DEF Init, Ordered, Increasing, Before, NoLog
<1>5. NothingVanishes
  BY DEF Init, NothingVanishes, Elements, NoLog
<1> QED
  BY <1>1, <1>2, <1>3, <1>4, <1>5 DEF IInv

\* Taking the lock, in gputop_log().
LEMMA LogLockInductive ==
    ASSUME IInv, NEW t \in Threads, log_lock(t)
    PROVE  IInv'
<1> USE DEF IInv, log_lock, Goto, listVars, histVars
<1>1. Types'
  BY DEF Types
<1>2. Locked'
  BY DEF Types, Locked
<1>3. Adding' = Adding
  BY DEF Types, Adding
<1>4. Counted'
  BY <1>3 DEF Types, Counted, Locked
<1>5. Ordered'
  BY DEF Types, Ordered
<1>6. NothingVanishes'
  BY DEF NothingVanishes
<1> QED
  BY <1>1, <1>2, <1>4, <1>5, <1>6

\* Adding the entry, at the limit in the place of the last one.
LEMMA LogEntryInductive ==
    ASSUME IInv, NEW t \in Threads, log_entry(t)
    PROVE  IInv'
<1> USE DEF IInv
<1> DEFINE q == gputop_log_entries
           r == SubSeq(q, 1, Len(q) - 1)
           m == msgs + 1
<1>1. /\ pc[t] = "log" /\ pc' = [pc EXCEPT ![t] = "added"]
      /\ msgs' = m /\ writer' = writer /\ readers' = readers /\ log' = log
      /\ connected' = connected /\ sent' = sent /\ lost' = lost
  BY DEF log_entry, Goto
<1>2. /\ t \in writer
      /\ \A u \in Threads \ {t} : pc[u] \notin {"log", "added"}
      /\ pc[Server] # "getting"
  BY <1>1, LogAssumption DEF Locked
<1>3. ~Adding /\ Adding'
  BY <1>1, <1>2 DEF Types, Adding
<1>4. q \in Seq(Nat) /\ m \in Nat /\ gputop_log_len = Len(q) /\ Len(q) \in Nat
  BY <1>2, <1>3 DEF Types, Counted
<1>5. \A x \in Elements(q) \cup Elements(log.entries) \cup Elements(sent) : x \in Nat /\ x < m
  BY <1>4 DEF NothingVanishes, Types
<1>6. pc'[Server] # "getting" /\ (pc[Server] \in {"getting", "forward"} => pc'[Server] = pc[Server])
  BY <1>1, <1>2, LogAssumption DEF Types
<1>7. Locked'
  BY <1>1, <1>2 DEF Locked, Types
<1>8. CASE gputop_log_len > MaxLog
  <2>1. /\ gputop_log_entries' = Append(r, m)
        /\ gputop_log_len' = gputop_log_len - 1
        /\ dropped' = dropped \cup {q[Len(q)]}
    BY <1>1, <1>8 DEF log_entry
  <2>2. q # <<>> /\ gputop_log_len = MaxLog + 1
    BY <1>4, <1>8, LogAssumption DEF Counted
  <2> HIDE DEF q, r, m
  <2>3. /\ r \in Seq(Nat) /\ Len(r) = Len(q) - 1
        /\ Elements(q) = Elements(r) \cup {q[Len(q)]}
        /\ Increasing(q) => Increasing(r)
        /\ \A p \in Seq(Nat) : Before(p, q) => Before(p, r)
    BY <1>4, <2>2, RemoveLast DEF r
  <2>4. \A x \in Elements(r) : x < m
    BY <1>5, <2>3
  <2>5. /\ Append(r, m) \in Seq(Nat) /\ Len(Append(r, m)) = Len(r) + 1
        /\ Elements(Append(r, m)) = Elements(r) \cup {m}
        /\ Increasing(r) => Increasing(Append(r, m))
        /\ \A p \in Seq(Nat) : Before(p, Append(r, m)) <=>
              Before(p, r) /\ \A x \in Elements(p) : x < m
    BY <1>4, <2>3, <2>4, AppendList
  <2>6. Types'
    BY <1>1, <1>4, <2>1, <2>2, <2>5, LogAssumption DEF Types
  <2>7. Counted'
    BY <1>1, <1>2, <1>3, <1>4, <1>6, <2>1, <2>2, <2>3, <2>5, LogAssumption
       DEF Types, Counted, m
  <2>8. Ordered'
    BY <1>1, <1>5, <1>6, <2>1, <2>3, <2>5 DEF Types, Ordered, q
  <2>9. 1..m = (1..msgs) \cup {m}
    BY DEF Types, m
  <2>10. NothingVanishes'
    BY <1>1, <2>1, <2>3, <2>5, <2>9 DEF NothingVanishes, q
  <2> QED
    BY <1>7, <2>6, <2>7, <2>8, <2>10
<1>9. CASE ~(gputop_log_len > MaxLog)
  <2>1. /\ gputop_log_entries' = Append(q, m)
        /\ gputop_log_len' = gputop_log_len
        /\ dropped' = dropped
    BY <1>1, <1>9 DEF log_entry
  <2> HIDE DEF q, m
  <2>2. /\ Append(q, m) \in Seq(Nat) /\ Len(Append(q, m)) = Len(q) + 1
        /\ Elements(Append(q, m)) = Elements(q) \cup {m}
        /\ Increasing(q) => Increasing(Append(q, m))
        /\ \A p \in Seq(Nat) : Before(p, Append(q, m)) <=>
              Before(p, q) /\ \A x \in Elements(p) : x < m
    BY <1>4, <1>5, AppendList
  <2>3. Types'
    BY <1>1, <1>4, <2>1, <2>2 DEF Types
  <2>4. Counted'
    BY <1>1, <1>2, <1>3, <1>4, <1>6, <1>9, <2>1, <2>2, LogAssumption
       DEF Types, Counted, m
  <2>5. Ordered'
    BY <1>1, <1>5, <1>6, <2>1, <2>2 DEF Types, Ordered, q
  <2>6. 1..m = (1..msgs) \cup {m}
    BY DEF Types, m
  <2>7. NothingVanishes'
    BY <1>1, <2>1, <2>2, <2>6 DEF NothingVanishes, q
  <2> QED
    BY <1>7, <2>3, <2>4, <2>5, <2>7
<1> QED
  BY <1>8, <1>9

\* Counting the entry and leaving gputop_log().
LEMMA LogUnlockInductive ==
    ASSUME IInv, NEW t \in Threads, log_unlock(t)
    PROVE  IInv'
<1> USE DEF IInv
<1>1. /\ pc[t] = "added" /\ pc' = [pc EXCEPT ![t] = "idle"]
      /\ gputop_log_len' = gputop_log_len + 1
      /\ writer' = writer \ {t} /\ readers' = readers \ {t}
      /\ UNCHANGED <<gputop_log_entries, log, connected, msgs, sent, dropped, lost>>
  BY DEF log_unlock, Goto, histVars
<1>2. /\ t \in writer
      /\ \A u \in Threads \ {t} : pc[u] \notin {"log", "added"}
      /\ pc[Server] # "getting"
  BY <1>1, LogAssumption DEF Locked
<1>3. Adding /\ ~Adding'
  BY <1>1, <1>2 DEF Types, Adding
<1>4. Types'
  BY <1>1 DEF Types
<1>5. Locked'
  BY <1>1, <1>2, LogAssumption DEF Locked, Types
<1>6. pc'[Server] # "getting" /\ (pc[Server] \in {"getting", "forward"} => pc'[Server] = pc[Server])
  BY <1>1, <1>2, LogAssumption DEF Types
<1>7. Counted'
  BY <1>1, <1>2, <1>3, <1>6, LogAssumption DEF Types, Counted
<1>8. Ordered'
  BY <1>1, <1>6 DEF Types, Ordered
<1>9. NothingVanishes'
  BY <1>1 DEF NothingVanishes
<1> QED
  BY <1>4, <1>5, <1>7, <1>8, <1>9

\* The unlocked look, taking the lock, and a client that comes or goes.
LEMMA GetLockInductive ==
    ASSUME IInv, get_check \/ get_lock \/ set_connected
    PROVE  IInv'
<1> USE DEF IInv, listVars, histVars
<1>1. CASE get_check \/ set_connected
  <2>1. /\ pc' \in [Threads -> {"idle", "log", "added", "get", "getting", "forward"}]
        /\ \A t \in Threads : pc'[t] = pc[t] \/ (pc[t] = "idle" /\ pc'[t] = "get")
        /\ UNCHANGED <<listVars, writer, readers, log, histVars>>
    BY <1>1, LogAssumption DEF get_check, set_connected, Goto, Types
  <2>9. connected' \in BOOLEAN
    <3>1. connected \in BOOLEAN
      BY DEF Types
    <3>2. connected' = connected \/ connected' = ~connected
      BY <1>1 DEF get_check, set_connected
    <3> QED
      BY <3>1, <3>2
  <2>2. Types'
    BY <2>1, <2>9 DEF Types
  <2>3. Locked'
    BY <2>1, LogAssumption DEF Locked
  <2>4. Adding' = Adding
    BY <2>1 DEF Adding
  <2>5. Counted'
    BY <2>1, <2>4, LogAssumption DEF Counted
  <2>6. Ordered' /\ NothingVanishes'
    BY <2>1, LogAssumption DEF Ordered, NothingVanishes
  <2> QED
    BY <2>2, <2>3, <2>5, <2>6
<1>2. CASE get_lock
  <2>1. /\ pc[Server] = "get" /\ pc' = [pc EXCEPT ![Server] = "getting"]
        /\ writer = {} /\ readers' = readers \cup {Server}
        /\ log' = [n_entries |-> gputop_log_len, entries |-> <<>>]
        /\ UNCHANGED <<listVars, writer, connected, histVars>>
    BY <1>2 DEF get_lock, Goto
  <2>2. \A t \in Threads : pc[t] \notin {"log", "added"}
    BY <2>1 DEF Locked
  <2>3. ~Adding /\ ~Adding'
    BY <2>1, <2>2 DEF Adding, Types
  <2>4. Types'
    BY <2>1, LogAssumption DEF Types
  <2>5. Locked'
    BY <2>1, LogAssumption DEF Locked, Types
  <2>6. Counted'
    BY <2>1, <2>2, <2>3, LogAssumption DEF Counted, Types
  <2>7. log.entries = <<>>
    BY <2>1 DEF Ordered
  <2>8. Ordered' /\ NothingVanishes'
    BY <2>1, <2>7, LogAssumption DEF Ordered, NothingVanishes, Types, Increasing, Before
  <2> QED
    BY <2>4, <2>5, <2>6, <2>8
<1> QED
  BY <1>1, <1>2

\* Moving an entry to the copy.
LEMMA GetEntryInductive ==
    ASSUME IInv, get_entry
    PROVE  IInv'
<1> USE DEF IInv
<1> DEFINE q == gputop_log_entries
           e == log.entries
           h == Head(q)
<1>1. /\ pc[Server] = "getting" /\ pc' = pc
      /\ q # <<>> /\ gputop_log_entries' = Tail(q)
      /\ log' = [log EXCEPT !.entries = Append(e, h)]
      /\ UNCHANGED <<gputop_log_len, writer, readers, connected, msgs, sent, dropped, lost>>
  BY DEF get_entry, histVars
<1>2. q \in Seq(Nat) /\ e \in Seq(Nat) /\ sent \in Seq(Nat)
  BY DEF Types
<1>3. log'.entries = Append(e, h) /\ log'.n_entries = log.n_entries
  BY <1>1 DEF Types
<1> HIDE DEF q, e, h
<1>4. /\ Tail(q) \in Seq(Nat) /\ Len(Tail(q)) = Len(q) - 1 /\ h \in Nat
      /\ Elements(q) = Elements(Tail(q)) \cup {h}
      /\ Increasing(q) => Increasing(Tail(q)) /\ \A x \in Elements(Tail(q)) : h < x
      /\ \A p \in Seq(Nat) : Before(p, q) =>
            Before(p, Tail(q)) /\ \A x \in Elements(p) : x < h
  BY <1>1, <1>2, RemoveFirst DEF h
<1>5. /\ Append(e, h) \in Seq(Nat) /\ Len(Append(e, h)) = Len(e) + 1
      /\ Elements(Append(e, h)) = Elements(e) \cup {h}
      /\ Increasing(e) /\ (\A x \in Elements(e) : x < h) => Increasing(Append(e, h))
      /\ \A p \in Seq(Nat) : Before(p, Append(e, h)) <=>
            Before(p, e) /\ \A x \in Elements(p) : x < h
      /\ \A p \in Seq(Nat) : Before(Append(e, h), p) <=>
            Before(e, p) /\ \A x \in Elements(p) : h < x
  BY <1>2, <1>4, AppendList
<1>6. /\ Increasing(sent) /\ Increasing(e) /\ Increasing(q)
      /\ Before(sent, e) /\ Before(sent, q) /\ Before(e, q)
  BY DEF Ordered, q, e
<1>7. Types'
  BY <1>1, <1>3, <1>4, <1>5 DEF Types
<1>8. Locked'
  BY <1>1 DEF Locked
<1>9. Len(q) \in Nat /\ Len(e) \in Nat
  BY <1>2
<1>10. Adding' = Adding
  BY <1>1 DEF Adding
<1>11. Counted'
  BY <1>1, <1>3, <1>4, <1>5, <1>9, <1>10 DEF Counted, q, e
<1>12. Ordered'
  BY <1>1, <1>2, <1>3, <1>4, <1>5, <1>6 DEF Ordered
<1>13. NothingVanishes'
  BY <1>1, <1>3, <1>4, <1>5 DEF NothingVanishes, q, e
<1> QED
  BY <1>7, <1>8, <1>11, <1>12, <1>13

\* The end of the loop: the list is empty and so is its length.
LEMMA GetUnlockInductive ==
    ASSUME IInv, get_unlock
    PROVE  IInv'
<1> USE DEF IInv
<1>1. /\ pc[Server] = "getting" /\ pc' = [pc EXCEPT ![Server] = "forward"]
      /\ gputop_log_entries = <<>> /\ gputop_log_len' = 0
      /\ readers' = readers \ {Server}
      /\ UNCHANGED <<gputop_log_entries, writer, log, connected, msgs, sent, dropped, lost>>
  BY DEF get_unlock, Goto, histVars
<1>2. writer = {} /\ \A t \in Threads : pc[t] \notin {"log", "added"}
  BY <1>1, LogAssumption DEF Locked
<1>3. ~Adding'
  BY <1>1, <1>2 DEF Types, Adding
<1>4. Types' /\ Locked'
  BY <1>1, <1>2, LogAssumption DEF Types, Locked
<1>5. Counted'
  BY <1>1, <1>2, <1>3, LogAssumption DEF Types, Counted
<1>6. Ordered' /\ NothingVanishes'
  BY <1>1, LogAssumption DEF Types, Ordered, NothingVanishes
<1> QED
  BY <1>4, <1>5, <1>6

\* Sending the copy, or not, and freeing it.
LEMMA ForwardInductive ==
    ASSUME IInv, forward_logs
    PROVE  IInv'
<1> USE DEF IInv
<1> DEFINE e == log.entries
           q == gputop_log_entries
<1>1. /\ pc[Server] = "forward" /\ pc' = [pc EXCEPT ![Server] = "idle"]
      /\ log' = NoLog
      /\ UNCHANGED <<gputop_log_entries, gputop_log_len, writer, readers, connected, msgs, dropped>>
      /\ \/ sent' = sent \o e /\ lost' = lost
         \/ sent' = sent /\ lost' = lost \cup Elements(e)
  BY DEF forward_logs, Goto, listVars
<1>2. log'.entries = <<>> /\ log'.n_entries = 0
  BY <1>1 DEF NoLog
<1>3. e \in Seq(Nat) /\ sent \in Seq(Nat) /\ q \in Seq(Nat)
  BY DEF Types
<1>4. /\ Increasing(sent) /\ Increasing(e) /\ Increasing(q)
      /\ Before(sent, e) /\ Before(sent, q) /\ Before(e, q)
  BY DEF Ordered
<1>5. Elements(<<>>) = {}
  BY DEF Elements
<1> HIDE DEF e, q
<1>6. /\ sent \o e \in Seq(Nat)
      /\ Elements(sent \o e) = Elements(sent) \cup Elements(e)
      /\ Increasing(sent \o e) /\ Before(sent \o e, q)
  BY <1>3, <1>4, JoinLists
<1>7. sent' \in Seq(Nat) /\ Increasing(sent') /\ Before(sent', q)
  BY <1>1, <1>3, <1>4, <1>6
<1>8. Types' /\ Locked'
  BY <1>1, <1>7, LogAssumption DEF Types, Locked, NoLog
<1>9. Adding' = Adding
  BY <1>1, LogAssumption DEF Types, Adding
<1>10. Counted'
  BY <1>1, <1>9, LogAssumption DEF Types, Counted
<1>11. Ordered'
  BY <1>1, <1>2, <1>4, <1>7 DEF Ordered, Increasing, Before, q
<1>12. NothingVanishes'
  BY <1>1, <1>2, <1>5, <1>6 DEF NothingVanishes, e
<1> QED
  BY <1>8, <1>10, <1>11, <1>12

\* Every step of every thread keeps the invariant.
LEMMA NextInductive ==
    ASSUME IInv, [Next]_vars
    PROVE  IInv'
<1>1. CASE UNCHANGED vars
  BY <1>1 DEF vars, IInv, Types, Locked, Counted, Adding, Ordered, NothingVanishes
<1>2. CASE \E t \in Threads : log_lock(t) \/ log_entry(t) \/ log_unlock(t)
  BY <1>2, LogLockInductive, LogEntryInductive, LogUnlockInductive
<1>3. CASE get_check \/ get_lock \/ set_connected
  BY <1>3, GetLockInductive
<1>4. CASE get_entry \/ get_unlock \/ forward_logs
  BY <1>4, GetEntryInductive, GetUnlockInductive, ForwardInductive
<1> QED
  BY <1>1, <1>2, <1>3, <1>4 DEF Next

-----------------------------------------------------------------------------
(***************************************************************************)
(* The theorems.                                                           *)
(***************************************************************************)

\* Every reachable state satisfies the inductive invariant.
THEOREM Inductive == Spec => []IInv
BY InitInductive, NextInductive, PTL DEF Spec

\* Every variable has its type and the list its bound.
THEOREM TypeCorrect == Spec => []TypeOK
<1>1. ASSUME IInv
      PROVE  TypeOK
  <2> USE <1>1 DEF IInv
  <2>1. Elements(gputop_log_entries) \subseteq 1..MaxMsgs
    BY LogAssumption DEF NothingVanishes, Types, Counted
  <2>2. \A i \in 1..Len(gputop_log_entries) : gputop_log_entries[i] \in 1..MaxMsgs
    BY <2>1 DEF Elements
  <2>3. gputop_log_entries \in Seq(1..MaxMsgs)
    <3>1. \A n \in Nat : [1..n -> 1..MaxMsgs] \subseteq Seq(1..MaxMsgs)
      BY SeqDef
    <3>2. /\ Len(gputop_log_entries) \in Nat
          /\ gputop_log_entries \in [1..Len(gputop_log_entries) -> Nat]
      BY LenProperties DEF Types
    <3>3. gputop_log_entries \in [1..Len(gputop_log_entries) -> 1..MaxMsgs]
      BY <2>2, <3>2
    <3> QED
      BY <3>1, <3>2, <3>3
  <2>4. Len(gputop_log_entries) <= MaxLog + 1
    BY LogAssumption DEF Types, Counted
  <2>5. writer \subseteq Threads /\ readers \subseteq Threads
    BY LogAssumption DEF Locked
  <2>6. dropped \cup lost \subseteq 1..msgs
    BY DEF NothingVanishes
  <2> QED
    BY <2>3, <2>4, <2>5, <2>6, LogAssumption DEF TypeOK, Types, Counted
<1> QED
  BY <1>1, Inductive, PTL

\* The copy has room for the list whatever was logged before the lock.
THEOREM CopyAlwaysFits == Spec => []CopyFits
<1>1. IInv => CopyFits
  BY DEF IInv, Counted, CopyFits
<1> QED
  BY <1>1, Inductive, PTL

\* Clients get the messages in the order they were logged.
THEOREM OrderKept == Spec => []SentInOrder
<1>1. IInv => SentInOrder
  BY DEF IInv, Ordered, Increasing, SentInOrder
<1> QED
  BY <1>1, Inductive, PTL

\* Every message is somewhere, or was given up.
THEOREM AllAccountedFor == Spec => []NothingVanishes
<1>1. IInv => NothingVanishes
  BY DEF IInv
<1> QED
  BY <1>1, Inductive, PTL

=============================================================================
