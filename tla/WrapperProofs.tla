---------------------------- MODULE WrapperProofs ----------------------------
(***************************************************************************)
(* Proofs about Wrapper: whatever the order of callbacks and messages, the *)
(* streams are closed on the server before the connection is, and the      *)
(* program that is observed runs with its streams open.                    *)
(***************************************************************************)
EXTENDS Wrapper, SequenceTheorems, TLAPS

-----------------------------------------------------------------------------
(***************************************************************************)
(* Requests on their way.                                                  *)
(***************************************************************************)

\* Whether a stream is open once the server has handled the requests q, if it
\* is open before iff b: o is the request that opens it, c the one that closes.
On(b, q, o, c) ==
    \/ b /\ \A i \in 1..Len(q) : q[i] # c
    \/ \E i \in 1..Len(q) : q[i] = o /\ \A j \in i + 1..Len(q) : q[j] # c

\* A stream that could not be opened counts: it was asked for, and not closed.
HasOa == server.oa # "closed"
HasTp == server.tp # "closed"

OaOn(q) == On(HasOa, q, "open oa", "close oa")
TpOn(q) == On(HasTp, q, "open tp", "close tp")

\* No message changes nothing.
LEMMA OnEmpty ==
    ASSUME NEW b \in BOOLEAN, NEW o, NEW c
    PROVE  On(b, <<>>, o, c) <=> b
BY DEF On

\* What the last message does.
LEMMA OnAppend ==
    ASSUME NEW b \in BOOLEAN, NEW q \in Seq(Requests), NEW m \in Requests,
           NEW o \in Requests, NEW c \in Requests, o # c
    PROVE  /\ m = o => On(b, Append(q, m), o, c)
           /\ m = c => ~On(b, Append(q, m), o, c)
           /\ m # o /\ m # c => (On(b, Append(q, m), o, c) <=> On(b, q, o, c))
<1> DEFINE r == Append(q, m)
           n == Len(q)
<1>1. n \in Nat /\ Len(r) = n + 1 /\ r[n + 1] = m /\ \A i \in 1..n : r[i] = q[i]
  BY AppendProperties
<1> HIDE DEF r, n
<1>2. ASSUME m = o
      PROVE  On(b, r, o, c)
  <2>1. n + 1 \in 1..Len(r) /\ \A j \in (n + 1) + 1..Len(r) : r[j] # c
    BY <1>1
  <2> QED
    BY <1>1, <1>2, <2>1 DEF On
<1>3. ASSUME m = c
      PROVE  ~On(b, r, o, c)
  <2>1. n + 1 \in 1..Len(r)
    BY <1>1
  <2>2. ASSUME NEW i \in 1..Len(r), r[i] = o, \A j \in i + 1..Len(r) : r[j] # c
        PROVE  FALSE
    <3>1. i # n + 1
      BY <1>1, <1>3, <2>2
    <3>2. n + 1 \in i + 1..Len(r)
      BY <1>1, <3>1
    <3> QED
      BY <1>1, <1>3, <2>2, <3>2
  <2> QED
    BY <1>1, <1>3, <2>1, <2>2 DEF On
<1>4. ASSUME m # o, m # c
      PROVE  On(b, r, o, c) <=> On(b, q, o, c)
  <2>1. (\A i \in 1..Len(r) : r[i] # c) <=> (\A i \in 1..n : q[i] # c)
    BY <1>1, <1>4
  <2>2. ASSUME NEW i \in 1..n
        PROVE  (\A j \in i + 1..Len(r) : r[j] # c) <=> (\A j \in i + 1..n : q[j] # c)
    BY <1>1, <1>4
  <2>3. /\ \A i \in 1..Len(r) : r[i] = o => i \in 1..n
        /\ \A i \in 1..n : i \in 1..Len(r)
    BY <1>1, <1>4
  <2>4. (\E i \in 1..Len(r) : r[i] = o /\ \A j \in i + 1..Len(r) : r[j] # c)
        <=> (\E i \in 1..n : q[i] = o /\ \A j \in i + 1..n : q[j] # c)
    BY <1>1, <2>2, <2>3
  <2> QED
    BY <2>1, <2>4 DEF On, n
<1> QED
  BY <1>2, <1>3, <1>4 DEF r

\* Appending to the second of two sequences appends to both.
LEMMA ConcatAppend ==
    ASSUME NEW p \in Seq(Requests), NEW q \in Seq(Requests), NEW m \in Requests
    PROVE  p \o Append(q, m) = Append(p \o q, m)
<1>1. <<m>> \in Seq(Requests) /\ p \o q \in Seq(Requests)
  OBVIOUS
<1>2. Append(q, m) = q \o <<m>> /\ Append(p \o q, m) = (p \o q) \o <<m>>
  BY <1>1, AppendIsConcat
<1>3. (p \o q) \o <<m>> = p \o (q \o <<m>>)
  BY <1>1, ConcatAssociative
<1> QED
  BY <1>2, <1>3, Zenon

\* A message that is not c adds no c.
LEMMA AppendWithout ==
    ASSUME NEW q \in Seq(Requests), NEW m \in Requests, NEW c, m # c,
           \A i \in 1..Len(q) : q[i] # c
    PROVE  \A i \in 1..Len(Append(q, m)) : Append(q, m)[i] # c
OBVIOUS

\* What the first message does.
LEMMA OnTail ==
    ASSUME NEW b \in BOOLEAN, NEW q \in Seq(Requests), q # <<>>,
           NEW o \in Requests, NEW c \in Requests, o # c
    PROVE  /\ q[1] = o => (On(b, q, o, c) <=> On(TRUE, Tail(q), o, c))
           /\ q[1] = c => (On(b, q, o, c) <=> On(FALSE, Tail(q), o, c))
           /\ q[1] # o /\ q[1] # c => (On(b, q, o, c) <=> On(b, Tail(q), o, c))
<1> DEFINE r == Tail(q)
           n == Len(q) - 1
<1>1. n \in Nat /\ Len(q) = n + 1 /\ Len(r) = n /\ \A i \in 1..n : r[i] = q[i + 1]
  BY HeadTailProperties
<1> HIDE DEF r, n
<1>2. (\A i \in 1..Len(q) : q[i] # c) <=> q[1] # c /\ \A i \in 1..n : r[i] # c
  <2>1. \A i \in 1..Len(q) : i = 1 \/ (i - 1 \in 1..n /\ q[i] = r[i - 1])
    BY <1>1
  <2>2. 1 \in 1..Len(q) /\ \A i \in 1..n : i + 1 \in 1..Len(q)
    BY <1>1
  <2> QED
    BY <1>1, <2>1, <2>2
<1>3. ASSUME NEW i \in 0..n
      PROVE  (\A j \in (i + 1) + 1..Len(q) : q[j] # c) <=> (\A j \in i + 1..n : r[j] # c)
  <2>1. ASSUME NEW j \in (i + 1) + 1..Len(q)
        PROVE  j - 1 \in i + 1..n /\ q[j] = r[j - 1]
    BY <1>1
  <2>2. ASSUME NEW j \in i + 1..n
        PROVE  j + 1 \in (i + 1) + 1..Len(q) /\ r[j] = q[j + 1]
    BY <1>1
  <2> QED
    BY <2>1, <2>2
<1> DEFINE Later(p, i) == p[i] = o /\ \A j \in i + 1..Len(p) : p[j] # c
<1>4. Later(q, 1) <=> q[1] = o /\ \A j \in 1..n : r[j] # c
  <2>1. (\A j \in (0 + 1) + 1..Len(q) : q[j] # c) <=> (\A j \in 0 + 1..n : r[j] # c)
    BY <1>1, <1>3
  <2> QED
    BY <2>1
<1>5. ASSUME NEW i \in 1..n
      PROVE  Later(q, i + 1) <=> Later(r, i)
  <2>1. i \in 0..n /\ q[i + 1] = r[i]
    BY <1>1
  <2>2. (\A j \in (i + 1) + 1..Len(q) : q[j] # c) <=> (\A j \in i + 1..Len(r) : r[j] # c)
    BY <1>1, <1>3, <2>1
  <2> QED
    BY <2>1, <2>2
<1> HIDE DEF Later
<1>6. (\E i \in 1..Len(q) : Later(q, i)) <=> Later(q, 1) \/ \E i \in 1..n : Later(r, i)
  <2>1. \A i \in 1..Len(q) : i = 1 \/ (i - 1 \in 1..n /\ i = (i - 1) + 1)
    BY <1>1
  <2>2. 1 \in 1..Len(q) /\ \A i \in 1..n : i + 1 \in 1..Len(q)
    BY <1>1
  <2> QED
    BY <1>5, <2>1, <2>2
<1>7. \A p, d : On(d, p, o, c) <=>
         (d /\ \A i \in 1..Len(p) : p[i] # c) \/ \E i \in 1..Len(p) : Later(p, i)
  BY DEF On, Later
<1> QED
  BY <1>1, <1>2, <1>4, <1>6, <1>7 DEF r

-----------------------------------------------------------------------------
(***************************************************************************)
(* The inductive invariant.  The handlers compute with the wrapper's state *)
(* as a value s, whose requests s.out follow those in up.                  *)
(***************************************************************************)

Messages == {"features", "info", "other", "oa", "CLOSE"}

States == [connection : BOOLEAN, closing : BOOLEAN, features : BOOLEAN,
           features_handled : BOOLEAN, metric_set : BOOLEAN, is_sampling : BOOLEAN,
           oa : {"closed", "requested", "dropped"}, tp : {"closed", "requested", "dropped"},
           tracepoint : {"none", "asked", "known"}, pid : {-1, 0, 1},
           child_exited : BOOLEAN, timer : {"off", "armed", "fired"}, early : BOOLEAN,
           fate : {"runs", "aborted", "shared"}, out : Seq(Requests)]

Pending(s) == up \o s.out

\* What the server will have once it has handled the requests is what the
\* wrapper has asked for; after a close nothing is asked for any more.
InNet(s) ==
    /\ s \in States
    /\ s.connection => /\ OaOn(Pending(s)) <=> s.oa = "requested"
                       /\ TpOn(Pending(s)) <=> s.tp = "requested"
    /\ s.closing => s.oa # "requested" /\ s.tp # "requested"
    /\ s.connection /\ ~s.closing => s.oa # "dropped" /\ s.tp # "dropped"
    /\ \A i \in 1..Len(Pending(s)) :
          Pending(s)[i] = "CLOSE" => s.closing /\ i = Len(Pending(s))
    /\ Contains(down, "CLOSE") => s.closing /\ Pending(s) = <<>>

\* No sampling, no streams.
Idle(s) == ~s.is_sampling => s.oa = "closed" /\ s.tp = "closed"

\* What the wrapper knows when it samples, and when it has started the program.
Knows(s) ==
    /\ ~s.features => s.pid # 1 /\ ~s.features_handled
    /\ s.features_handled /\ ~s.closing =>
          s.metric_set /\ (s.pid # 0 => s.tracepoint # "none")
    /\ ~s.early /\ s.pid # 0 /\ s.is_sampling /\ ~s.closing =>
          s.oa # "closed" /\ s.tp # "closed"
    /\ s.pid = 1 /\ ~s.closing /\ s.fate = "runs" => s.is_sampling

Types ==
    /\ args \in [program : BOOLEAN, lists : BOOLEAN, metric : BOOLEAN, gen8 : BOOLEAN,
                 gpu : BOOLEAN]
    /\ ~args.metric => args.lists
    /\ w \in States /\ w.out = <<>>
    /\ conn \in {"connecting", "handshake", "open", "deaf", "ended"}
    /\ {sigint, sigchld} \subseteq {"armed", "raised", "handled"}
    /\ program \in {"none", "runs", "exited"}
    /\ loop \in {"running", "stopping", "stopped"}
    /\ up \in Seq(Requests)
    /\ down \in Seq(Messages)
    /\ server \in [oa : Outcomes, tp : Outcomes, gone : BOOLEAN]

\* Before the first read, nothing has happened.
Fresh ==
    /\ ~w.closing /\ ~w.features /\ ~w.is_sampling /\ w.oa = "closed" /\ w.tp = "closed"
    /\ up = <<>> /\ down = <<>>
    /\ server.oa = "closed" /\ server.tp = "closed"

IInv ==
    /\ Types
    /\ w.connection <=> conn \in {"open", "deaf"}
    /\ conn \in {"connecting", "handshake"} => Fresh
    /\ InNet(w) /\ Idle(w) /\ Knows(w)
    /\ program # "none" => w.pid = 1
    /\ StreamsClosedFirst

-----------------------------------------------------------------------------
(***************************************************************************)
(* What the handlers' functions do to the state.                           *)
(***************************************************************************)

\* What neither sampling nor quitting changes.
SameBut(s, t) ==
    /\ t.connection = s.connection /\ t.features = s.features
    /\ t.features_handled = s.features_handled /\ t.metric_set = s.metric_set
    /\ t.tracepoint = s.tracepoint /\ t.pid = s.pid /\ t.early = s.early

\* The messages on their way are messages.
LEMMA PendingTypes ==
    ASSUME Types, NEW s \in States
    PROVE  Pending(s) \in Seq(Requests) /\ Len(Pending(s)) \in Nat
<1>1. up \in Seq(Requests) /\ s.out \in Seq(Requests)
  BY DEF Types, States
<1>2. Pending(s) \in Seq(Requests)
  BY <1>1, ConcatProperties DEF Pending
<1> QED
  BY <1>2, LenProperties

\* send_pb_message() appends the request or does nothing.
LEMMA SendState ==
    ASSUME Types, NEW s \in States, NEW m \in Requests
    PROVE  /\ send(s, m) \in States /\ SameBut(s, send(s, m))
           /\ send(s, m).closing = s.closing /\ send(s, m).fate = s.fate
           /\ send(s, m).is_sampling = s.is_sampling
           /\ send(s, m).oa = s.oa /\ send(s, m).tp = s.tp
           /\ Sent(s) => Pending(send(s, m)) = Append(Pending(s), m)
           /\ ~Sent(s) => send(s, m) = s
<1>1. CASE Sent(s)
  <2>1. send(s, m) = [s EXCEPT !.out = Append(s.out, m)]
    BY <1>1 DEF send
  <2>2. s.out \in Seq(Requests) /\ up \in Seq(Requests)
    BY DEF States, Types
  <2>3. Append(s.out, m) \in Seq(Requests)
    BY <2>2, AppendProperties
  <2>4. send(s, m) \in States /\ send(s, m).out = Append(s.out, m)
    BY <2>1, <2>3 DEF States
  <2>5. up \o Append(s.out, m) = Append(up \o s.out, m)
    BY <2>2, ConcatAppend
  <2>6. /\ SameBut(s, send(s, m))
        /\ send(s, m).closing = s.closing /\ send(s, m).fate = s.fate
        /\ send(s, m).is_sampling = s.is_sampling
        /\ send(s, m).oa = s.oa /\ send(s, m).tp = s.tp
    BY <2>1 DEF SameBut, States
  <2> QED
    BY <1>1, <2>4, <2>5, <2>6 DEF Pending
<1>2. CASE ~Sent(s)
  BY <1>2 DEF send, SameBut
<1> QED
  BY <1>1, <1>2

\* A request, or one that is dropped, leaves the wrapper and the server in step.
LEMMA RequestInNet ==
    ASSUME Types, NEW s, InNet(s), NEW t \in States, NEW m \in Requests \ {"CLOSE"},
           t.connection = s.connection, t.closing = s.closing,
           Sent(s) => Pending(t) = Append(Pending(s), m),
           ~Sent(s) => Pending(t) = Pending(s),
           t.oa = CASE m = "open oa" -> Opened(s)
                    [] m = "close oa" -> "closed"
                    [] OTHER -> s.oa,
           t.tp = CASE m = "open tp" -> Opened(s)
                    [] m = "close tp" -> "closed"
                    [] OTHER -> s.tp
    PROVE  InNet(t)
<1>1. s \in States
  BY DEF InNet
<1> DEFINE q == Pending(s)
           r == Pending(t)
<1>2. q \in Seq(Requests) /\ Len(q) \in Nat
  BY <1>1, PendingTypes
<1>3. HasOa \in BOOLEAN /\ HasTp \in BOOLEAN
  BY DEF HasOa, HasTp
<1>4. {"open oa", "close oa", "open tp", "close tp", "CLOSE"} \subseteq Requests
  BY DEF Requests
<1>5. /\ s.connection => (OaOn(q) <=> s.oa = "requested") /\ (TpOn(q) <=> s.tp = "requested")
      /\ s.closing => s.oa # "requested" /\ s.tp # "requested"
      /\ s.connection /\ ~s.closing => s.oa # "dropped" /\ s.tp # "dropped"
      /\ \A i \in 1..Len(q) : q[i] = "CLOSE" => s.closing /\ i = Len(q)
      /\ Contains(down, "CLOSE") => s.closing /\ q = <<>>
  BY DEF InNet
<1> HIDE DEF q, r
<1>6. CASE Sent(s)
  <2>1. s.connection /\ ~s.closing /\ Opened(s) = "requested" /\ r = Append(q, m)
    BY <1>6 DEF Sent, Opened, q, r
  <2>2. /\ m = "open oa" => OaOn(r)
        /\ m = "close oa" => ~OaOn(r)
        /\ m # "open oa" /\ m # "close oa" => (OaOn(r) <=> OaOn(q))
    <3>1. {m, "open oa", "close oa"} \subseteq Requests /\ "open oa" # "close oa"
      BY <1>4
    <3>2. /\ m = "open oa" => On(HasOa, Append(q, m), "open oa", "close oa")
          /\ m = "close oa" => ~On(HasOa, Append(q, m), "open oa", "close oa")
          /\ m # "open oa" /\ m # "close oa" =>
                (On(HasOa, Append(q, m), "open oa", "close oa")
                 <=> On(HasOa, q, "open oa", "close oa"))
      BY ONLY <1>2, <1>3, <3>1, OnAppend
    <3> QED
      BY <2>1, <3>2, Zenon DEF OaOn
  <2>3. /\ m = "open tp" => TpOn(r)
        /\ m = "close tp" => ~TpOn(r)
        /\ m # "open tp" /\ m # "close tp" => (TpOn(r) <=> TpOn(q))
    <3>1. {m, "open tp", "close tp"} \subseteq Requests /\ "open tp" # "close tp"
      BY <1>4
    <3>2. /\ m = "open tp" => On(HasTp, Append(q, m), "open tp", "close tp")
          /\ m = "close tp" => ~On(HasTp, Append(q, m), "open tp", "close tp")
          /\ m # "open tp" /\ m # "close tp" =>
                (On(HasTp, Append(q, m), "open tp", "close tp")
                 <=> On(HasTp, q, "open tp", "close tp"))
      BY ONLY <1>2, <1>3, <3>1, OnAppend
    <3> QED
      BY <2>1, <3>2, Zenon DEF TpOn
  <2>4. (OaOn(r) <=> t.oa = "requested") /\ t.oa # "dropped"
    BY <1>5, <2>1, <2>2
  <2>5. (TpOn(r) <=> t.tp = "requested") /\ t.tp # "dropped"
    BY <1>5, <2>1, <2>3
  <2>6. \A i \in 1..Len(r) : r[i] # "CLOSE"
    <3>1. \A i \in 1..Len(q) : q[i] # "CLOSE"
      BY <1>5, <2>1
    <3>2. m \in Requests /\ m # "CLOSE"
      OBVIOUS
    <3>3. \A i \in 1..Len(Append(q, m)) : Append(q, m)[i] # "CLOSE"
      BY <1>2, <3>1, <3>2, AppendWithout, Zenon
    <3> QED
      BY <2>1, <3>3
  <2> QED
    BY <1>5, <2>1, <2>4, <2>5, <2>6 DEF InNet, r
<1>7. CASE ~Sent(s)
  <2>1. r = q /\ ~(s.connection /\ ~s.closing) /\ Opened(s) = "dropped"
    BY <1>7 DEF Sent, Opened, q, r
  <2>2. s.connection => s.closing
    BY <1>1, <2>1 DEF States
  <2>3. s.closing => t.oa # "requested" /\ t.tp # "requested"
    BY <1>5, <2>1
  <2>4. s.connection => (OaOn(r) <=> t.oa = "requested") /\ (TpOn(r) <=> t.tp = "requested")
    BY <1>5, <2>1, <2>2, <2>3
  <2> QED
    BY <1>5, <2>1, <2>3, <2>4 DEF InNet, r
<1> QED
  BY <1>6, <1>7

\* What opening and closing a stream leaves alone.
Keeps(s, t) ==
    /\ t \in States /\ SameBut(s, t)
    /\ t.closing = s.closing /\ t.fate = s.fate

\* The server does not see the other parts of the state.
LEMMA SameNet ==
    ASSUME NEW s, InNet(s), NEW t \in States,
           t.connection = s.connection, t.closing = s.closing,
           t.oa = s.oa, t.tp = s.tp, t.out = s.out
    PROVE  InNet(t)
BY DEF InNet, Pending

\* Each of the four functions asks for one stream, or drops the request.
LEMMA CloseOa ==
    ASSUME Types, NEW s, InNet(s)
    PROVE  LET t == close_oa(s) IN
           /\ InNet(t) /\ Keeps(s, t) /\ t.is_sampling = s.is_sampling
           /\ t.tp = s.tp /\ t.oa = "closed"
<1>1. s \in States
  BY DEF InNet
<1>2. CASE s.oa = "closed"
  BY <1>1, <1>2 DEF close_oa, Keeps, SameBut
<1>3. CASE s.oa # "closed"
  <2> DEFINE u == send(s, "close oa")
             t == [u EXCEPT !.oa = "closed"]
  <2>1. close_oa(s) = t
    BY <1>3 DEF close_oa
  <2>2. "close oa" \in Requests \ {"CLOSE"}
    BY DEF Requests
  <2>3. /\ u \in States /\ SameBut(s, u) /\ u.closing = s.closing /\ u.fate = s.fate
        /\ u.is_sampling = s.is_sampling /\ u.tp = s.tp
        /\ Sent(s) => Pending(u) = Append(Pending(s), "close oa")
        /\ ~Sent(s) => u = s
    BY <1>1, <2>2, SendState
  <2> HIDE DEF u
  <2>4. t \in States /\ t.oa = "closed" /\ t.tp = u.tp /\ t.out = u.out
    BY <2>3 DEF States
  <2>5. /\ SameBut(u, t) /\ t.closing = u.closing /\ t.fate = u.fate
        /\ t.is_sampling = u.is_sampling
    BY <2>3 DEF States, SameBut
  <2> HIDE DEF t
  <2>6. Keeps(s, t) /\ t.connection = s.connection
    BY <2>3, <2>4, <2>5 DEF Keeps, SameBut
  <2>7. /\ Sent(s) => Pending(t) = Append(Pending(s), "close oa")
        /\ ~Sent(s) => Pending(t) = Pending(s)
    BY <2>3, <2>4 DEF Pending
  <2>8. InNet(t)
    BY <2>2, <2>3, <2>4, <2>5, <2>6, <2>7, RequestInNet
  <2> QED
    BY <2>1, <2>3, <2>4, <2>5, <2>6, <2>8
<1> QED
  BY <1>2, <1>3

\* close_stream() of the tracepoint's stream.
LEMMA CloseTp ==
    ASSUME Types, NEW s, InNet(s)
    PROVE  LET t == close_tp(s) IN
           /\ InNet(t) /\ Keeps(s, t) /\ t.is_sampling = s.is_sampling
           /\ t.oa = s.oa /\ t.tp = "closed"
<1>1. s \in States
  BY DEF InNet
<1>2. CASE s.tp = "closed"
  BY <1>1, <1>2 DEF close_tp, Keeps, SameBut
<1>3. CASE s.tp # "closed"
  <2> DEFINE u == send(s, "close tp")
             t == [u EXCEPT !.tp = "closed"]
  <2>1. close_tp(s) = t
    BY <1>3 DEF close_tp
  <2>2. "close tp" \in Requests \ {"CLOSE"}
    BY DEF Requests
  <2>3. /\ u \in States /\ SameBut(s, u) /\ u.closing = s.closing /\ u.fate = s.fate
        /\ u.is_sampling = s.is_sampling /\ u.oa = s.oa
        /\ Sent(s) => Pending(u) = Append(Pending(s), "close tp")
        /\ ~Sent(s) => u = s
    BY <1>1, <2>2, SendState
  <2> HIDE DEF u
  <2>4. t \in States /\ t.tp = "closed" /\ t.oa = u.oa /\ t.out = u.out
    BY <2>3 DEF States
  <2>5. /\ SameBut(u, t) /\ t.closing = u.closing /\ t.fate = u.fate
        /\ t.is_sampling = u.is_sampling
    BY <2>3 DEF States, SameBut
  <2> HIDE DEF t
  <2>6. Keeps(s, t) /\ t.connection = s.connection
    BY <2>3, <2>4, <2>5 DEF Keeps, SameBut
  <2>7. /\ Sent(s) => Pending(t) = Append(Pending(s), "close tp")
        /\ ~Sent(s) => Pending(t) = Pending(s)
    BY <2>3, <2>4 DEF Pending
  <2>8. InNet(t)
    BY <2>2, <2>3, <2>4, <2>5, <2>6, <2>7, RequestInNet
  <2> QED
    BY <2>1, <2>3, <2>4, <2>5, <2>6, <2>8
<1> QED
  BY <1>2, <1>3

\* Opening the OA stream.
LEMMA OpenOa ==
    ASSUME Types, NEW s, InNet(s)
    PROVE  LET t == open_oa(s) IN
           /\ InNet(t) /\ Keeps(s, t) /\ t.is_sampling = s.is_sampling
           /\ t.tp = s.tp /\ (s.metric_set => t.oa # "closed")
<1>1. s \in States
  BY DEF InNet
<1>2. CASE ~s.metric_set
  BY <1>1, <1>2 DEF open_oa, Keeps, SameBut
<1>3. CASE s.metric_set
  <2> DEFINE u == send(s, "open oa")
             t == [u EXCEPT !.oa = Opened(s)]
  <2>1. open_oa(s) = t
    BY <1>3 DEF open_oa
  <2>2. "open oa" \in Requests \ {"CLOSE"}
    BY DEF Requests
  <2>3. /\ u \in States /\ SameBut(s, u) /\ u.closing = s.closing /\ u.fate = s.fate
        /\ u.is_sampling = s.is_sampling /\ u.tp = s.tp
        /\ Sent(s) => Pending(u) = Append(Pending(s), "open oa")
        /\ ~Sent(s) => u = s
    BY <1>1, <2>2, SendState
  <2> HIDE DEF u
  <2>4. t \in States /\ t.oa = Opened(s) /\ t.tp = u.tp /\ t.out = u.out
    BY <2>3 DEF States, Opened
  <2>5. /\ SameBut(u, t) /\ t.closing = u.closing /\ t.fate = u.fate
        /\ t.is_sampling = u.is_sampling
    BY <2>3 DEF States, SameBut
  <2> HIDE DEF t
  <2>6. Keeps(s, t) /\ t.connection = s.connection
    BY <2>3, <2>4, <2>5 DEF Keeps, SameBut
  <2>7. /\ Sent(s) => Pending(t) = Append(Pending(s), "open oa")
        /\ ~Sent(s) => Pending(t) = Pending(s)
    BY <2>3, <2>4 DEF Pending
  <2>8. InNet(t)
    BY <2>2, <2>3, <2>4, <2>5, <2>6, <2>7, RequestInNet
  <2> QED
    BY <2>1, <2>3, <2>4, <2>5, <2>6, <2>8 DEF Opened
<1> QED
  BY <1>2, <1>3

\* Opening the tracepoint's stream.
LEMMA OpenTp ==
    ASSUME Types, NEW s, InNet(s)
    PROVE  LET t == open_tp(s) IN
           /\ InNet(t) /\ Keeps(s, t) /\ t.is_sampling = s.is_sampling
           /\ t.oa = s.oa /\ (s.tracepoint # "none" => t.tp # "closed")
<1>1. s \in States
  BY DEF InNet
<1>2. CASE s.tracepoint = "none"
  BY <1>1, <1>2 DEF open_tp, Keeps, SameBut
<1>3. CASE s.tracepoint # "none"
  <2> DEFINE u == send(s, "open tp")
             t == [u EXCEPT !.tp = Opened(s)]
  <2>1. open_tp(s) = t
    BY <1>3 DEF open_tp
  <2>2. "open tp" \in Requests \ {"CLOSE"}
    BY DEF Requests
  <2>3. /\ u \in States /\ SameBut(s, u) /\ u.closing = s.closing /\ u.fate = s.fate
        /\ u.is_sampling = s.is_sampling /\ u.oa = s.oa
        /\ Sent(s) => Pending(u) = Append(Pending(s), "open tp")
        /\ ~Sent(s) => u = s
    BY <1>1, <2>2, SendState
  <2> HIDE DEF u
  <2>4. t \in States /\ t.tp = Opened(s) /\ t.oa = u.oa /\ t.out = u.out
    BY <2>3 DEF States, Opened
  <2>5. /\ SameBut(u, t) /\ t.closing = u.closing /\ t.fate = u.fate
        /\ t.is_sampling = u.is_sampling
    BY <2>3 DEF States, SameBut
  <2> HIDE DEF t
  <2>6. Keeps(s, t) /\ t.connection = s.connection
    BY <2>3, <2>4, <2>5 DEF Keeps, SameBut
  <2>7. /\ Sent(s) => Pending(t) = Append(Pending(s), "open tp")
        /\ ~Sent(s) => Pending(t) = Pending(s)
    BY <2>3, <2>4 DEF Pending
  <2>8. InNet(t)
    BY <2>2, <2>3, <2>4, <2>5, <2>6, <2>7, RequestInNet
  <2> QED
    BY <2>1, <2>3, <2>4, <2>5, <2>6, <2>8 DEF Opened
<1> QED
  BY <1>2, <1>3

\* gputop_client_context_stop_sampling().
LEMMA StopSampling ==
    ASSUME Types, NEW s, InNet(s), Idle(s)
    PROVE  LET t == stop_sampling(s) IN
           /\ InNet(t) /\ Keeps(s, t) /\ ~t.is_sampling
           /\ t.oa = "closed" /\ t.tp = "closed"
<1>1. CASE ~s.is_sampling
  BY <1>1 DEF stop_sampling, Keeps, SameBut, InNet, Idle
<1>2. CASE s.is_sampling
  <2> DEFINE u == close_oa(s)
             v == close_tp(u)
             t == [v EXCEPT !.is_sampling = FALSE]
  <2>1. stop_sampling(s) = t
    BY <1>2 DEF stop_sampling
  <2>2. InNet(u) /\ Keeps(s, u) /\ u.oa = "closed"
    BY CloseOa
  <2> HIDE DEF u
  <2>3. InNet(v) /\ Keeps(u, v) /\ v.oa = "closed" /\ v.tp = "closed"
    BY <2>2, CloseTp
  <2> HIDE DEF v
  <2>4. v \in States
    BY <2>3 DEF InNet
  <2>5. /\ t \in States /\ SameBut(v, t) /\ t.closing = v.closing /\ t.fate = v.fate
        /\ ~t.is_sampling /\ t.oa = v.oa /\ t.tp = v.tp /\ t.out = v.out
    BY <2>4 DEF States, SameBut
  <2> HIDE DEF t
  <2>6. InNet(t)
    BY <2>3, <2>5, SameNet DEF SameBut
  <2>7. Keeps(s, t)
    BY <2>2, <2>3, <2>5 DEF Keeps, SameBut
  <2> QED
    BY <2>1, <2>3, <2>5, <2>6, <2>7
<1> QED
  BY <1>1, <1>2 DEF InNet, States

\* gputop_client_context_start_sampling().
LEMMA StartSampling ==
    ASSUME Types, NEW s, InNet(s), Idle(s)
    PROVE  LET t == start_sampling(s) IN
           /\ InNet(t) /\ Keeps(s, t) /\ t.is_sampling
           /\ s.metric_set => t.oa # "closed"
           /\ s.tracepoint # "none" => t.tp # "closed"
<1> DEFINE a == stop_sampling(s)
           b == open_oa(a)
           c == open_tp(b)
           t == [c EXCEPT !.is_sampling = TRUE]
<1>1. start_sampling(s) = t
  BY DEF start_sampling
<1>2. InNet(a) /\ Keeps(s, a)
  BY StopSampling
<1> HIDE DEF a
<1>3. InNet(b) /\ Keeps(a, b) /\ (a.metric_set => b.oa # "closed")
  BY <1>2, OpenOa
<1> HIDE DEF b
<1>4. InNet(c) /\ Keeps(b, c) /\ c.oa = b.oa /\ (b.tracepoint # "none" => c.tp # "closed")
  BY <1>3, OpenTp
<1> HIDE DEF c
<1>5. c \in States
  BY <1>4 DEF InNet
<1>6. /\ t \in States /\ SameBut(c, t) /\ t.closing = c.closing /\ t.fate = c.fate
      /\ t.is_sampling /\ t.oa = c.oa /\ t.tp = c.tp /\ t.out = c.out
  BY <1>5 DEF States, SameBut
<1> HIDE DEF t
<1>7. InNet(t)
  BY <1>4, <1>6, SameNet DEF SameBut
<1>8. /\ Keeps(s, t) /\ a.metric_set = s.metric_set /\ b.tracepoint = s.tracepoint
  BY <1>2, <1>3, <1>4, <1>6 DEF Keeps, SameBut
<1> QED
  BY <1>1, <1>3, <1>4, <1>6, <1>7, <1>8

\* gputop_connection_close() after the streams are closed.
LEMMA CloseConnection ==
    ASSUME Types, NEW s, InNet(s), s.oa = "closed", s.tp = "closed"
    PROVE  LET t == close_connection(s) IN
           /\ InNet(t) /\ SameBut(s, t) /\ t.is_sampling = s.is_sampling
           /\ t.oa = "closed" /\ t.tp = "closed"
           /\ s.connection => t.closing /\ t.fate = s.fate
           /\ ~s.connection => t.closing = s.closing /\ t.fate = "aborted"
<1>1. s \in States
  BY DEF InNet
<1>2. CASE ~s.connection
  <2> DEFINE t == [s EXCEPT !.fate = "aborted"]
  <2>1. close_connection(s) = t
    BY <1>2 DEF close_connection
  <2>2. /\ t \in States /\ SameBut(s, t) /\ t.closing = s.closing /\ t.fate = "aborted"
        /\ t.is_sampling = s.is_sampling /\ t.oa = s.oa /\ t.tp = s.tp /\ t.out = s.out
    BY <1>1 DEF States, SameBut
  <2> HIDE DEF t
  <2>3. InNet(t)
    BY <2>2, SameNet DEF SameBut
  <2> QED
    BY <1>2, <2>1, <2>2, <2>3
<1>3. CASE s.connection
  <2> DEFINE u == send(s, "CLOSE")
             t == [u EXCEPT !.closing = TRUE]
             q == Pending(s)
             r == Pending(t)
  <2>1. close_connection(s) = t
    BY <1>3 DEF close_connection
  <2>2. "CLOSE" \in Requests
    BY DEF Requests
  <2>3. /\ u \in States /\ SameBut(s, u) /\ u.fate = s.fate
        /\ u.is_sampling = s.is_sampling /\ u.oa = s.oa /\ u.tp = s.tp
        /\ Sent(s) => Pending(u) = Append(Pending(s), "CLOSE")
        /\ ~Sent(s) => u = s
    BY <1>1, <2>2, SendState
  <2> HIDE DEF u
  <2>4. /\ t \in States /\ SameBut(u, t) /\ t.closing /\ t.fate = u.fate
        /\ t.is_sampling = u.is_sampling /\ t.oa = u.oa /\ t.tp = u.tp /\ t.out = u.out
    BY <2>3 DEF States, SameBut
  <2> HIDE DEF t
  <2>5. SameBut(s, t) /\ t.connection
    BY <1>3, <2>3, <2>4 DEF SameBut
  <2>6. InNet(t)
    <3>1. CASE ~Sent(s)
      <4>1. s.closing
        BY <1>1, <1>3, <3>1 DEF Sent
      <4> QED
        BY <1>3, <2>3, <2>4, <2>5, <3>1, <4>1, SameNet
    <3>2. CASE Sent(s)
      <4>1. ~s.closing /\ r = Append(q, "CLOSE")
        BY <2>3, <2>4, <3>2 DEF Sent, Pending
      <4>2. q \in Seq(Requests) /\ Len(q) \in Nat
        BY <1>1, PendingTypes
      <4>3. \A i \in 1..Len(q) : q[i] # "CLOSE"
        BY <4>1 DEF InNet
      <4>4. ~Contains(down, "CLOSE") /\ ~OaOn(q) /\ ~TpOn(q)
        BY <1>3, <4>1 DEF InNet
      <4> HIDE DEF q, r
      <4>5. \A i \in 1..Len(r) : r[i] = "CLOSE" => i = Len(r)
        BY <2>2, <4>1, <4>2, <4>3
      <4>6. HasOa \in BOOLEAN /\ HasTp \in BOOLEAN
        BY DEF HasOa, HasTp
      <4>7. ~OaOn(r)
        <5>1. {"CLOSE", "open oa", "close oa"} \subseteq Requests /\ "open oa" # "close oa"
          BY DEF Requests
        <5>2. On(HasOa, Append(q, "CLOSE"), "open oa", "close oa")
              <=> On(HasOa, q, "open oa", "close oa")
          BY ONLY <4>2, <4>6, <5>1, OnAppend
        <5> QED
          BY <4>1, <4>4, <5>2, Zenon DEF OaOn
      <4>8. ~TpOn(r)
        <5>1. {"CLOSE", "open tp", "close tp"} \subseteq Requests /\ "open tp" # "close tp"
          BY DEF Requests
        <5>2. On(HasTp, Append(q, "CLOSE"), "open tp", "close tp")
              <=> On(HasTp, q, "open tp", "close tp")
          BY ONLY <4>2, <4>6, <5>1, OnAppend
        <5> QED
          BY <4>1, <4>4, <5>2, Zenon DEF TpOn
      <4> QED
        BY <2>3, <2>4, <4>4, <4>5, <4>7, <4>8 DEF InNet, r
    <3> QED
      BY <3>1, <3>2
  <2> QED
    BY <1>3, <2>1, <2>3, <2>4, <2>5, <2>6
<1> QED
  BY <1>2, <1>3

\* quit().
LEMMA Quit ==
    ASSUME Types, NEW s, InNet(s), Idle(s)
    PROVE  LET t == quit(s) IN
           /\ InNet(t) /\ SameBut(s, t) /\ ~t.is_sampling
           /\ t.oa = "closed" /\ t.tp = "closed"
           /\ s.connection => t.closing /\ t.fate = s.fate
           /\ ~s.connection => t.closing = s.closing /\ t.fate = "aborted"
<1> DEFINE u == stop_sampling(s)
<1>1. InNet(u) /\ Keeps(s, u) /\ ~u.is_sampling /\ u.oa = "closed" /\ u.tp = "closed"
  BY StopSampling
<1>2. quit(s) = close_connection(u)
  BY DEF quit
<1> HIDE DEF u
<1> QED
  BY <1>1, <1>2, CloseConnection DEF Keeps, SameBut

-----------------------------------------------------------------------------
(***************************************************************************)
(* What the handling of a message does to the state.                       *)
(***************************************************************************)

Ready(s) == InNet(s) /\ Idle(s) /\ Knows(s)

\* Quitting forgets the streams; with a connection it begins to close.
LEMMA QuitReady ==
    ASSUME Types, NEW s, InNet(s), Idle(s), s.connection,
           ~s.features => s.pid # 1 /\ ~s.features_handled
    PROVE  Ready(quit(s)) /\ quit(s).closing /\ SameBut(s, quit(s)) /\ quit(s).fate = s.fate
<1> DEFINE t == quit(s)
<1>1. /\ InNet(t) /\ SameBut(s, t) /\ ~t.is_sampling /\ t.oa = "closed" /\ t.tp = "closed"
      /\ t.closing /\ t.fate = s.fate
  BY Quit
<1> HIDE DEF t
<1>2. Idle(t) /\ Knows(t)
  BY <1>1 DEF Idle, Knows, SameBut
<1> QED
  BY <1>1, <1>2 DEF Ready, t

\* gputop_client_context_handle_data().
LEMMA HandleData ==
    ASSUME Types, NEW s, Ready(s), s.connection, s.fate = "runs", NEW m,
           NEW t \in handle_data(s, m)
    PROVE  /\ Ready(t) /\ t.connection /\ t.fate = "runs" /\ t.pid = s.pid
           /\ t.features = (s.features \/ m = "features") /\ t.early = s.early
<1>1. s \in States /\ InNet(s) /\ Idle(s) /\ Knows(s)
  BY DEF Ready, InNet
<1>2. CASE m = "features"
  <2>1. t = [s EXCEPT !.features = TRUE]
    BY <1>2 DEF handle_data
  <2>2. /\ t \in States /\ t.features
        /\ t.connection = s.connection /\ t.closing = s.closing /\ t.fate = s.fate
        /\ t.features_handled = s.features_handled /\ t.metric_set = s.metric_set
        /\ t.tracepoint = s.tracepoint /\ t.pid = s.pid /\ t.is_sampling = s.is_sampling
        /\ t.oa = s.oa /\ t.tp = s.tp /\ t.out = s.out /\ t.early = s.early
    BY <1>1, <2>1 DEF States
  <2>3. InNet(t)
    BY <1>1, <2>2, SameNet
  <2>4. Idle(t) /\ Knows(t)
    BY <1>1, <1>2, <2>2 DEF Idle, Knows
  <2> QED
    BY <1>2, <2>2, <2>3, <2>4 DEF Ready
<1>3. CASE m = "info"
  <2>1. t = [s EXCEPT !.tracepoint = "known"]
    BY <1>3 DEF handle_data
  <2>2. /\ t \in States /\ t.tracepoint = "known"
        /\ t.connection = s.connection /\ t.closing = s.closing /\ t.fate = s.fate
        /\ t.features_handled = s.features_handled /\ t.metric_set = s.metric_set
        /\ t.features = s.features /\ t.pid = s.pid /\ t.is_sampling = s.is_sampling
        /\ t.oa = s.oa /\ t.tp = s.tp /\ t.out = s.out /\ t.early = s.early
    BY <1>1, <2>1 DEF States
  <2>3. InNet(t)
    BY <1>1, <2>2, SameNet
  <2>4. Idle(t) /\ Knows(t)
    BY <1>1, <2>2 DEF Idle, Knows
  <2> QED
    BY <1>1, <1>3, <2>2, <2>3, <2>4 DEF Ready, States
<1>4. CASE m # "features" /\ m # "info"
  <2>1. t = s \/ t = quit(s)
    BY <1>4 DEF handle_data, print_columns
  <2>2. Ready(quit(s)) /\ SameBut(s, quit(s)) /\ quit(s).fate = s.fate
    BY <1>1, QuitReady DEF Knows
  <2> QED
    BY <1>1, <1>4, <2>1, <2>2 DEF SameBut, States
<1> QED
  BY <1>2, <1>3, <1>4

\* Sampling starts once the features are known, or too early.
LEMMA StartReady ==
    ASSUME Types, NEW s, InNet(s), Idle(s),
           ~s.features => s.pid # 1 /\ ~s.features_handled,
           s.features /\ ~s.closing => s.metric_set /\ (s.pid # 0 => s.tracepoint # "none"),
           s.features \/ s.early
    PROVE  /\ Ready(start_sampling(s)) /\ SameBut(s, start_sampling(s))
           /\ start_sampling(s).closing = s.closing
<1> DEFINE t == start_sampling(s)
<1>1. /\ InNet(t) /\ Keeps(s, t) /\ t.is_sampling
      /\ s.metric_set => t.oa # "closed"
      /\ s.tracepoint # "none" => t.tp # "closed"
  BY StartSampling
<1> HIDE DEF t
<1>2. SameBut(s, t) /\ t.closing = s.closing
  BY <1>1 DEF Keeps
<1>3. Idle(t) /\ Knows(t)
  BY <1>1, <1>2 DEF Idle, Knows, SameBut
<1> QED
  BY <1>1, <1>2, <1>3 DEF Ready, t

\* The first features message.
LEMMA FirstFeatures ==
    ASSUME Types, NEW s, Ready(s), s.connection, s.features, ~s.features_handled
    PROVE  LET t == first_features(s) IN
           Ready(t) /\ t.connection /\ t.pid = s.pid /\ t.features = s.features
<1> DEFINE u == [s EXCEPT !.features_handled = TRUE, !.metric_set = args.metric]
<1>1. s \in States /\ InNet(s) /\ Idle(s) /\ Knows(s)
  BY DEF Ready, InNet
<1>2. args.metric \in BOOLEAN /\ (~args.metric => args.lists) /\ args.lists \in BOOLEAN
  BY DEF Types
<1>3. /\ u \in States /\ u.features_handled /\ u.metric_set = args.metric
      /\ u.connection = s.connection /\ u.closing = s.closing /\ u.fate = s.fate
      /\ u.features = s.features /\ u.tracepoint = s.tracepoint /\ u.pid = s.pid
      /\ u.is_sampling = s.is_sampling /\ u.oa = s.oa /\ u.tp = s.tp /\ u.out = s.out
      /\ u.early = s.early
  BY <1>1, <1>2 DEF States
<1>4. first_features(s) =
         CASE args.lists -> quit(u)
           [] ~args.lists /\ u.pid # 0 -> [send(u, "info") EXCEPT !.tracepoint = "asked"]
           [] ~args.lists /\ u.pid = 0 -> start_sampling(u)
  BY DEF first_features
<1> HIDE DEF u
<1>5. InNet(u) /\ Idle(u)
  BY <1>1, <1>3, SameNet DEF Idle
<1>6. CASE args.lists
  <2>1. first_features(s) = quit(u)
    BY <1>4, <1>6
  <2>2. Ready(quit(u)) /\ SameBut(u, quit(u))
    BY <1>3, <1>5, QuitReady
  <2> QED
    BY <1>3, <2>1, <2>2 DEF SameBut
<1>7. CASE ~args.lists /\ u.pid # 0
  <2> DEFINE v == send(u, "info")
             t == [v EXCEPT !.tracepoint = "asked"]
  <2>1. first_features(s) = t
    BY <1>4, <1>7
  <2>2. "info" \in Requests \ {"CLOSE"}
    BY DEF Requests
  <2>3. /\ v \in States /\ SameBut(u, v)
        /\ v.closing = u.closing /\ v.fate = u.fate /\ v.is_sampling = u.is_sampling
        /\ v.oa = u.oa /\ v.tp = u.tp
        /\ Sent(u) => Pending(v) = Append(Pending(u), "info")
        /\ ~Sent(u) => v = u
    BY <1>3, <2>2, SendState
  <2> HIDE DEF v
  <2>4. v.connection = u.connection
    BY <2>3 DEF SameBut
  <2>5. InNet(v)
    <3>1. ~Sent(u) => Pending(v) = Pending(u)
      BY <2>3
    <3> QED
      BY <1>5, <2>2, <2>3, <2>4, <3>1, RequestInNet
  <2>6. /\ t \in States /\ t.tracepoint = "asked"
        /\ t.connection = v.connection /\ t.closing = v.closing /\ t.fate = v.fate
        /\ t.features = v.features /\ t.features_handled = v.features_handled
        /\ t.metric_set = v.metric_set /\ t.pid = v.pid /\ t.is_sampling = v.is_sampling
        /\ t.oa = v.oa /\ t.tp = v.tp /\ t.out = v.out /\ t.early = v.early
    BY <2>3 DEF States
  <2> HIDE DEF t
  <2>7. InNet(t)
    BY <2>5, <2>6, SameNet
  <2>8. Idle(t)
    BY <1>5, <2>3, <2>6 DEF Idle
  <2>9. /\ t.connection = s.connection /\ t.closing = s.closing /\ t.fate = s.fate
        /\ t.features = s.features /\ t.features_handled /\ t.metric_set = args.metric
        /\ t.pid = s.pid /\ t.is_sampling = s.is_sampling /\ t.oa = s.oa /\ t.tp = s.tp
        /\ t.early = s.early
    BY <1>3, <2>3, <2>6 DEF SameBut
  <2>10. Knows(t)
    BY <1>1, <1>2, <1>7, <2>6, <2>9 DEF Knows
  <2> QED
    BY <2>1, <2>7, <2>8, <2>9, <2>10 DEF Ready
<1>8. CASE ~args.lists /\ u.pid = 0
  <2>1. first_features(s) = start_sampling(u)
    BY <1>4, <1>8
  <2>2. Ready(start_sampling(u)) /\ SameBut(u, start_sampling(u))
    BY <1>2, <1>3, <1>5, <1>8, StartReady
  <2> QED
    BY <1>3, <2>1, <2>2 DEF SameBut
<1> QED
  BY <1>2, <1>6, <1>7, <1>8

\* The program is started.
LEMMA ChildProcess ==
    ASSUME Types, NEW s, Ready(s), s.connection, s.is_sampling, s.pid = -1,
           NEW t \in start_child_process(s)
    PROVE  Ready(t) /\ t.connection /\ (t.pid = s.pid \/ t.pid = 1) /\ t.features = s.features
<1>1. s \in States /\ InNet(s) /\ Idle(s) /\ Knows(s)
  BY DEF Ready, InNet
<1>2. CASE t = quit(s)
  <2>1. Ready(quit(s)) /\ SameBut(s, quit(s))
    BY <1>1, QuitReady DEF Knows
  <2> QED
    BY <1>2, <2>1 DEF SameBut
<1>3. CASE t # quit(s)
  <2>1. s.features /\ (t = [s EXCEPT !.pid = 1, !.fate = "shared"] \/ t = [s EXCEPT !.pid = 1])
    BY <1>3 DEF start_child_process
  <2>2. /\ t \in States /\ t.pid = 1
        /\ t.connection = s.connection /\ t.closing = s.closing
        /\ t.features = s.features /\ t.features_handled = s.features_handled
        /\ t.metric_set = s.metric_set /\ t.tracepoint = s.tracepoint
        /\ t.is_sampling = s.is_sampling /\ t.early = s.early
        /\ t.oa = s.oa /\ t.tp = s.tp /\ t.out = s.out
    <3>1. CASE t = [s EXCEPT !.pid = 1, !.fate = "shared"]
      BY <1>1, <3>1 DEF States
    <3>2. CASE t = [s EXCEPT !.pid = 1]
      BY <1>1, <3>2 DEF States
    <3> QED
      BY <2>1, <3>1, <3>2
  <2>3. InNet(t) /\ Idle(t)
    BY <1>1, <2>2, SameNet DEF Idle
  <2>4. Knows(t)
    BY <1>1, <2>1, <2>2 DEF Knows
  <2> QED
    BY <2>2, <2>3, <2>4 DEF Ready
<1> QED
  BY <1>2, <1>3

\* on_data().
LEMMA OnData ==
    ASSUME Types, NEW s, Ready(s), s.connection, s.features \/ s.early,
           NEW t \in on_data(s)
    PROVE  Ready(t) /\ t.connection /\ (t.pid = s.pid \/ t.pid = 1) /\ t.features = s.features
<1>1. s \in States /\ InNet(s) /\ Idle(s) /\ Knows(s)
  BY DEF Ready, InNet
<1>2. /\ s.features \in BOOLEAN /\ s.features_handled \in BOOLEAN
      /\ s.is_sampling \in BOOLEAN
  BY <1>1 DEF States
<1>3. CASE ~s.features_handled /\ s.features
  <2>1. t = first_features(s)
    BY <1>3 DEF on_data
  <2> QED
    BY <1>3, <2>1, FirstFeatures
<1>4. CASE (s.features_handled \/ ~s.features) /\ ~s.is_sampling
  <2>1. t = s \/ t = start_sampling(s)
    BY <1>4 DEF on_data
  <2>2. Ready(start_sampling(s)) /\ SameBut(s, start_sampling(s))
    BY <1>1, <1>2, <1>4, StartReady DEF Knows
  <2> QED
    BY <2>1, <2>2 DEF SameBut
<1>5. CASE (s.features_handled \/ ~s.features) /\ s.is_sampling
  <2>1. t = s \/ (s.pid = -1 /\ t \in start_child_process(s))
    BY <1>5 DEF on_data
  <2> QED
    BY <1>5, <2>1, ChildProcess
<1> QED
  BY <1>2, <1>3, <1>4, <1>5

-----------------------------------------------------------------------------
(***************************************************************************)
(* The actions.                                                            *)
(***************************************************************************)

\* What was done to the client becomes its state, and its messages are sent.
LEMMA BecomesReady ==
    ASSUME Types, NEW s, Ready(s), Becomes(s), UNCHANGED <<args, server>>,
           Contains(down', "CLOSE") => Contains(down, "CLOSE")
    PROVE  /\ Ready(w)' /\ w' \in States /\ w'.out = <<>>
           /\ up' = Pending(s) /\ up' \in Seq(Requests)
           /\ w'.connection = s.connection /\ w'.features = s.features
           /\ w'.closing = s.closing /\ w'.pid = s.pid /\ w'.is_sampling = s.is_sampling
           /\ w'.oa = s.oa /\ w'.tp = s.tp
<1>1. s \in States /\ InNet(s) /\ Idle(s) /\ Knows(s)
  BY DEF Ready, InNet
<1>2. <<>> \in Seq(Requests)
  OBVIOUS
<1>3. w' = [s EXCEPT !.out = <<>>] /\ up' = Pending(s)
  BY DEF Becomes, Pending
<1>4. /\ w' \in States /\ w'.out = <<>>
      /\ w'.connection = s.connection /\ w'.features = s.features
      /\ w'.closing = s.closing /\ w'.pid = s.pid /\ w'.is_sampling = s.is_sampling
      /\ w'.oa = s.oa /\ w'.tp = s.tp /\ w'.features_handled = s.features_handled
      /\ w'.metric_set = s.metric_set /\ w'.tracepoint = s.tracepoint /\ w'.fate = s.fate
      /\ w'.early = s.early
  BY <1>1, <1>2, <1>3 DEF States
<1>5. up' \in Seq(Requests)
  BY <1>1, <1>3, PendingTypes
<1>6. Pending(w)' = Pending(s)
  <2>1. up' \o <<>> = up'
    BY <1>5, ConcatEmptySeq
  <2> QED
    BY <1>3, <1>4, <2>1 DEF Pending
<1>7. /\ OaOn(Pending(w))' <=> OaOn(Pending(s))
      /\ TpOn(Pending(w))' <=> TpOn(Pending(s))
  BY <1>6 DEF OaOn, TpOn, HasOa, HasTp, On
<1>8. InNet(w)'
  BY <1>1, <1>4, <1>6, <1>7 DEF InNet
<1>9. Idle(w)' /\ Knows(w)'
  BY <1>1, <1>4 DEF Idle, Knows
<1> QED
  BY <1>3, <1>4, <1>5, <1>8, <1>9 DEF Ready

\* The rest of the invariant in a step in which a handler runs.
LEMMA BecomesInductive ==
    ASSUME IInv, NEW s, Ready(s), Becomes(s), UNCHANGED <<args, server, loop>>,
           down' = down, UNCHANGED conn, UNCHANGED program,
           {sigint', sigchld'} \subseteq {"armed", "raised", "handled"},
           s.connection = w.connection, s.features = w.features, s.pid = w.pid,
           conn \in {"connecting", "handshake"} =>
               /\ ~s.closing /\ ~s.is_sampling /\ s.oa = "closed" /\ s.tp = "closed"
               /\ Pending(s) = <<>>
    PROVE  IInv'
<1>1. Types
  BY DEF IInv
<1>2. /\ Ready(w)' /\ w' \in States /\ w'.out = <<>>
      /\ up' = Pending(s) /\ up' \in Seq(Requests)
      /\ w'.connection = s.connection /\ w'.features = s.features
      /\ w'.closing = s.closing /\ w'.pid = s.pid /\ w'.is_sampling = s.is_sampling
      /\ w'.oa = s.oa /\ w'.tp = s.tp
  BY <1>1, BecomesReady
<1>3. Types'
  BY <1>1, <1>2 DEF Types
<1>4. (w.connection <=> conn \in {"open", "deaf"})'
  BY <1>2 DEF IInv
<1>5. (conn \in {"connecting", "handshake"} => Fresh)'
  BY <1>2 DEF IInv, Fresh
<1>8. (program # "none" => w.pid = 1)' /\ StreamsClosedFirst'
  BY <1>2 DEF IInv, StreamsClosedFirst
<1> QED
  BY <1>2, <1>3, <1>4, <1>5, <1>8 DEF IInv, Ready

\* A step that leaves the wrapper's state and the messages alone.
LEMMA NothingSent ==
    ASSUME IInv, UNCHANGED <<args, w, up, down, server>>,
           {sigint', sigchld'} \subseteq {"armed", "raised", "handled"},
           program' \in {"none", "runs", "exited"}, program' # "none" => program # "none",
           loop' \in {"running", "stopping", "stopped"},
           \/ conn' = conn
           \/ conn = "connecting" /\ conn' = "handshake"
           \/ conn = "open" /\ conn' = "deaf"
    PROVE  IInv'
<1>1. Types'
  BY DEF IInv, Types
<1>2. InNet(w)'
  <2>1. Pending(w)' = Pending(w)
    BY DEF Pending
  <2>2. (OaOn(Pending(w))' <=> OaOn(Pending(w))) /\ (TpOn(Pending(w))' <=> TpOn(Pending(w)))
    BY <2>1 DEF OaOn, TpOn, HasOa, HasTp, On
  <2> QED
    BY <2>1, <2>2 DEF IInv, InNet
<1>3. Idle(w)' /\ Knows(w)'
  BY DEF IInv, Idle, Knows
<1>4. /\ (w.connection <=> conn \in {"open", "deaf"})'
      /\ (conn \in {"connecting", "handshake"} => Fresh)'
  BY DEF IInv, Fresh
<1>5. (program # "none" => w.pid = 1)' /\ StreamsClosedFirst'
  BY DEF IInv, StreamsClosedFirst
<1> QED
  BY <1>1, <1>2, <1>3, <1>4, <1>5 DEF IInv

\* gputop_connection_end(): nothing can be sent any more.
LEMMA EndStep ==
    ASSUME IInv, connection_end
    PROVE  IInv'
<1>1. /\ conn' = "ended" /\ w' = [w EXCEPT !.connection = FALSE] /\ loop' = "stopping"
      /\ UNCHANGED <<args, sigint, sigchld, program, up, down, server>>
  BY DEF connection_end
<1>2. w \in States /\ w.out = <<>> /\ InNet(w) /\ Idle(w) /\ Knows(w)
  BY DEF IInv, Types
<1>3. /\ w' \in States /\ ~w'.connection /\ w'.closing = w.closing /\ w'.fate = w.fate
      /\ w'.features = w.features /\ w'.features_handled = w.features_handled
      /\ w'.metric_set = w.metric_set /\ w'.tracepoint = w.tracepoint /\ w'.pid = w.pid
      /\ w'.is_sampling = w.is_sampling /\ w'.oa = w.oa /\ w'.tp = w.tp /\ w'.out = w.out
      /\ w'.early = w.early
  BY <1>1, <1>2 DEF States
<1>4. Pending(w)' = Pending(w)
  BY <1>1, <1>3 DEF Pending
<1>5. InNet(w)'
  BY <1>1, <1>2, <1>3, <1>4 DEF InNet
<1>6. Idle(w)' /\ Knows(w)'
  BY <1>1, <1>2, <1>3 DEF Idle, Knows
<1>7. Types'
  BY <1>1, <1>2, <1>3 DEF IInv, Types
<1>8. StreamsClosedFirst' /\ (program # "none" => w.pid = 1)'
  BY <1>1, <1>3 DEF IInv, StreamsClosedFirst
<1> QED
  BY <1>1, <1>3, <1>5, <1>6, <1>7, <1>8 DEF IInv

\* quit(), called with the wrapper's state but for what the server does not see.
LEMMA QuitStep ==
    ASSUME IInv, NEW s, Ready(s), Becomes(quit(s)),
           s.connection = w.connection, s.features = w.features, s.pid = w.pid,
           s.closing = w.closing, s.is_sampling = w.is_sampling, s.out = w.out,
           UNCHANGED <<args, conn, program, loop, down, server>>,
           {sigint', sigchld'} \subseteq {"armed", "raised", "handled"}
    PROVE  IInv'
<1> DEFINE t == quit(s)
<1>1. Types /\ InNet(s) /\ Idle(s) /\ Knows(s) /\ s \in States /\ s.out = <<>>
  BY DEF IInv, Types, Ready, InNet
<1>2. /\ InNet(t) /\ SameBut(s, t) /\ ~t.is_sampling
      /\ t.oa = "closed" /\ t.tp = "closed"
      /\ s.connection => t.closing /\ t.fate = s.fate
      /\ ~s.connection => t.closing = s.closing /\ t.fate = "aborted"
  BY <1>1, Quit
<1>3. ASSUME conn \in {"connecting", "handshake"}
      PROVE  ~t.closing /\ Pending(t) = <<>>
  <2>1. Fresh /\ ~s.connection /\ up = <<>>
    BY <1>1, <1>3 DEF IInv, Fresh, States
  <2>2. stop_sampling(s) = s
    BY <2>1 DEF Fresh, stop_sampling
  <2>3. t = [s EXCEPT !.fate = "aborted"]
    BY <2>1, <2>2 DEF quit, close_connection
  <2>4. t.out = s.out
    BY <1>1, <2>3 DEF States
  <2>5. ~t.closing
    BY <1>2, <2>1 DEF Fresh
  <2>6. Pending(t) = <<>> \o <<>>
    BY <1>1, <2>1, <2>4 DEF Pending
  <2> QED
    BY <2>5, <2>6, ConcatEmptySeq
<1> HIDE DEF t
<1>4. Idle(t) /\ Knows(t)
  BY <1>1, <1>2 DEF Idle, Knows, SameBut, States
<1>5. Ready(t) /\ t.connection = w.connection /\ t.features = w.features /\ t.pid = w.pid
  BY <1>2, <1>4 DEF Ready, SameBut
<1>6. Becomes(t)
  BY DEF t
<1> QED
  BY <1>2, <1>3, <1>5, <1>6, BecomesInductive

\* Ctrl-C.
LEMMA CtrlCStep ==
    ASSUME IInv, on_ctrl_c
    PROVE  IInv'
<1>1. Ready(w) /\ {sigint', sigchld'} \subseteq {"armed", "raised", "handled"}
  BY DEF IInv, Ready, on_ctrl_c, Types
<1> QED
  BY <1>1, QuitStep DEF on_ctrl_c

\* The timer after the program's end.
LEMMA ChildTimerStep ==
    ASSUME IInv, on_child_timer
    PROVE  IInv'
<1> DEFINE s == [w EXCEPT !.timer = "fired"]
<1>1. w \in States /\ InNet(w) /\ Idle(w) /\ Knows(w)
  BY DEF IInv, Types
<1>2. /\ s \in States /\ s.connection = w.connection /\ s.closing = w.closing
      /\ s.features = w.features /\ s.features_handled = w.features_handled
      /\ s.metric_set = w.metric_set /\ s.tracepoint = w.tracepoint /\ s.pid = w.pid
      /\ s.is_sampling = w.is_sampling /\ s.oa = w.oa /\ s.tp = w.tp /\ s.out = w.out
      /\ s.fate = w.fate /\ s.early = w.early
  BY <1>1 DEF States
<1>3. Becomes(quit(s)) /\ UNCHANGED <<args, conn, sigint, sigchld, program, loop, down, server>>
  BY DEF on_child_timer
<1> HIDE DEF s
<1>4. InNet(s)
  BY <1>1, <1>2, SameNet
<1>5. Ready(s)
  BY <1>1, <1>2, <1>4 DEF Ready, Idle, Knows
<1>6. {sigint', sigchld'} \subseteq {"armed", "raised", "handled"}
  BY <1>3 DEF IInv, Types
<1> QED
  BY <1>2, <1>3, <1>5, <1>6, QuitStep

\* The end of the program.
LEMMA ChildExitStep ==
    ASSUME IInv, on_child_process_exit
    PROVE  IInv'
<1> DEFINE s == [w EXCEPT !.child_exited = TRUE, !.timer = "armed"]
<1>1. /\ Types /\ w \in States /\ InNet(w) /\ Idle(w) /\ Knows(w)
      /\ w.out = <<>> /\ up \in Seq(Requests)
  BY DEF IInv, Types
<1>2. /\ s \in States /\ s.connection = w.connection /\ s.closing = w.closing
      /\ s.features = w.features /\ s.features_handled = w.features_handled
      /\ s.metric_set = w.metric_set /\ s.tracepoint = w.tracepoint /\ s.pid = w.pid
      /\ s.is_sampling = w.is_sampling /\ s.oa = w.oa /\ s.tp = w.tp /\ s.out = w.out
      /\ s.fate = w.fate /\ s.early = w.early /\ s = [s EXCEPT !.out = <<>>]
  BY <1>1 DEF States
<1>3. w' = s /\ UNCHANGED <<args, conn, sigint, program, loop, up, down, server>>
  BY DEF on_child_process_exit
<1> HIDE DEF s
<1>4. InNet(s)
  BY <1>1, <1>2, SameNet
<1>5. Ready(s)
  BY <1>1, <1>2, <1>4 DEF Ready, Idle, Knows
<1>6. {sigint', sigchld'} \subseteq {"armed", "raised", "handled"}
  BY <1>3 DEF on_child_process_exit, IInv, Types
<1>7. up \o s.out = up
  BY <1>1, <1>2, ConcatEmptySeq
<1>8. Becomes(s)
  BY <1>2, <1>3, <1>7 DEF Becomes
<1>9. conn \in {"connecting", "handshake"} =>
         /\ ~s.closing /\ ~s.is_sampling /\ s.oa = "closed" /\ s.tp = "closed"
         /\ Pending(s) = <<>>
  BY <1>2, <1>7 DEF IInv, Fresh, Pending
<1> QED
  BY <1>2, <1>3, <1>5, <1>6, <1>8, <1>9, BecomesInductive

\* The first read, with the handshake.
LEMMA FirstReadStep ==
    ASSUME IInv, on_uv_read_first
    PROVE  IInv'
<1> DEFINE a == [w EXCEPT !.connection = TRUE]
           b == send(a, "features")
           c == send(b, "open cpu")
<1>1. /\ Types /\ Fresh /\ w \in States /\ InNet(w) /\ Idle(w) /\ Knows(w)
      /\ w.out = <<>> /\ up = <<>> /\ down = <<>> /\ ~w.closing
      /\ conn = "handshake" /\ conn' \in {"open", "deaf"}
      /\ UNCHANGED <<args, sigint, sigchld, program, loop, down, server>>
  BY DEF IInv, Types, Fresh, on_uv_read_first
<1>2. Becomes(c)
  BY DEF on_uv_read_first, on_ready
<1>3. /\ a \in States /\ a.connection /\ a.closing = w.closing
      /\ a.features = w.features /\ a.features_handled = w.features_handled
      /\ a.metric_set = w.metric_set /\ a.tracepoint = w.tracepoint /\ a.pid = w.pid
      /\ a.is_sampling = w.is_sampling /\ a.oa = w.oa /\ a.tp = w.tp /\ a.out = w.out
      /\ a.fate = w.fate /\ a.early = w.early
  BY <1>1 DEF States
<1> HIDE DEF a
<1>4. Pending(a) = <<>>
  <2>1. Pending(a) = <<>> \o <<>>
    BY <1>1, <1>3 DEF Pending
  <2> QED
    BY <2>1, ConcatEmptySeq
<1>5. InNet(a)
  <2>1. ~HasOa /\ ~HasTp /\ a.oa = "closed" /\ a.tp = "closed"
    BY <1>1, <1>3 DEF Fresh, HasOa, HasTp
  <2>2. ~OaOn(<<>>) /\ ~TpOn(<<>>)
    <3>1. HasOa \in BOOLEAN /\ HasTp \in BOOLEAN
      BY DEF HasOa, HasTp
    <3> QED
      BY <2>1, <3>1, OnEmpty DEF OaOn, TpOn
  <2>3. ~Contains(down, "CLOSE")
    BY <1>1 DEF Contains
  <2> QED
    BY <1>1, <1>3, <1>4, <2>1, <2>2, <2>3 DEF InNet
<1>6. Sent(a) /\ "features" \in Requests \ {"CLOSE"} /\ "open cpu" \in Requests \ {"CLOSE"}
  BY <1>1, <1>3 DEF Sent, Requests
<1>7. /\ b \in States /\ SameBut(a, b) /\ b.closing = a.closing /\ b.fate = a.fate
      /\ b.is_sampling = a.is_sampling /\ b.oa = a.oa /\ b.tp = a.tp
      /\ Pending(b) = Append(Pending(a), "features")
  BY <1>1, <1>3, <1>6, SendState
<1> HIDE DEF b
<1>8. InNet(b) /\ Sent(b)
  <2>1. b.connection = a.connection
    BY <1>7 DEF SameBut
  <2> QED
    BY <1>1, <1>5, <1>6, <1>7, <2>1, RequestInNet DEF Sent
<1>9. /\ c \in States /\ SameBut(b, c) /\ c.closing = b.closing /\ c.fate = b.fate
      /\ c.is_sampling = b.is_sampling /\ c.oa = b.oa /\ c.tp = b.tp
      /\ Pending(c) = Append(Pending(b), "open cpu")
  BY <1>1, <1>6, <1>7, <1>8, SendState
<1> HIDE DEF c
<1>10. InNet(c)
  <2>1. c.connection = b.connection
    BY <1>9 DEF SameBut
  <2> QED
    BY <1>1, <1>6, <1>7, <1>8, <1>9, <2>1, RequestInNet
<1>11. /\ c.connection /\ c.features = w.features /\ c.features_handled = w.features_handled
       /\ c.metric_set = w.metric_set /\ c.tracepoint = w.tracepoint /\ c.pid = w.pid
       /\ c.closing = w.closing /\ c.fate = w.fate
       /\ c.is_sampling = w.is_sampling /\ c.oa = w.oa /\ c.tp = w.tp /\ c.early = w.early
  BY <1>3, <1>7, <1>9 DEF SameBut
<1>12. Ready(c)
  BY <1>1, <1>10, <1>11 DEF Ready, Idle, Knows
<1>13. /\ Ready(w)' /\ w' \in States /\ w'.out = <<>>
       /\ up' = Pending(c) /\ up' \in Seq(Requests)
       /\ w'.connection = c.connection /\ w'.features = c.features /\ w'.pid = c.pid
  BY <1>1, <1>2, <1>12, BecomesReady
<1>15. Types'
  BY <1>1, <1>13 DEF Types
<1>17. (program # "none" => w.pid = 1)' /\ StreamsClosedFirst'
  BY <1>1, <1>11, <1>13 DEF IInv, StreamsClosedFirst
<1> QED
  BY <1>1, <1>11, <1>13, <1>15, <1>17 DEF IInv, Ready

\* A read.
LEMMA ReadStep ==
    ASSUME IInv, on_uv_read
    PROVE  IInv'
<1> DEFINE m == down[1]
           v == Early(w, m)
<1>1. /\ Types /\ Ready(w) /\ w.connection /\ w.fate = "runs" /\ conn = "open"
      /\ down \in Seq(Messages) /\ down # <<>> /\ down' = Tail(down)
      /\ UNCHANGED <<args, conn, sigint, sigchld, loop, server>>
  BY DEF IInv, Types, Ready, on_uv_read, Running
<1>2. /\ Tail(down) \in Seq(Messages)
      /\ \A x : Contains(Tail(down), x) => Contains(down, x)
  <2>1. Tail(down) \in Seq(Messages) /\ Len(Tail(down)) = Len(down) - 1 /\ Len(down) \in Nat
    BY <1>1
  <2>2. \A i \in 1..Len(Tail(down)) : i + 1 \in 1..Len(down) /\ Tail(down)[i] = down[i + 1]
    BY <1>1, <2>1
  <2> QED
    BY <2>1, <2>2 DEF Contains
<1>3. Ready(v) /\ v.connection /\ v.fate = "runs" /\ v.pid = w.pid
  <2>1. w \in States /\ InNet(w) /\ Idle(w) /\ Knows(w)
    BY <1>1 DEF Ready, InNet
  <2>2. /\ v \in States /\ v.connection = w.connection /\ v.closing = w.closing
        /\ v.features = w.features /\ v.features_handled = w.features_handled
        /\ v.metric_set = w.metric_set /\ v.tracepoint = w.tracepoint /\ v.pid = w.pid
        /\ v.is_sampling = w.is_sampling /\ v.oa = w.oa /\ v.tp = w.tp /\ v.out = w.out
        /\ v.fate = w.fate /\ (w.early => v.early)
    BY <2>1 DEF States, Early
  <2> HIDE DEF v
  <2>3. InNet(v)
    BY <2>1, <2>2, SameNet
  <2>4. Idle(v) /\ Knows(v)
    BY <2>1, <2>2 DEF Idle, Knows
  <2> QED
    BY <1>1, <2>2, <2>3, <2>4 DEF Ready
<1>4. v.features \/ m = "features" \/ v.early
  BY <1>1 DEF Ready, InNet, States, Early
<1>5. PICK s \in handle_data(v, m) :
         IF s.fate # "runs" THEN Becomes(s) /\ UNCHANGED program
         ELSE \E t \in on_data(s) :
                /\ Becomes(t)
                /\ program' = IF w.pid # 1 /\ t.pid = 1 THEN "runs" ELSE program
  BY DEF on_uv_read
<1> HIDE DEF v
<1>6. /\ Ready(s) /\ s.connection /\ s.fate = "runs" /\ s.pid = w.pid
      /\ s.features \/ s.early
  <2>1. /\ Ready(s) /\ s.connection /\ s.fate = "runs" /\ s.pid = v.pid
        /\ s.features = (v.features \/ m = "features") /\ s.early = v.early
    BY <1>1, <1>3, HandleData
  <2> QED
    BY <1>3, <1>4, <2>1
<1>7. PICK t \in on_data(s) :
         /\ Becomes(t)
         /\ program' = IF w.pid # 1 /\ t.pid = 1 THEN "runs" ELSE program
  BY <1>5, <1>6
<1>8. Ready(t) /\ t.connection /\ (t.pid = s.pid \/ t.pid = 1) /\ t.features = s.features
  BY <1>1, <1>6, OnData
<1>9. /\ Ready(w)' /\ w' \in States /\ w'.out = <<>> /\ up' \in Seq(Requests)
      /\ w'.connection = t.connection /\ w'.features = t.features /\ w'.pid = t.pid
  BY <1>1, <1>2, <1>7, <1>8, BecomesReady
<1>10. program' \in {"none", "runs", "exited"} /\ (program # "none" => w.pid = 1)'
  BY <1>1, <1>6, <1>7, <1>8, <1>9 DEF IInv, Types
<1>11. Types'
  BY <1>1, <1>2, <1>9, <1>10 DEF Types
<1>13. StreamsClosedFirst'
  BY <1>1, <1>2 DEF IInv, StreamsClosedFirst
<1> QED
  BY <1>1, <1>8, <1>9, <1>10, <1>11, <1>13 DEF IInv, Ready

\* What the server does with a request, and what it answers.
LEMMA RequestEffect ==
    ASSUME Types, ServerRequest
    PROVE  /\ server' \in [oa : Outcomes, tp : Outcomes, gone : BOOLEAN]
           /\ up[1] = "open oa" => HasOa' = TRUE
           /\ up[1] = "close oa" => HasOa' = FALSE
           /\ up[1] # "open oa" /\ up[1] # "close oa" => HasOa' = HasOa
           /\ up[1] = "open tp" => HasTp' = TRUE
           /\ up[1] = "close tp" => HasTp' = FALSE
           /\ up[1] # "open tp" /\ up[1] # "close tp" => HasTp' = HasTp
           /\ \/ down' = down /\ up[1] # "CLOSE"
              \/ \E m \in Messages :
                    down' = Append(down, m) /\ (m = "CLOSE" <=> up[1] = "CLOSE")
<1>1. /\ up \in Seq(Requests) /\ up # <<>> /\ args.gpu \in BOOLEAN
      /\ server \in [oa : Outcomes, tp : Outcomes, gone : BOOLEAN]
  BY DEF Types, ServerRequest
<1>2. up[1] \in Requests
  BY <1>1
<1>3. CASE up[1] = "features"
  BY <1>1, <1>3 DEF ServerRequest, Answer, Tried, Closed, Messages, Outcomes, HasOa, HasTp
<1>4. CASE up[1] = "open cpu"
  BY <1>1, <1>4 DEF ServerRequest, Answer, Tried, Closed, Messages, Outcomes, HasOa, HasTp
<1>5. CASE up[1] = "info"
  BY <1>1, <1>5 DEF ServerRequest, Answer, Tried, Closed, Messages, Outcomes, HasOa, HasTp
<1>6. CASE up[1] = "CLOSE"
  BY <1>1, <1>6 DEF ServerRequest, Answer, Tried, Closed, Messages, Outcomes, HasOa, HasTp
<1>7. CASE up[1] = "open oa"
  BY <1>1, <1>7 DEF ServerRequest, Answer, Tried, Closed, Messages, Outcomes, HasOa, HasTp
<1>8. CASE up[1] = "close oa"
  BY <1>1, <1>8 DEF ServerRequest, Answer, Tried, Closed, Messages, Outcomes, HasOa, HasTp
<1>9. CASE up[1] = "open tp"
  BY <1>1, <1>9 DEF ServerRequest, Answer, Tried, Closed, Messages, Outcomes, HasOa, HasTp
<1>10. CASE up[1] = "close tp"
  BY <1>1, <1>10 DEF ServerRequest, Answer, Tried, Closed, Messages, Outcomes, HasOa, HasTp
<1> QED
  BY <1>2, <1>3, <1>4, <1>5, <1>6, <1>7, <1>8, <1>9, <1>10 DEF Requests

\* A message that follows those on their way.
LEMMA AnswerAdded ==
    ASSUME NEW q \in Seq(Messages), NEW m \in Messages
    PROVE  /\ Append(q, m) \in Seq(Messages) /\ Append(q, m) # <<>>
           /\ \A x : Contains(Append(q, m), x) <=> Contains(q, x) \/ x = m
           /\ q = <<>> => Append(q, m)[1] = m
           /\ q # <<>> => Append(q, m)[1] = q[1]
<1>1. Len(q) \in Nat /\ (q = <<>> <=> Len(q) = 0)
  OBVIOUS
<1>2. /\ Append(q, m) \in Seq(Messages) /\ Append(q, m) # <<>>
      /\ Len(Append(q, m)) = Len(q) + 1
      /\ \A i \in 1..Len(q) : Append(q, m)[i] = q[i]
      /\ Append(q, m)[Len(q) + 1] = m
  BY AppendProperties
<1>3. 1..Len(q) + 1 = 1..Len(q) \cup {Len(q) + 1}
  BY <1>1
<1>4. \A x : Contains(Append(q, m), x) <=> Contains(q, x) \/ x = m
  BY <1>2, <1>3 DEF Contains
<1> QED
  BY <1>1, <1>2, <1>4

\* The server handles a request.
LEMMA ServerRequestStep ==
    ASSUME IInv, ServerRequest
    PROVE  IInv'
<1>1. /\ Types /\ InNet(w) /\ Idle(w) /\ Knows(w) /\ w \in States /\ w.out = <<>>
      /\ up \in Seq(Requests) /\ up # <<>> /\ up' = Tail(up) /\ down \in Seq(Messages)
      /\ w.connection /\ conn = "open"
      /\ HasOa \in BOOLEAN /\ HasTp \in BOOLEAN
      /\ UNCHANGED <<args, w, conn, sigint, sigchld, program, loop>>
  BY DEF IInv, Types, ServerRequest, Serves, HasOa, HasTp
<1>2. /\ up' \in Seq(Requests) /\ Len(up) \in Nat /\ Len(up) >= 1 /\ Len(up') = Len(up) - 1
      /\ \A i \in 1..Len(up') : i + 1 \in 1..Len(up) /\ up'[i] = up[i + 1]
  <2>1. Tail(up) \in Seq(Requests) /\ Len(Tail(up)) = Len(up) - 1 /\ Len(up) \in Nat
    BY <1>1
  <2> QED
    BY <1>1, <2>1
<1>3. Pending(w) = up /\ Pending(w)' = up'
  BY <1>1, <1>2, ConcatEmptySeq DEF Pending
<1>4. /\ OaOn(up) <=> w.oa = "requested"
      /\ TpOn(up) <=> w.tp = "requested"
      /\ w.closing => w.oa # "requested" /\ w.tp # "requested"
      /\ \A i \in 1..Len(up) : up[i] = "CLOSE" => w.closing /\ i = Len(up)
      /\ ~Contains(down, "CLOSE")
  BY <1>1, <1>3 DEF InNet
<1>5. {"open oa", "close oa", "open tp", "close tp"} \subseteq Requests
  BY DEF Requests
<1>6. /\ server' \in [oa : Outcomes, tp : Outcomes, gone : BOOLEAN]
      /\ up[1] = "open oa" => HasOa' = TRUE
      /\ up[1] = "close oa" => HasOa' = FALSE
      /\ up[1] # "open oa" /\ up[1] # "close oa" => HasOa' = HasOa
      /\ up[1] = "open tp" => HasTp' = TRUE
      /\ up[1] = "close tp" => HasTp' = FALSE
      /\ up[1] # "open tp" /\ up[1] # "close tp" => HasTp' = HasTp
  BY <1>1, RequestEffect
<1>7. \/ down' = down /\ up[1] # "CLOSE"
      \/ \E m \in Messages :
            down' = Append(down, m) /\ (m = "CLOSE" <=> up[1] = "CLOSE")
  BY <1>1, RequestEffect
<1>8. On(HasOa', up', "open oa", "close oa") <=> OaOn(up)
  <2>1. /\ up[1] = "open oa" => (OaOn(up) <=> On(TRUE, up', "open oa", "close oa"))
        /\ up[1] = "close oa" => (OaOn(up) <=> On(FALSE, up', "open oa", "close oa"))
        /\ up[1] # "open oa" /\ up[1] # "close oa" =>
              (OaOn(up) <=> On(HasOa, up', "open oa", "close oa"))
    BY <1>1, <1>5, OnTail DEF OaOn
  <2> QED
    BY <1>6, <2>1
<1>9. On(HasTp', up', "open tp", "close tp") <=> TpOn(up)
  <2>1. /\ up[1] = "open tp" => (TpOn(up) <=> On(TRUE, up', "open tp", "close tp"))
        /\ up[1] = "close tp" => (TpOn(up) <=> On(FALSE, up', "open tp", "close tp"))
        /\ up[1] # "open tp" /\ up[1] # "close tp" =>
              (TpOn(up) <=> On(HasTp, up', "open tp", "close tp"))
    BY <1>1, <1>5, OnTail DEF TpOn
  <2> QED
    BY <1>6, <2>1
<1>10. (OaOn(Pending(w))' <=> OaOn(up)) /\ (TpOn(Pending(w))' <=> TpOn(up))
  <2>1. /\ OaOn(Pending(w))' <=> On(HasOa', Pending(w)', "open oa", "close oa")
        /\ TpOn(Pending(w))' <=> On(HasTp', Pending(w)', "open tp", "close tp")
    BY DEF OaOn, TpOn, On
  <2> QED
    BY <1>3, <1>8, <1>9, <2>1
<1>11. up[1] = "CLOSE" => w.closing /\ up' = <<>>
  <2>1. up[1] = "CLOSE" => w.closing /\ Len(up') = 0
    BY <1>2, <1>4
  <2>2. Len(up') = 0 => up' = <<>>
    BY <1>2, EmptySeq
  <2> QED
    BY <2>1, <2>2
<1>12. /\ down' \in Seq(Messages)
       /\ Contains(down', "CLOSE") <=> up[1] = "CLOSE"
  <2>1. CASE down' = down /\ up[1] # "CLOSE"
    BY <1>1, <1>4, <2>1
  <2>2. ASSUME NEW m \in Messages, down' = Append(down, m), m = "CLOSE" <=> up[1] = "CLOSE"
        PROVE  down' \in Seq(Messages) /\ (Contains(down', "CLOSE") <=> up[1] = "CLOSE")
    <3>1. /\ Append(down, m) \in Seq(Messages)
          /\ \A x : Contains(Append(down, m), x) <=> Contains(down, x) \/ x = m
      BY <1>1, AnswerAdded
    <3> QED
      BY <1>1, <1>4, <2>2, <3>1
  <2> QED
    BY <1>7, <2>1, <2>2
<1>13. InNet(w)'
  <2>1. \A i \in 1..Len(up') : up'[i] = "CLOSE" => w.closing /\ i = Len(up')
    BY <1>2, <1>4
  <2>2. Contains(down', "CLOSE") => w.closing /\ up' = <<>>
    BY <1>11, <1>12
  <2> QED
    BY <1>1, <1>3, <1>4, <1>10, <2>1, <2>2 DEF InNet
<1>14. Types'
  BY <1>1, <1>2, <1>6, <1>12 DEF Types
<1>15. Idle(w)' /\ Knows(w)'
  BY <1>1 DEF Idle, Knows
<1>17. StreamsClosedFirst'
  <2>1. ASSUME Contains(down', "CLOSE")
        PROVE  ~HasOa' /\ ~HasTp'
    <3>1. w.closing /\ up' = <<>>
      BY <1>11, <1>12, <2>1
    <3>2. ~On(HasOa', <<>>, "open oa", "close oa") /\ ~On(HasTp', <<>>, "open tp", "close tp")
      BY <1>4, <1>8, <1>9, <3>1
    <3>3. HasOa' \in BOOLEAN /\ HasTp' \in BOOLEAN
      BY DEF HasOa, HasTp
    <3> QED
      BY <3>2, <3>3, OnEmpty
  <2> QED
    BY <2>1 DEF StreamsClosedFirst, HasOa, HasTp
<1> QED
  BY <1>1, <1>13, <1>14, <1>15, <1>17 DEF IInv

\* The server sends what was not asked for.
LEMMA SampleStep ==
    ASSUME IInv, Serves, NEW m \in {"other", "oa"},
           down' = Append(down, m),
           UNCHANGED <<args, w, conn, sigint, sigchld, program, loop, up, server>>
    PROVE  IInv'
<1>1. m \in Messages /\ m # "CLOSE"
  BY DEF Messages
<1>2. down \in Seq(Messages) /\ conn = "open"
  BY DEF IInv, Types, Serves
<1>3. down' \in Seq(Messages) /\ (Contains(down', "CLOSE") <=> Contains(down, "CLOSE"))
  BY <1>1, <1>2, AnswerAdded
<1>4. InNet(w)'
  <2>1. Pending(w)' = Pending(w)
    BY DEF Pending
  <2>2. (OaOn(Pending(w))' <=> OaOn(Pending(w))) /\ (TpOn(Pending(w))' <=> TpOn(Pending(w)))
    BY <2>1 DEF OaOn, TpOn, HasOa, HasTp, On
  <2> QED
    BY <1>3, <2>1, <2>2 DEF IInv, InNet
<1>5. Types' /\ Idle(w)' /\ Knows(w)'
  BY <1>3 DEF IInv, Types, Idle, Knows
<1>6. StreamsClosedFirst' /\ (program # "none" => w.pid = 1)'
  BY <1>3 DEF IInv, StreamsClosedFirst
<1> QED
  BY <1>2, <1>4, <1>5, <1>6 DEF IInv

\* The server is gone.
LEMMA ServerGoneStep ==
    ASSUME IInv, ServerGone
    PROVE  IInv'
<1>1. /\ conn \in {"handshake", "open"} /\ server' = [server EXCEPT !.gone = TRUE]
      /\ UNCHANGED <<args, w, conn, sigint, sigchld, program, loop, up, down>>
      /\ server \in [oa : Outcomes, tp : Outcomes, gone : BOOLEAN]
  BY DEF ServerGone, IInv, Types
<1>2. /\ server' \in [oa : Outcomes, tp : Outcomes, gone : BOOLEAN]
      /\ server'.oa = server.oa /\ server'.tp = server.tp
  BY <1>1
<1>3. InNet(w)'
  <2>1. Pending(w)' = Pending(w)
    BY <1>1 DEF Pending
  <2>2. (OaOn(Pending(w))' <=> OaOn(Pending(w))) /\ (TpOn(Pending(w))' <=> TpOn(Pending(w)))
    BY <1>2, <2>1 DEF OaOn, TpOn, HasOa, HasTp, On
  <2> QED
    BY <1>1, <2>1, <2>2 DEF IInv, InNet
<1>4. Types' /\ Idle(w)' /\ Knows(w)'
  BY <1>1, <1>2 DEF IInv, Types, Idle, Knows
<1>5. StreamsClosedFirst' /\ (program # "none" => w.pid = 1)'
  BY <1>1, <1>2 DEF IInv, StreamsClosedFirst
<1> QED
  BY <1>1, <1>2, <1>3, <1>4, <1>5 DEF IInv, Fresh

-----------------------------------------------------------------------------
(***************************************************************************)
(* The theorems.                                                           *)
(***************************************************************************)

\* A wrapper that has just started.
LEMMA InitInductive == Init => IInv
<1> SUFFICES ASSUME Init PROVE IInv
  OBVIOUS
<1>1. /\ args \in [program : BOOLEAN, lists : BOOLEAN, metric : BOOLEAN, gen8 : BOOLEAN,
                   gpu : BOOLEAN]
      /\ ~args.metric => args.lists
      /\ conn = "connecting" /\ sigint = "armed" /\ sigchld = "armed" /\ program = "none"
      /\ loop = "running" /\ up = <<>> /\ down = <<>>
      /\ server = [oa |-> "closed", tp |-> "closed", gone |-> FALSE]
  BY DEF Init
<1>2. /\ w.connection = FALSE /\ w.closing = FALSE /\ w.features = FALSE
      /\ w.features_handled = FALSE /\ w.is_sampling = FALSE /\ w.oa = "closed"
      /\ w.tp = "closed" /\ w.pid \in {-1, 0} /\ w.out = <<>>
  BY DEF Init
<1>3. w \in States
  BY DEF Init, States
<1>4. Types
  BY <1>1, <1>2, <1>3 DEF Types, Outcomes
<1>5. Pending(w) = <<>>
  <2>1. Pending(w) = <<>> \o <<>>
    BY <1>1, <1>2 DEF Pending
  <2> QED
    BY <2>1, ConcatEmptySeq
<1>6. ~Contains(down, "CLOSE")
  BY <1>1 DEF Contains
<1>7. InNet(w)
  BY <1>2, <1>3, <1>5, <1>6 DEF InNet
<1>8. Idle(w) /\ Knows(w) /\ Fresh
  BY <1>1, <1>2 DEF Idle, Knows, Fresh
<1>9. StreamsClosedFirst
  BY <1>6 DEF StreamsClosedFirst
<1> QED
  BY <1>1, <1>2, <1>4, <1>7, <1>8, <1>9 DEF IInv

\* Every step preserves the invariant.
LEMMA NextInductive == IInv /\ [Next]_vars => IInv'
<1> SUFFICES ASSUME IInv, [Next]_vars PROVE IInv'
  OBVIOUS
<1>0. /\ {sigint, sigchld} \subseteq {"armed", "raised", "handled"}
      /\ program \in {"none", "runs", "exited"}
      /\ loop \in {"running", "stopping", "stopped"}
  BY DEF IInv, Types
<1>1. CASE on_uv_connect
  <2>1. CASE connection_end
    BY <2>1, EndStep
  <2>2. CASE ~connection_end
    BY <1>0, <1>1, <2>2, NothingSent DEF on_uv_connect
  <2> QED
    BY <2>1, <2>2
<1>2. CASE on_uv_read_first
  BY <1>2, FirstReadStep
<1>3. CASE on_uv_read
  BY <1>3, ReadStep
<1>4. CASE on_uv_read_end
  BY <1>4, EndStep DEF on_uv_read_end
<1>5. CASE on_ctrl_c
  BY <1>5, CtrlCStep
<1>6. CASE on_child_process_exit
  BY <1>6, ChildExitStep
<1>7. CASE on_child_timer
  BY <1>7, ChildTimerStep
<1>8. CASE uv_run_returns
  BY <1>0, <1>8, NothingSent DEF uv_run_returns
<1>9. CASE CtrlC
  BY <1>0, <1>9, NothingSent DEF CtrlC
<1>10. CASE ProgramExits
  BY <1>0, <1>10, NothingSent DEF ProgramExits
<1>11. CASE ServerRequest
  BY <1>11, ServerRequestStep
<1>12. CASE ServerSends
  BY <1>12, SampleStep DEF ServerSends, Answer
<1>13. CASE ServerOaData
  BY <1>13, SampleStep DEF ServerOaData, Answer
<1>14. CASE ServerGone
  BY <1>14, ServerGoneStep
<1>15. CASE on_uv_read_error
  BY <1>0, <1>15, NothingSent DEF on_uv_read_error
<1>16. CASE UNCHANGED vars
  BY <1>0, <1>16, NothingSent DEF vars
<1> QED
  BY <1>1, <1>2, <1>3, <1>4, <1>5, <1>6, <1>7, <1>8, <1>9, <1>10, <1>11, <1>12, <1>13,
     <1>14, <1>15, <1>16 DEF Next

\* Every reachable state satisfies the inductive invariant.
THEOREM Inductive == Spec => []IInv
BY InitInductive, NextInductive, PTL DEF Spec

\* quit() closes the streams before the connection: when the server has
\* answered the close it has no stream of the wrapper's, whatever callbacks and
\* messages came in between.
THEOREM ClosedBeforeClose == Spec => []StreamsClosedFirst
<1>1. IInv => StreamsClosedFirst
  BY DEF IInv
<1> QED
  BY <1>1, Inductive, PTL

\* start_child_process() comes after start_sampling(): while the program runs
\* and the wrapper does not quit, the server has its streams, has failed to open
\* them, or will be asked for them, if the features came before anything else.
THEOREM RunsObserved == Spec => []ProgramObserved
<1>1. IInv => ProgramObserved
  <2> SUFFICES ASSUME IInv, program = "runs", w.fate = "runs", w.connection, ~w.closing,
                      ~w.early
               PROVE  /\ server.oa # "closed" \/ Contains(up, "open oa")
                      /\ server.tp # "closed" \/ Contains(up, "open tp")
    BY DEF ProgramObserved
  <2>1. w.pid = 1 /\ w \in States /\ w.out = <<>> /\ up \in Seq(Requests)
    BY DEF IInv, Types
  <2>2. w.is_sampling
    BY <2>1 DEF IInv, Knows, Types
  <2>3. w.oa = "requested" /\ w.tp = "requested"
    BY <2>1, <2>2 DEF IInv, Knows, InNet, States
  <2>4. OaOn(up) /\ TpOn(up)
    <3>1. Pending(w) = up
      BY <2>1, ConcatEmptySeq DEF Pending
    <3> QED
      BY <2>3, <3>1 DEF IInv, InNet
  <2> QED
    BY <2>4 DEF OaOn, TpOn, HasOa, HasTp, On, Contains
<1> QED
  BY <1>1, Inductive, PTL

=============================================================================
