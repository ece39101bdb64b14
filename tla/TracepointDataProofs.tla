------------------------ MODULE TracepointDataProofs ------------------------
(***************************************************************************)
(* Proofs about the tables of TracepointData, for any sets of CPUs,        *)
(* tracepoints, processes and contexts and any number of samples: which    *)
(* process a context is shown to belong to, by which name, and that it     *)
(* still exists; and about its lists: however the streams interleave, they *)
(* are sorted by time, and a tracepoint's is a part of the global one.     *)
(***************************************************************************)
EXTENDS TracepointData, FiniteSetsExt, Functions, WellFoundedInduction, FiniteSetTheorems,
        SequenceTheorems, TLAPS

-----------------------------------------------------------------------------
(***************************************************************************)
(* Least elements.                                                         *)
(***************************************************************************)

\* A set of numbers has a least element, and Min is it.
LEMMA LeastElement ==
    ASSUME NEW T \in SUBSET Nat, T # {}
    PROVE  Min(T) \in T /\ \A y \in T : Min(T) <= y
<1>1. PICK x \in T : \A y \in T : ~(<<y, x>> \in OpToRel(<, Nat))
  BY NatLessThanWellFounded, WFMin
<1>2. \A y \in T : x <= y
  <2>1. OpToRel(<, Nat) = {p \in Nat \X Nat : p[1] < p[2]}
    BY Zenon DEF OpToRel
  <2>2. ASSUME NEW y \in T, y < x
        PROVE  FALSE
    BY <1>1, <2>1, <2>2
  <2> QED
    BY <2>2
<1>3. \E m \in T : \A y \in T : m <= y
  BY <1>2
<1> QED
  BY <1>3 DEF Min

-----------------------------------------------------------------------------
(***************************************************************************)
(* Induction, stated for the set of those that have the property.          *)
(***************************************************************************)

\* A property of numbers that 0 has and that the next number keeps.
LEMMA NumberInduction ==
    ASSUME NEW T \in SUBSET Nat, 0 \in T, \A n \in T : n + 1 \in T
    PROVE  \A n \in Nat : n \in T
<1> DEFINE R == Nat \ T
           m == Min(R)
<1> SUFFICES ASSUME R # {}
             PROVE  FALSE
  OBVIOUS
<1>1. R \in SUBSET Nat
  OBVIOUS
<1>2. m \in R /\ \A y \in R : m <= y
  <2> HIDE DEF R
  <2> QED
    BY <1>1, LeastElement
<1> HIDE DEF m
<1>3. m \in Nat /\ m # 0 /\ m - 1 \in Nat /\ m \notin T /\ ~(m <= m - 1)
  BY <1>2
<1>4. m - 1 \in T
  BY <1>2, <1>3
<1>5. (m - 1) + 1 \in T
  BY <1>4
<1> QED
  BY <1>3, <1>5

-----------------------------------------------------------------------------
(***************************************************************************)
(* The inductive invariant.                                                *)
(***************************************************************************)

\* The part of TypeOK that is not about the lists of samples.
TableTypes ==
    /\ queue \in [Streams -> Seq(Samples)]
    /\ process \in [Pids -> Processes \cup {None}]
    /\ hw_to_process \in [HwIds -> Pointers \cup {None}]
    /\ hw_contexts \in [HwIds -> Contexts \cup {None}]
    /\ asked \in [Pids -> Nat]
    /\ nameless \subseteq Pids /\ unordered \subseteq HwIds
    /\ gen \in 0..MaxStarts /\ written \in 0..MaxSamples /\ now \in Nat
    /\ DOMAIN newest = HwIds /\ newest = [hw \in HwIds |-> newest[hw]]

\* A process that was answered with a command line has its own name.
CmdKnown ==
    \A p \in Pids : process[p] # None /\ process[p].cmd_line => process[p].cmd = p

IInv ==
    /\ TableTypes /\ CmdKnown
    /\ ProcessesLive /\ NamesFollow /\ OwnerIsNewest /\ ProcessesAsked

\* A pointer to a process that is in the table.
Live(p) == p \in Pointers /\ process[p[1]] # None /\ process[p[1]].gen = p[2]

\* ProcessesLive, for the pointers that are not NULL.
LEMMA LivePointers ==
    ASSUME TableTypes
    PROVE  ProcessesLive <=>
           \A hw \in HwIds :
              /\ hw_to_process[hw] # None => Live(hw_to_process[hw])
              /\ hw_contexts[hw] # None /\ hw_contexts[hw].process # None =>
                    Live(hw_contexts[hw].process)
<1>1. \A hw \in HwIds : hw_to_process[hw] \in Pointers \cup {None}
  BY DEF TableTypes
<1>2. \A hw \in HwIds : hw_contexts[hw] # None =>
         hw_contexts[hw] \in Contexts /\ hw_contexts[hw].process \in Pointers \cup {None}
  BY DEF TableTypes, Contexts
<1> QED
  BY <1>1, <1>2 DEF ProcessesLive, Live

\* No process, no context, no sample.
LEMMA InitInductive == Init => IInv
<1> SUFFICES ASSUME Init
             PROVE  IInv
  OBVIOUS
<1>1. TableTypes
  <2>1. queue \in [Streams -> Seq(Samples)]
    BY DEF Init
  <2>2. asked \in [Pids -> Nat] /\ gen \in 0..MaxStarts /\ written \in 0..MaxSamples /\ now \in Nat
    BY TracepointAssumption DEF Init
  <2> QED
    BY <2>1, <2>2 DEF Init, TableTypes
<1>2. CmdKnown /\ ProcessesLive /\ NamesFollow /\ OwnerIsNewest /\ ProcessesAsked
  BY DEF Init, CmdKnown, ProcessesLive, NamesFollow, OwnerIsNewest, ProcessesAsked
<1> QED
  BY <1>1, <1>2 DEF IInv

-----------------------------------------------------------------------------
(***************************************************************************)
(* What the helpers do to the tables.                                      *)
(***************************************************************************)

\* get_process_info() leaves the processes it knows, and asks for one that it
\* does not know, if it can.
LEMMA GetProcessInfo ==
    ASSUME IInv, NEW pid \in Pids \cup {0}, get_process_info(pid), connected' => connected
    PROVE  /\ process' \in [Pids -> Processes \cup {None}]
           /\ asked' \in [Pids -> Nat] /\ nameless' \subseteq Pids
           /\ \A p \in Pids : process[p] # None => process'[p] = process[p]
           /\ \A p \in Pids : process[p] = None =>
                 process'[p] = None \/ process'[p].cmd_line = FALSE
           /\ pid # 0 => process'[pid] \in Processes /\ process'[pid] # None
           /\ CmdKnown' /\ ProcessesAsked'
<1> DEFINE new == [gen |-> gen, cmd |-> Unknown, cmd_line |-> FALSE]
<1>1. CASE pid = 0 \/ process[pid] # None
  <2>1. UNCHANGED <<process, asked, nameless>>
    BY <1>1 DEF get_process_info
  <2> QED
    BY <1>1, <2>1 DEF IInv, TableTypes, CmdKnown, ProcessesAsked
<1>2. CASE ~(pid = 0 \/ process[pid] # None)
  <2>1. /\ process' = [process EXCEPT ![pid] = new]
        /\ asked' = IF connected THEN [asked EXCEPT ![pid] = asked[pid] + 1] ELSE asked
        /\ nameless' = nameless \ {pid}
    BY <1>2 DEF get_process_info
  <2>2. pid \in Pids /\ process[pid] = None
    BY <1>2
  <2>3. new \in Processes /\ new # None /\ new.cmd_line = FALSE
    <3>1. new \in Processes /\ new.cmd_line = FALSE
      BY DEF IInv, TableTypes, Processes
    <3> QED
      BY <3>1, TracepointAssumption
  <2> HIDE DEF new
  <2>4. /\ process' \in [Pids -> Processes \cup {None}]
        /\ process'[pid] = new
        /\ \A p \in Pids : p # pid => process'[p] = process[p]
    BY <2>1, <2>2, <2>3 DEF IInv, TableTypes
  <2>5. /\ asked' \in [Pids -> Nat]
        /\ connected => asked'[pid] > 0
        /\ \A p \in Pids : p # pid => asked'[p] = asked[p]
    BY <2>1, <2>2 DEF IInv, TableTypes
  <2>6. nameless' \subseteq Pids /\ \A p \in Pids : p # pid => (p \in nameless' <=> p \in nameless)
    BY <2>1 DEF IInv, TableTypes
  <2>7. CmdKnown'
    BY <2>3, <2>4 DEF IInv, CmdKnown
  <2>8. ProcessesAsked'
    BY <2>4, <2>5, <2>6 DEF IInv, ProcessesAsked
  <2> QED
    BY <2>2, <2>3, <2>4, <2>5, <2>6, <2>7, <2>8
<1> QED
  BY <1>1, <1>2

\* The owner the table has is the owner the context has.
Agree == \A hw \in HwIds : hw_contexts[hw] # None /\ hw_to_process[hw] # None =>
                              hw_contexts[hw].process = hw_to_process[hw]

\* A context, renamed or not, keeps its process.
LEMMA RenamedContexts ==
    ASSUME NEW contexts \in [HwIds -> Contexts \cup {None}], NEW p \in Pointers,
           NEW cmd \in Pids \cup {Unknown}
    PROVE  LET r == Renamed(contexts, p, cmd) IN
           /\ r \in [HwIds -> Contexts \cup {None}]
           /\ \A hw \in HwIds :
                 /\ r[hw] = None <=> contexts[hw] = None
                 /\ contexts[hw] # None =>
                       /\ r[hw].process = contexts[hw].process
                       /\ r[hw].name = IF contexts[hw].process = p THEN cmd
                                       ELSE contexts[hw].name
<1> DEFINE r == Renamed(contexts, p, cmd)
<1>1. \A hw \in HwIds : r[hw] = IF contexts[hw] # None /\ contexts[hw].process = p
                                THEN [contexts[hw] EXCEPT !.name = cmd] ELSE contexts[hw]
  BY DEF Renamed
<1>2. r = [hw \in HwIds |-> r[hw]]
  BY DEF Renamed
<1> HIDE DEF r
<1>3. ASSUME NEW hw \in HwIds
      PROVE  /\ r[hw] \in Contexts \cup {None}
             /\ r[hw] = None <=> contexts[hw] = None
             /\ contexts[hw] # None =>
                   /\ r[hw].process = contexts[hw].process
                   /\ r[hw].name = IF contexts[hw].process = p THEN cmd ELSE contexts[hw].name
  <2>1. CASE contexts[hw] # None /\ contexts[hw].process = p
    <3>1. contexts[hw] \in Contexts
      BY <2>1
    <3>2. /\ r[hw] = [contexts[hw] EXCEPT !.name = cmd]
          /\ r[hw] \in Contexts
          /\ r[hw].process = contexts[hw].process /\ r[hw].name = cmd
      BY <1>1, <2>1, <3>1 DEF Contexts
    <3>3. r[hw] # None
      BY <3>2, TracepointAssumption
    <3> QED
      BY <2>1, <3>2, <3>3
  <2>2. CASE ~(contexts[hw] # None /\ contexts[hw].process = p)
    BY <1>1, <2>2
  <2> QED
    BY <2>1, <2>2
<1> QED
  BY <1>2, <1>3 DEF r

\* A tracepoint without a hw_id_field adds a process nobody points to.
LEMMA OnlyAsked ==
    ASSUME IInv, NEW pid \in Pids \cup {0}, get_process_info(pid), connected' => connected,
           UNCHANGED <<hw_to_process, hw_contexts>>
    PROVE  ProcessesLive' /\ NamesFollow'
<1>1. TableTypes /\ ProcessesLive /\ NamesFollow
  BY DEF IInv
<1>2. \A p \in Pids : process[p] # None => process'[p] = process[p]
  BY GetProcessInfo
<1>3. /\ \A h \in HwIds : hw_to_process[h] # None => Live(hw_to_process[h])
      /\ \A h \in HwIds : hw_contexts[h] # None /\ hw_contexts[h].process # None =>
            Live(hw_contexts[h].process)
  BY <1>1, LivePointers
<1>4. ASSUME NEW p, Live(p)
      PROVE  /\ p[1] \in Pids /\ process'[p[1]] = process[p[1]]
             /\ process'[p[1]] # None /\ process'[p[1]].gen = p[2]
  BY <1>2, <1>4 DEF Live, Pointers
<1>5. ProcessesLive'
  BY <1>3, <1>4 DEF ProcessesLive
<1>6. NamesFollow'
  BY <1>1, <1>3, <1>4 DEF NamesFollow
<1> QED
  BY <1>5, <1>6

\* The end of add_tracepoint_stream_data(): table and context get the process,
\* and the context its name, if it is known.
LEMMA Correlated ==
    ASSUME IInv, NEW pid \in Pids \cup {0}, NEW hw \in HwIds,
           get_process_info(pid), connected' => connected, Correlate(pid, hw)
    PROVE  /\ hw_to_process' \in [HwIds -> Pointers \cup {None}]
           /\ hw_contexts' \in [HwIds -> Contexts \cup {None}]
           /\ ProcessesLive' /\ NamesFollow' /\ Agree'
           /\ \A h \in HwIds : h # hw => hw_to_process'[h] = hw_to_process[h]
           /\ pid = 0 => hw_to_process' = hw_to_process
           /\ pid # 0 => hw_to_process'[hw] # None /\ hw_to_process'[hw][1] = pid
<1>1. /\ TableTypes /\ CmdKnown /\ ProcessesLive /\ NamesFollow /\ Agree
      /\ hw_to_process \in [HwIds -> Pointers \cup {None}]
      /\ hw_contexts \in [HwIds -> Contexts \cup {None}]
  BY DEF IInv, OwnerIsNewest, Agree, TableTypes
<1>2. /\ process' \in [Pids -> Processes \cup {None}]
      /\ \A p \in Pids : process[p] # None => process'[p] = process[p]
      /\ \A p \in Pids : process[p] = None =>
            process'[p] = None \/ process'[p].cmd_line = FALSE
      /\ pid # 0 => process'[pid] \in Processes /\ process'[pid] # None
      /\ CmdKnown'
  BY GetProcessInfo
<1>3. /\ \A h \in HwIds : hw_to_process[h] # None => Live(hw_to_process[h])
      /\ \A h \in HwIds : hw_contexts[h] # None /\ hw_contexts[h].process # None =>
            Live(hw_contexts[h].process)
  BY <1>1, LivePointers
\* A pointer that was live is live, and its process is as it was.
<1>4. ASSUME NEW p, Live(p)
      PROVE  /\ p[1] \in Pids /\ process'[p[1]] = process[p[1]]
             /\ process'[p[1]] # None /\ process'[p[1]].gen = p[2]
  BY <1>2, <1>4 DEF Live, Pointers
<1>5. CASE pid = 0
  <2>1. hw_to_process' = hw_to_process /\ hw_contexts' = hw_contexts
    BY <1>5 DEF Correlate
  <2>2. ProcessesLive'
    BY <1>3, <1>4, <2>1 DEF ProcessesLive
  <2>3. NamesFollow'
    BY <1>1, <1>3, <1>4, <2>1 DEF NamesFollow
  <2> QED
    BY <1>1, <1>5, <2>1, <2>2, <2>3 DEF Agree
<1>6. CASE pid # 0
  <2> DEFINE p == <<pid, process'[pid].gen>>
             owned == [hw_contexts EXCEPT ![hw].process = p]
  <2>1. /\ hw_to_process' = [hw_to_process EXCEPT ![hw] = p]
        /\ hw_contexts' =
              IF hw_contexts[hw] = None \/ hw_contexts[hw].process = p THEN hw_contexts
              ELSE IF process'[pid].cmd_line THEN Renamed(owned, p, process'[pid].cmd)
              ELSE owned
    BY <1>6 DEF Correlate
  <2>2. /\ pid \in Pids /\ process'[pid] \in Processes /\ process'[pid] # None
        /\ process'[pid].gen \in 0..MaxStarts
    BY <1>2, <1>6 DEF Processes
  <2>3. p \in Pointers /\ p[1] = pid /\ p[2] = process'[pid].gen /\ p # None
    <3>1. p \in Pointers /\ p[1] = pid /\ p[2] = process'[pid].gen
      BY <2>2 DEF Pointers
    <3> QED
      BY <3>1, TracepointAssumption
  <2>4. hw_contexts[hw] # None =>
           /\ owned \in [HwIds -> Contexts \cup {None}]
           /\ \A h \in HwIds : h # hw => owned[h] = hw_contexts[h]
           /\ owned[hw].process = p /\ owned[hw] # None
    <3>1. SUFFICES ASSUME hw_contexts[hw] # None
                   PROVE  /\ owned \in [HwIds -> Contexts \cup {None}]
                          /\ \A h \in HwIds : h # hw => owned[h] = hw_contexts[h]
                          /\ owned[hw].process = p /\ owned[hw] # None
      OBVIOUS
    <3> HIDE DEF p
    <3>2. hw_contexts[hw] \in Contexts
      BY <1>1, <3>1
    <3> DEFINE c == [hw_contexts[hw] EXCEPT !.process = p]
    <3>3. c \in Contexts /\ c.process = p
      BY <2>3, <3>2 DEF Contexts
    <3>4. c # None
      BY <3>3, TracepointAssumption
    <3>5. owned = [hw_contexts EXCEPT ![hw] = c]
      OBVIOUS
    <3> HIDE DEF c, owned
    <3> QED
      BY <1>1, <3>3, <3>4, <3>5
  <2> HIDE DEF p, owned
  <2>5. /\ hw_to_process' \in [HwIds -> Pointers \cup {None}]
        /\ hw_to_process'[hw] = p
        /\ \A h \in HwIds : h # hw => hw_to_process'[h] = hw_to_process[h]
    BY <1>1, <2>1, <2>3
  \* What became of a context: its process, and its name.
  <2>6. /\ hw_contexts' \in [HwIds -> Contexts \cup {None}]
        /\ hw_contexts'[hw] = None \/ hw_contexts'[hw].process = p
        /\ \A h \in HwIds :
              /\ hw_contexts'[h] = None <=> hw_contexts[h] = None
              /\ h # hw /\ hw_contexts[h] # None =>
                    hw_contexts'[h].process = hw_contexts[h].process
              /\ hw_contexts[h] # None =>
                    \/ hw_contexts'[h] = hw_contexts[h]
                    \/ ~process'[pid].cmd_line /\ hw_contexts'[h].process = p
                    \/ hw_contexts'[h].process = p /\ hw_contexts'[h].name = process'[pid].cmd
                    \/ /\ hw_contexts'[h].process = hw_contexts[h].process
                       /\ hw_contexts'[h].name = hw_contexts[h].name
    <3>1. CASE hw_contexts[hw] = None \/ hw_contexts[hw].process = p
      BY <1>1, <2>1, <3>1
    <3>2. CASE ~(hw_contexts[hw] = None \/ hw_contexts[hw].process = p) /\ ~process'[pid].cmd_line
      BY <1>1, <2>1, <2>4, <3>2
    <3>3. CASE ~(hw_contexts[hw] = None \/ hw_contexts[hw].process = p) /\ process'[pid].cmd_line
      <4> DEFINE cmd == process'[pid].cmd
                 r == Renamed(owned, p, cmd)
      <4>1. hw_contexts' = r
        BY <2>1, <3>3
      <4>2. cmd \in Pids \cup {Unknown}
        BY <2>2 DEF Processes
      <4> HIDE DEF cmd
      <4>3. /\ r \in [HwIds -> Contexts \cup {None}]
            /\ \A h \in HwIds :
                  /\ r[h] = None <=> owned[h] = None
                  /\ owned[h] # None =>
                        /\ r[h].process = owned[h].process
                        /\ r[h].name = IF owned[h].process = p THEN cmd ELSE owned[h].name
        BY <2>3, <2>4, <3>3, <4>2, RenamedContexts
      <4> HIDE DEF r
      <4> QED
        BY <2>4, <3>3, <4>1, <4>3 DEF cmd
    <3> QED
      BY <3>1, <3>2, <3>3
  <2>7. ProcessesLive'
    <3>1. ASSUME NEW h \in HwIds
          PROVE  /\ hw_to_process'[h] = None \/
                       /\ process'[hw_to_process'[h][1]] # None
                       /\ process'[hw_to_process'[h][1]].gen = hw_to_process'[h][2]
                 /\ hw_contexts'[h] # None =>
                       \/ hw_contexts'[h].process = None
                       \/ /\ process'[hw_contexts'[h].process[1]] # None
                          /\ process'[hw_contexts'[h].process[1]].gen = hw_contexts'[h].process[2]
      <4>1. CASE h = hw
        BY <2>2, <2>3, <2>5, <2>6, <4>1
      <4>2. CASE h # hw
        BY <1>3, <1>4, <2>5, <2>6, <4>2
      <4> QED
        BY <4>1, <4>2
    <3> QED
      BY <3>1 DEF ProcessesLive
  <2>8. NamesFollow'
    <3>1. ASSUME NEW h \in HwIds, hw_contexts'[h] # None, hw_contexts'[h].process # None,
                 process'[hw_contexts'[h].process[1]].cmd_line
          PROVE  hw_contexts'[h].name = hw_contexts'[h].process[1]
      <4>1. hw_contexts[h] # None
        BY <2>6, <3>1
      <4>2. CASE /\ hw_contexts'[h].process = hw_contexts[h].process
                 /\ hw_contexts'[h].name = hw_contexts[h].name
        BY <1>1, <1>3, <1>4, <3>1, <4>1, <4>2 DEF NamesFollow
      <4>3. CASE ~process'[pid].cmd_line /\ hw_contexts'[h].process = p
        BY <2>3, <3>1, <4>3
      <4>4. CASE hw_contexts'[h].process = p /\ hw_contexts'[h].name = process'[pid].cmd
        BY <1>2, <2>2, <2>3, <3>1, <4>4 DEF CmdKnown
      <4> QED
        BY <2>6, <4>1, <4>2, <4>3, <4>4
    <3> QED
      BY <3>1 DEF NamesFollow
  <2>9. Agree'
    BY <1>1, <2>5, <2>6 DEF Agree
  <2> QED
    BY <1>6, <2>3, <2>5, <2>6, <2>7, <2>8, <2>9
<1> QED
  BY <1>5, <1>6

-----------------------------------------------------------------------------
(***************************************************************************)
(* The steps.                                                              *)
(***************************************************************************)

\* Steps that leave the tables and the contexts alone.
LEMMA TablesUntouched ==
    ASSUME IInv, UNCHANGED <<tableVars, hw_contexts, history>>,
           queue' \in [Streams -> Seq(Samples)],
           gen' \in 0..MaxStarts, written' \in 0..MaxSamples, now' \in Nat,
           connected' => connected
    PROVE  IInv'
<1> USE DEF IInv, tableVars, history
<1>1. TableTypes'
  BY DEF TableTypes
<1>2. CmdKnown' /\ ProcessesLive' /\ NamesFollow' /\ OwnerIsNewest' /\ ProcessesAsked'
  BY DEF CmdKnown, ProcessesLive, NamesFollow, OwnerIsNewest, ProcessesAsked
<1> QED
  BY <1>1, <1>2

\* A sample of the kernel changes nothing in the client until it is received.
LEMMA EmitInductive ==
    ASSUME IInv, NEW tp \in Tracepoints, NEW cpu \in Cpus, NEW pid \in Pids \cup {0},
           NEW hw \in HwIds, NEW d \in Steps, Emit(tp, cpu, pid, hw, d)
    PROVE  IInv'
<1> DEFINE e == [n |-> written, time |-> now', tp |-> tp, pid |-> pid, hw |-> hw]
           st == <<tp, cpu>>
<1>1. /\ written < MaxSamples /\ written' = written + 1
      /\ now' = IF written = 0 THEN 0 ELSE now + d
      /\ queue' = [queue EXCEPT ![st] = Append(queue[st], e)]
      /\ UNCHANGED <<gen, connected, tableVars, hw_contexts, history>>
  BY DEF Emit, openVars
<1>2. /\ written \in 0..MaxSamples /\ now \in Nat /\ d \in Nat /\ MaxSamples \in Nat
      /\ gen \in 0..MaxStarts /\ queue \in [Streams -> Seq(Samples)]
  BY TracepointAssumption DEF IInv, TableTypes
<1>3. written' \in 0..MaxSamples /\ now' \in Nat /\ written \in 0..MaxSamples - 1
  BY <1>1, <1>2
<1>4. e \in Samples
  BY <1>3 DEF Samples
<1>5. st \in Streams
  BY DEF Streams
<1> HIDE DEF e, st
<1>6. Append(queue[st], e) \in Seq(Samples)
  BY <1>2, <1>4, <1>5
<1>7. queue' \in [Streams -> Seq(Samples)]
  BY <1>1, <1>2, <1>5, <1>6
<1> QED
  BY <1>1, <1>2, <1>3, <1>7, TablesUntouched

\* An answer names the process and the contexts that point to it.
LEMMA AnswerInductive ==
    ASSUME IInv, NEW pid \in Pids, NEW answer \in {"cmd_line", "empty", "error"},
           handle_get_process_info(pid, answer)
    PROVE  IInv'
<1>1. /\ TableTypes /\ CmdKnown /\ ProcessesLive /\ NamesFollow /\ OwnerIsNewest
      /\ ProcessesAsked
      /\ process \in [Pids -> Processes \cup {None}]
      /\ hw_contexts \in [HwIds -> Contexts \cup {None}]
      /\ asked \in [Pids -> Nat] /\ nameless \subseteq Pids
  BY DEF IInv, TableTypes
<1>2. /\ asked[pid] > 0 /\ asked' = [asked EXCEPT ![pid] = asked[pid] - 1]
      /\ UNCHANGED <<gen, connected, written, now, queue, hw_to_process, newest, unordered>>
  BY DEF handle_get_process_info, openVars, history
<1>3. /\ asked' \in [Pids -> Nat]
      /\ \A p \in Pids : p # pid => asked'[p] = asked[p]
  BY <1>1, <1>2
<1>4. CASE answer = "error" \/ process[pid] = None
  <2>1. /\ process' = process /\ hw_contexts' = hw_contexts
        /\ nameless' \subseteq Pids /\ nameless \subseteq nameless'
        /\ pid \in nameless' \/ process[pid] = None
    BY <1>1, <1>4 DEF handle_get_process_info
  <2>2. TableTypes'
    BY <1>1, <1>2, <1>3, <2>1 DEF TableTypes
  <2>3. ProcessesAsked'
    BY <1>1, <1>2, <1>3, <2>1 DEF ProcessesAsked
  <2>4. CmdKnown' /\ ProcessesLive' /\ NamesFollow' /\ OwnerIsNewest'
    BY <1>1, <1>2, <2>1 DEF CmdKnown, ProcessesLive, NamesFollow, OwnerIsNewest
  <2> QED
    BY <2>2, <2>3, <2>4 DEF IInv
<1>5. CASE answer # "error" /\ process[pid] # None
  <2> DEFINE b == (answer = "cmd_line")
             new == [process[pid] EXCEPT !.cmd = pid, !.cmd_line = b]
             p == <<pid, process[pid].gen>>
             r == Renamed(hw_contexts, p, pid)
  <2>1. /\ nameless' = nameless
        /\ process' = [process EXCEPT ![pid].cmd = pid, ![pid].cmd_line = b]
        /\ hw_contexts' = r
    BY <1>5 DEF handle_get_process_info, Pointer
  <2>2. process[pid] \in Processes /\ process[pid].gen \in 0..MaxStarts
    BY <1>1, <1>5 DEF Processes
  <2>3. new \in Processes /\ new.cmd = pid /\ new.gen = process[pid].gen
    BY <2>2 DEF Processes
  <2>4. new # None
    BY <2>3, TracepointAssumption
  <2>5. process' = [process EXCEPT ![pid] = new]
    BY <1>1, <2>1
  <2> HIDE DEF new
  <2>6. /\ process' \in [Pids -> Processes \cup {None}]
        /\ process'[pid] = new
        /\ \A q \in Pids : q # pid => process'[q] = process[q]
    BY <1>1, <2>3, <2>5
  <2>7. p \in Pointers /\ p[1] = pid /\ p[2] = process[pid].gen
    BY <2>2 DEF Pointers
  <2> HIDE DEF p
  <2>8. /\ r \in [HwIds -> Contexts \cup {None}]
        /\ \A hw \in HwIds :
              /\ r[hw] = None <=> hw_contexts[hw] = None
              /\ hw_contexts[hw] # None =>
                    /\ r[hw].process = hw_contexts[hw].process
                    /\ r[hw].name = IF hw_contexts[hw].process = p THEN pid
                                    ELSE hw_contexts[hw].name
    BY <1>1, <2>7, RenamedContexts
  <2> HIDE DEF r
  <2>9. /\ \A h \in HwIds : hw_to_process[h] # None => Live(hw_to_process[h])
        /\ \A h \in HwIds : hw_contexts[h] # None /\ hw_contexts[h].process # None =>
              Live(hw_contexts[h].process)
    BY <1>1, LivePointers
  <2>10. ASSUME NEW q, Live(q)
         PROVE  /\ q[1] \in Pids /\ process'[q[1]] # None /\ process'[q[1]].gen = q[2]
                /\ q[1] = pid => q = p
    <3>1. q \in Pids \X (0..MaxStarts) /\ process[q[1]].gen = q[2] /\ process[q[1]] # None
      BY <2>10 DEF Live, Pointers
    <3>2. q = <<q[1], q[2]>>
      BY <3>1
    <3> QED
      BY <2>3, <2>4, <2>6, <3>1, <3>2 DEF p
  <2>11. TableTypes'
    BY <1>1, <1>2, <1>3, <2>1, <2>6, <2>8 DEF TableTypes
  <2>12. CmdKnown'
    BY <1>1, <2>3, <2>6 DEF CmdKnown
  <2>13. ProcessesLive'
    BY <1>2, <2>1, <2>8, <2>9, <2>10 DEF ProcessesLive
  <2>14. NamesFollow'
    <3>1. ASSUME NEW h \in HwIds, r[h] # None, r[h].process # None,
                 process'[r[h].process[1]].cmd_line
          PROVE  r[h].name = r[h].process[1]
      <4>1. hw_contexts[h] # None /\ Live(hw_contexts[h].process)
        BY <2>8, <2>9, <3>1
      <4>2. CASE hw_contexts[h].process = p
        BY <2>7, <2>8, <4>1, <4>2
      <4>3. CASE hw_contexts[h].process # p
        <5>1. r[h].process[1] \in Pids /\ r[h].process[1] # pid
          BY <2>8, <2>10, <4>1, <4>3
        <5> QED
          BY <1>1, <2>6, <2>8, <3>1, <4>1, <4>3, <5>1 DEF NamesFollow
      <4> QED
        BY <4>2, <4>3
    <3> QED
      BY <2>1, <3>1 DEF NamesFollow
  <2>15. OwnerIsNewest'
    BY <1>1, <1>2, <2>1, <2>8 DEF OwnerIsNewest
  <2>16. pid # Unknown
    BY TracepointAssumption DEF Unknown
  <2>17. ProcessesAsked'
    BY <1>1, <1>2, <1>3, <2>1, <2>3, <2>6, <2>16 DEF ProcessesAsked
  <2> QED
    BY <2>11, <2>12, <2>13, <2>14, <2>15, <2>17 DEF IInv
<1> QED
  BY <1>4, <1>5

\* A sample: the context it names belongs to the process it names.
LEMMA SampleInductive ==
    ASSUME IInv, NEW st \in Streams, add_tracepoint_stream_data(st)
    PROVE  IInv'
<1> DEFINE s == queue[st][1]
           seen == \E i \in DOMAIN data' : data'[i].n = s.n
<1>1. /\ queue[st] # <<>> /\ queue' = [queue EXCEPT ![st] = Tail(queue[st])]
      /\ UNCHANGED <<gen, connected, now, written>>
  BY DEF add_tracepoint_stream_data, openVars
<1>2. \/ UNCHANGED <<tableVars, hw_contexts, history>>
      \/ get_process_info(s.pid) /\ Correlate(s.pid, s.hw) /\ Learn(s)
      \/ get_process_info(s.pid) /\ UNCHANGED <<hw_to_process, hw_contexts, newest, unordered>>
      \/ \E pid \in Pids \cup {0}, hw \in HwIds :
            /\ get_process_info(pid)
            /\ Correlate(pid, hw) \/ UNCHANGED <<hw_to_process, hw_contexts>>
            /\ unordered' = HwIds /\ newest' = newest
  <2> HIDE DEF seen
  <2> QED
    BY DEF add_tracepoint_stream_data, Attribute, history, seen
<1>3. /\ TableTypes /\ OwnerIsNewest /\ gen \in 0..MaxStarts /\ written \in 0..MaxSamples
      /\ now \in Nat /\ queue \in [Streams -> Seq(Samples)] /\ unordered \subseteq HwIds
      /\ DOMAIN newest = HwIds /\ newest = [hw \in HwIds |-> newest[hw]]
  BY DEF IInv, TableTypes
<1>4. queue[st] \in Seq(Samples)
  BY <1>3
<1>5. s \in Samples /\ Tail(queue[st]) \in Seq(Samples)
  BY <1>1, <1>4
<1>6. queue' \in [Streams -> Seq(Samples)]
  BY <1>1, <1>3, <1>5
<1>7. s.pid \in Pids \cup {0} /\ s.hw \in HwIds
  BY <1>5 DEF Samples
<1> HIDE DEF s, seen
<1>8. CASE UNCHANGED <<tableVars, hw_contexts, history>>
  BY <1>1, <1>3, <1>6, <1>8, TablesUntouched
<1>9. ASSUME NEW pid \in Pids \cup {0}, NEW hw \in HwIds,
             get_process_info(pid), Correlate(pid, hw),
             \/ pid = s.pid /\ hw = s.hw /\ Learn(s)
             \/ unordered' = HwIds /\ newest' = newest
      PROVE  IInv'
  <2>1. /\ process' \in [Pids -> Processes \cup {None}]
        /\ asked' \in [Pids -> Nat] /\ nameless' \subseteq Pids
        /\ CmdKnown' /\ ProcessesAsked'
    BY <1>1, <1>9, GetProcessInfo
  <2>2. /\ hw_to_process' \in [HwIds -> Pointers \cup {None}]
        /\ hw_contexts' \in [HwIds -> Contexts \cup {None}]
        /\ ProcessesLive' /\ NamesFollow' /\ Agree'
        /\ \A h \in HwIds : h # hw => hw_to_process'[h] = hw_to_process[h]
        /\ pid = 0 => hw_to_process' = hw_to_process
        /\ pid # 0 => hw_to_process'[hw] # None /\ hw_to_process'[hw][1] = pid
    BY <1>1, <1>9, Correlated
  <2>3. /\ unordered' \subseteq HwIds /\ DOMAIN newest' = HwIds
        /\ newest' = [h \in HwIds |-> newest'[h]]
        /\ \A h \in HwIds : h \notin unordered' /\ newest'[h] # None =>
              hw_to_process'[h] # None /\ hw_to_process'[h][1] = newest'[h].pid
    <3>1. CASE unordered' = HwIds /\ newest' = newest
      BY <1>3, <3>1
    <3>2. CASE pid = s.pid /\ hw = s.hw /\ Learn(s)
      <4>1. CASE s.pid = 0
        BY <1>3, <2>2, <3>2, <4>1 DEF Learn, history, OwnerIsNewest
      <4>2. CASE s.pid # 0 /\ newest[s.hw] # None /\ newest[s.hw].time > s.time
        <5>1. unordered' = unordered \cup {hw} /\ newest' = newest
          BY <3>2, <4>2 DEF Learn
        <5> QED
          BY <1>3, <2>2, <5>1 DEF OwnerIsNewest
      <4>3. CASE s.pid # 0 /\ ~(newest[s.hw] # None /\ newest[s.hw].time > s.time)
        <5>1. unordered' = unordered /\ newest' = [newest EXCEPT ![hw] = [time |-> s.time, pid |-> pid]]
          BY <3>2, <4>3 DEF Learn
        <5>2. /\ DOMAIN newest' = HwIds /\ newest' = [h \in HwIds |-> newest'[h]]
              /\ newest'[hw].pid = pid
              /\ \A h \in HwIds : h # hw => newest'[h] = newest[h]
          BY <1>3, <5>1
        <5> QED
          BY <1>3, <2>2, <3>2, <4>3, <5>1, <5>2 DEF OwnerIsNewest
      <4> QED
        BY <4>1, <4>2, <4>3
    <3> QED
      BY <1>9, <3>1, <3>2
  <2>4. TableTypes'
    BY <1>1, <1>3, <1>6, <2>1, <2>2, <2>3 DEF TableTypes
  <2>5. OwnerIsNewest'
    BY <2>2, <2>3 DEF OwnerIsNewest, Agree
  <2> QED
    BY <2>1, <2>2, <2>4, <2>5 DEF IInv
<1>10. ASSUME NEW pid \in Pids \cup {0}, get_process_info(pid),
              UNCHANGED <<hw_to_process, hw_contexts, newest>>,
              unordered' = unordered \/ unordered' = HwIds
       PROVE  IInv'
  <2>1. /\ process' \in [Pids -> Processes \cup {None}]
        /\ asked' \in [Pids -> Nat] /\ nameless' \subseteq Pids
        /\ CmdKnown' /\ ProcessesAsked'
    BY <1>1, <1>10, GetProcessInfo
  <2>2. ProcessesLive' /\ NamesFollow'
    BY <1>1, <1>10, OnlyAsked
  <2>3. TableTypes'
    BY <1>1, <1>3, <1>6, <1>10, <2>1 DEF TableTypes
  <2>4. OwnerIsNewest'
    BY <1>3, <1>10 DEF OwnerIsNewest
  <2> QED
    BY <2>1, <2>2, <2>3, <2>4 DEF IInv
<1> QED
  BY <1>2, <1>7, <1>8, <1>9, <1>10

\* A report names a context: it gets the process that the table has for it.
LEMMA ContextInductive ==
    ASSUME IInv, NEW hw \in HwIds, get_hw_context(hw)
    PROVE  IInv'
<1> DEFINE c == IF hw_contexts[hw] = None THEN [process |-> None, name |-> Unknown]
                ELSE hw_contexts[hw]
           new == hw_context_update_process(c, hw)
<1>1. /\ hw_contexts' = [hw_contexts EXCEPT ![hw] = new]
      /\ UNCHANGED <<gen, connected, queue, process, hw_to_process, asked, nameless, now,
                     written, newest, unordered>>
  BY DEF get_hw_context, openVars, tableVars, history
<1>2. /\ TableTypes /\ CmdKnown /\ ProcessesLive /\ NamesFollow /\ OwnerIsNewest
      /\ ProcessesAsked
      /\ process \in [Pids -> Processes \cup {None}]
      /\ hw_to_process \in [HwIds -> Pointers \cup {None}]
      /\ hw_contexts \in [HwIds -> Contexts \cup {None}]
  BY DEF IInv, TableTypes
<1>3. /\ c \in Contexts
      /\ hw_contexts[hw] = None => c.process = None
      /\ hw_contexts[hw] # None => c = hw_contexts[hw]
  BY <1>2 DEF Contexts
<1>4. /\ hw_to_process[hw] # None => Live(hw_to_process[hw])
      /\ hw_contexts[hw] # None /\ hw_contexts[hw].process # None =>
            Live(hw_contexts[hw].process)
  BY <1>2, LivePointers
<1> HIDE DEF c
\* Either the context is as it was, or it gets what the table has.
<1>5. \/ new = c /\ (c.process # None \/ hw_to_process[hw] = None)
      \/ /\ c.process = None /\ hw_to_process[hw] # None
         /\ new = [process |-> hw_to_process[hw], name |-> process[hw_to_process[hw][1]].cmd]
  BY DEF hw_context_update_process
<1> HIDE DEF new
<1>6. /\ new \in Contexts /\ new # None
      /\ new.process # None => Live(new.process)
      /\ new.process # None /\ process[new.process[1]].cmd_line => new.name = new.process[1]
      /\ hw_to_process[hw] # None => new.process = hw_to_process[hw]
  <2>1. CASE new = c /\ (c.process # None \/ hw_to_process[hw] = None)
    BY <1>2, <1>3, <1>4, <2>1, TracepointAssumption DEF NamesFollow, OwnerIsNewest
  <2>2. CASE /\ c.process = None /\ hw_to_process[hw] # None
             /\ new = [process |-> hw_to_process[hw], name |-> process[hw_to_process[hw][1]].cmd]
    <3>1. Live(hw_to_process[hw]) /\ hw_to_process[hw] \in Pointers
      BY <1>4, <2>2 DEF Live
    <3>2. /\ hw_to_process[hw][1] \in Pids /\ process[hw_to_process[hw][1]] # None
          /\ process[hw_to_process[hw][1]] \in Processes
      BY <1>2, <3>1 DEF Live, Pointers
    <3>3. process[hw_to_process[hw][1]].cmd \in Pids \cup {Unknown}
      BY <3>2 DEF Processes
    <3>4. /\ new \in Contexts /\ new.process = hw_to_process[hw]
          /\ new.name = process[hw_to_process[hw][1]].cmd
      BY <2>2, <3>1, <3>3 DEF Contexts
    <3>5. new # None
      BY <3>4, TracepointAssumption
    <3> QED
      BY <1>2, <3>1, <3>2, <3>4, <3>5 DEF CmdKnown
  <2> QED
    BY <1>5, <2>1, <2>2
<1>7. /\ hw_contexts' \in [HwIds -> Contexts \cup {None}]
      /\ hw_contexts'[hw] = new
      /\ \A h \in HwIds : h # hw => hw_contexts'[h] = hw_contexts[h]
  BY <1>1, <1>2, <1>6
<1>8. TableTypes'
  BY <1>1, <1>2, <1>7 DEF TableTypes
<1>9. CmdKnown' /\ ProcessesAsked'
  BY <1>1, <1>2 DEF CmdKnown, ProcessesAsked
<1>10. ProcessesLive'
  BY <1>1, <1>2, <1>6, <1>7 DEF ProcessesLive, Live
<1>11. NamesFollow'
  BY <1>1, <1>2, <1>6, <1>7 DEF NamesFollow
<1>12. OwnerIsNewest'
  BY <1>1, <1>2, <1>6, <1>7 DEF OwnerIsNewest
<1> QED
  BY <1>8, <1>9, <1>10, <1>11, <1>12 DEF IInv

\* The last sample of a context is gone.
LEMMA PutInductive ==
    ASSUME IInv, NEW hw \in HwIds, put_hw_context(hw)
    PROVE  IInv'
<1>1. /\ hw_contexts' = [hw_contexts EXCEPT ![hw] = None]
      /\ UNCHANGED <<gen, connected, queue, process, hw_to_process, asked, nameless, now,
                     written, newest, unordered>>
  BY DEF put_hw_context, openVars, tableVars, history
<1>2. /\ hw_contexts' \in [HwIds -> Contexts \cup {None}]
      /\ hw_contexts'[hw] = None
      /\ \A h \in HwIds : h # hw => hw_contexts'[h] = hw_contexts[h]
  BY <1>1 DEF IInv, TableTypes
<1>3. TableTypes'
  BY <1>1, <1>2 DEF IInv, TableTypes
<1>4. CmdKnown' /\ ProcessesAsked' /\ ProcessesLive' /\ NamesFollow' /\ OwnerIsNewest'
  BY <1>1, <1>2 DEF IInv, CmdKnown, ProcessesAsked, ProcessesLive, NamesFollow, OwnerIsNewest
<1> QED
  BY <1>3, <1>4 DEF IInv

\* Sampling starts, or the client is reset: contexts and processes go together.
LEMMA ClearedInductive ==
    ASSUME IInv, Discard, ClearTables, i915_perf_empty_samples,
           gen < MaxStarts, gen' = gen + 1, UNCHANGED <<now, written>>,
           \/ UNCHANGED <<asked, nameless>>
           \/ asked' = [p \in Pids |-> 0] /\ nameless' = {}
    PROVE  IInv'
<1>1. queue' \in [Streams -> Seq(Samples)]
  BY DEF Discard
<1>2. gen' \in 0..MaxStarts
  BY TracepointAssumption DEF IInv, TableTypes
<1>3. asked' \in [Pids -> Nat] /\ nameless' \subseteq Pids
  BY DEF IInv, TableTypes
<1>4. TableTypes'
  BY <1>1, <1>2, <1>3 DEF IInv, TableTypes, ClearTables, i915_perf_empty_samples
<1>5. CmdKnown' /\ ProcessesAsked' /\ ProcessesLive' /\ NamesFollow' /\ OwnerIsNewest'
  BY DEF CmdKnown, ProcessesAsked, ProcessesLive, NamesFollow, OwnerIsNewest,
         ClearTables, i915_perf_empty_samples
<1> QED
  BY <1>4, <1>5 DEF IInv

\* Every step preserves the invariant.
LEMMA NextInductive ==
    ASSUME IInv, [Next]_vars
    PROVE  IInv'
<1>0. /\ queue \in [Streams -> Seq(Samples)] /\ gen \in 0..MaxStarts
      /\ written \in 0..MaxSamples /\ now \in Nat
  BY DEF IInv, TableTypes
<1>1. CASE UNCHANGED vars \/ (\E wd \in Windows : set_window(wd)) \/ connection_closed
  <2>1. /\ UNCHANGED <<tableVars, hw_contexts, history, queue, gen, written, now>>
        /\ connected' => connected
    BY <1>1 DEF vars, set_window, connection_closed, openVars
  <2> QED
    BY <1>0, <2>1, TablesUntouched
<1>2. CASE \E tp \in Tracepoints, cpu \in Cpus, pid \in Pids \cup {0}, hw \in HwIds, d \in Steps :
              Emit(tp, cpu, pid, hw, d)
  BY <1>2, EmitInductive
<1>3. CASE \E pid \in Pids, answer \in {"cmd_line", "empty", "error"} :
              handle_get_process_info(pid, answer)
  BY <1>3, AnswerInductive
<1>4. CASE \E s \in Streams : add_tracepoint_stream_data(s)
  BY <1>4, SampleInductive
<1>5. CASE \E hw \in HwIds : get_hw_context(hw) \/ put_hw_context(hw)
  BY <1>5, ContextInductive, PutInductive
<1>6. CASE stop_sampling
  <2>1. UNCHANGED <<tableVars, hw_contexts, history, connected, gen, written, now>>
    BY <1>6 DEF stop_sampling
  <2>2. queue' \in [Streams -> Seq(Samples)]
    BY <1>6 DEF stop_sampling, Discard
  <2> QED
    BY <1>0, <2>1, <2>2, TablesUntouched
<1>7. CASE gputop_client_context_start_sampling
  BY <1>7, ClearedInductive DEF gputop_client_context_start_sampling
<1>8. CASE start_sampling
  BY <1>7, <1>8 DEF start_sampling
<1>9. CASE reset
  BY <1>9, ClearedInductive DEF reset
<1>10. CASE select_metric_set
  <2>1. CASE is_sampling
    BY <1>7, <1>10, <2>1 DEF select_metric_set
  <2>2. CASE ~is_sampling
    <3>1. UNCHANGED <<tableVars, hw_contexts, history, connected, queue, gen, written, now>>
      BY <1>10, <2>2 DEF select_metric_set
    <3> QED
      BY <1>0, <3>1, TablesUntouched
  <2> QED
    BY <2>1, <2>2
<1> QED
  BY <1>1, <1>2, <1>3, <1>4, <1>5, <1>6, <1>8, <1>9, <1>10 DEF Next

-----------------------------------------------------------------------------
(***************************************************************************)
(* The theorems.                                                           *)
(***************************************************************************)

\* Every reachable state satisfies the inductive invariant.
THEOREM Inductive == Spec => []IInv
BY InitInductive, NextInductive, PTL DEF Spec

\* Neither a context nor the table points to a process that was freed.
THEOREM PointersLive == Spec => []ProcessesLive
<1>1. IInv => ProcessesLive
  BY DEF IInv
<1> QED
  BY <1>1, Inductive, PTL

\* A context whose process has answered shows its name.
THEOREM NamesAreShown == Spec => []NamesFollow
<1>1. IInv => NamesFollow
  BY DEF IInv
<1> QED
  BY <1>1, Inductive, PTL

\* The owner of a context is the one its newest sample names.
THEOREM OwnersAreNewest == Spec => []OwnerIsNewest
<1>1. IInv => OwnerIsNewest
  BY DEF IInv
<1> QED
  BY <1>1, Inductive, PTL

\* While requests can be sent, a process without a name has been asked for: the
\* only way back to a connection is a reset, which forgets the processes that were
\* not asked for without one.
THEOREM AllAskedFor == Spec => []ProcessesAsked
<1>1. IInv => ProcessesAsked
  BY DEF IInv
<1> QED
  BY <1>1, Inductive, PTL

-----------------------------------------------------------------------------
(***************************************************************************)
(* Sequences.  Induction is stated for the set of the sequences that have  *)
(* the property.                                                           *)
(***************************************************************************)

\* A sequence that is not empty ends with some element.
LEMMA EndsWith ==
    ASSUME NEW A, NEW l \in Seq(A), NEW n \in Nat, Len(l) = n + 1
    PROVE  \E p \in Seq(A) : \E x \in A : Len(p) = n /\ l = Append(p, x)
<1> DEFINE p == [i \in 1..n |-> l[i]]
           x == l[n + 1]
<1>1. p \in Seq(A) /\ x \in A /\ Len(p) = n
  OBVIOUS
<1>2. l = Append(p, x)
  <2>1. Append(p, x) \in Seq(A) /\ Len(Append(p, x)) = n + 1
    BY <1>1
  <2>2. \A i \in 1..n + 1 : l[i] = Append(p, x)[i]
    BY <1>1
  <2> QED
    BY <2>1, <2>2, SeqEqual
<1> QED
  BY <1>1, <1>2

\* A property of sequences that the empty one has and that another element keeps.
LEMMA SequenceInduction ==
    ASSUME NEW A, NEW F \in SUBSET Seq(A), <<>> \in F,
           \A l \in F : \A x \in A : Append(l, x) \in F
    PROVE  \A l \in Seq(A) : l \in F
<1> DEFINE T == {n \in Nat : \A l \in Seq(A) : Len(l) = n => l \in F}
<1>1. 0 \in T
  OBVIOUS
<1>2. ASSUME NEW n \in T
      PROVE  n + 1 \in T
  <2>1. SUFFICES ASSUME NEW l \in Seq(A), Len(l) = n + 1
                 PROVE  l \in F
    OBVIOUS
  <2>2. PICK p \in Seq(A), x \in A : Len(p) = n /\ l = Append(p, x)
    <3>1. n \in Nat
      OBVIOUS
    <3>2. \E p \in Seq(A) : \E x \in A : Len(p) = n /\ l = Append(p, x)
      BY ONLY <2>1, <3>1, l \in Seq(A), EndsWith
    <3> QED
      BY <3>2
  <2>3. p \in F
    BY <2>2
  <2> QED
    BY <2>2, <2>3, Zenon
<1>3. T \in SUBSET Nat
  OBVIOUS
<1>4. \A n \in Nat : n \in T
  <2> HIDE DEF T
  <2> QED
    BY <1>1, <1>2, <1>3, NumberInduction
<1> QED
  BY <1>4

\* An element more at the end.
LEMMA AppendAfter ==
    ASSUME NEW A, NEW a \in Seq(A), NEW b \in Seq(A), NEW x \in A
    PROVE  a \o b \in Seq(A) /\ a \o Append(b, x) = Append(a \o b, x)
<1> DEFINE l == a \o Append(b, x)
           m == Append(a \o b, x)
<1>1. a \o b \in Seq(A) /\ l \in Seq(A) /\ m \in Seq(A)
  OBVIOUS
<1>2. Len(l) = Len(m)
  OBVIOUS
<1>3. \A i \in 1..Len(l) : l[i] = m[i]
  OBVIOUS
<1> HIDE DEF l, m
<1>4. l = m
  BY <1>1, <1>2, <1>3, SeqEqual
<1> QED
  BY <1>1, <1>4 DEF l, m

LEMMA RangeAppend ==
    ASSUME NEW A, NEW l \in Seq(A), NEW x \in A
    PROVE  Range(Append(l, x)) = Range(l) \cup {x}
<1> DEFINE m == Append(l, x)
           n == Len(l)
<1>1. /\ n \in Nat /\ DOMAIN l = 1..n /\ DOMAIN m = 1..n + 1 /\ m[n + 1] = x
      /\ \A i \in 1..n : m[i] = l[i]
  OBVIOUS
<1> HIDE DEF m, n
<1>2. 1..n + 1 = (1..n) \cup {n + 1}
  BY <1>1
<1>3. Range(m) = Range(l) \cup {x}
  BY <1>1, <1>2 DEF Range
<1> QED
  BY <1>3 DEF m

-----------------------------------------------------------------------------
(***************************************************************************)
(* What Those leaves of a list.                                            *)
(***************************************************************************)

\* The equation of Those, and the function it defines.
KeptStep(list, S, f, i) ==
    IF i = 0 THEN <<>> ELSE IF list[i] \in S THEN Append(f[i - 1], list[i]) ELSE f[i - 1]

Kept(list, S) == CHOOSE f : f = [i \in 0..Len(list) |-> KeptStep(list, S, f, i)]

LEMMA ThoseKept ==
    ASSUME NEW list, NEW S
    PROVE  Those(list, S) = Kept(list, S)[Len(list)]
BY Zenon DEF Those, Kept, KeptStep

\* There is such a function.
LEMMA KeptExists ==
    ASSUME NEW A, NEW list \in Seq(A), NEW S
    PROVE  /\ Kept(list, S) \in [0..Len(list) -> Seq(A)]
           /\ \A i \in 0..Len(list) : Kept(list, S)[i] = KeptStep(list, S, Kept(list, S), i)
<1> DEFINE Good(f, n) == \A i \in 0..Len(list) : i <= n => f[i] = KeptStep(list, S, f, i)
           T == {n \in Nat : \E f \in [0..Len(list) -> Seq(A)] : Good(f, n)}
<1>0. Len(list) \in Nat /\ <<>> \in Seq(A)
  OBVIOUS
<1>1. ASSUME NEW f \in [0..Len(list) -> Seq(A)], NEW i \in 0..Len(list)
      PROVE  KeptStep(list, S, f, i) \in Seq(A)
  <2>1. CASE i = 0
    BY <1>0, <2>1 DEF KeptStep
  <2>2. CASE i # 0
    <3>0. i - 1 \in 0..Len(list) /\ i \in 1..Len(list)
      BY <1>0, <2>2
    <3>1. f[i - 1] \in Seq(A) /\ list[i] \in A
      BY <3>0
    <3>2. Append(f[i - 1], list[i]) \in Seq(A)
      BY <3>1
    <3> QED
      BY <2>2, <3>1, <3>2, Zenon DEF KeptStep
  <2> QED
    BY <2>1, <2>2
<1>2. 0 \in T
  <2> DEFINE f == [i \in 0..Len(list) |-> <<>>]
  <2>1. f \in [0..Len(list) -> Seq(A)]
    BY <1>0
  <2>2. Good(f, 0)
    BY <1>0 DEF KeptStep
  <2> QED
    BY <2>1, <2>2
<1>3. ASSUME NEW n \in T
      PROVE  n + 1 \in T
  <2>1. PICK f \in [0..Len(list) -> Seq(A)] : Good(f, n)
    OBVIOUS
  <2> DEFINE g == [i \in 0..Len(list) |-> KeptStep(list, S, f, i)]
  <2>2. g \in [0..Len(list) -> Seq(A)]
    BY <1>1
  <2>3. \A i \in 0..Len(list) : i <= n => g[i] = f[i]
    BY <2>1
  <2>4. ASSUME NEW i \in 0..Len(list), i <= n + 1
        PROVE  g[i] = KeptStep(list, S, g, i)
    <3>1. g[i] = KeptStep(list, S, f, i)
      OBVIOUS
    <3>2. i # 0 => g[i - 1] = f[i - 1]
      <4>1. i # 0 => i - 1 \in 0..Len(list) /\ i - 1 <= n
        BY <1>0, <2>4
      <4> QED
        BY <2>3, <4>1
    <3> HIDE DEF g
    <3>3. i = 0 \/ f[i - 1] = g[i - 1]
      BY <3>2
    <3> QED
      BY <3>1, <3>3, Zenon DEF KeptStep
  <2>5. Good(g, n + 1)
    BY <2>4
  <2>6. n + 1 \in Nat
    OBVIOUS
  <2> HIDE DEF g, Good
  <2> QED
    BY <2>2, <2>5, <2>6
<1>4. T \in SUBSET Nat
  OBVIOUS
<1>5. Len(list) \in T
  <2> HIDE DEF T
  <2> QED
    BY <1>0, <1>2, <1>3, <1>4, NumberInduction
<1>6. PICK f \in [0..Len(list) -> Seq(A)] : Good(f, Len(list))
  BY <1>5
<1>7. f = [i \in 0..Len(list) |-> KeptStep(list, S, f, i)]
  BY <1>0, <1>6
<1>8. Kept(list, S) = [i \in 0..Len(list) |-> KeptStep(list, S, Kept(list, S), i)]
  BY ONLY <1>7, Zenon DEF Kept
\* By induction, its values are sequences.
<1> DEFINE k == Kept(list, S)
           U == {n \in Nat : n <= Len(list) => k[n] \in Seq(A)}
<1> HIDE DEF k
<1>9. \A i \in 0..Len(list) : k[i] = KeptStep(list, S, k, i)
  BY <1>8 DEF k
<1>10. 0 \in U
  <2>1. 0 \in 0..Len(list)
    BY <1>0
  <2>2. k[0] = <<>>
    BY <1>9, <2>1 DEF KeptStep
  <2> QED
    BY <1>0, <2>2
<1>11. ASSUME NEW n \in U
       PROVE  n + 1 \in U
  <2>1. SUFFICES ASSUME n + 1 <= Len(list)
                 PROVE  k[n + 1] \in Seq(A)
    OBVIOUS
  <2>2. k[n] \in Seq(A) /\ n + 1 \in 0..Len(list) /\ n + 1 # 0 /\ (n + 1) - 1 = n
    BY <1>0, <2>1
  <2>3. list[n + 1] \in A
    BY <1>0, <2>1
  <2>4. Append(k[n], list[n + 1]) \in Seq(A)
    BY <2>2, <2>3
  <2> QED
    BY <1>9, <2>2, <2>4 DEF KeptStep
<1>12. U \in SUBSET Nat
  OBVIOUS
<1>13. \A n \in Nat : n \in U
  <2> HIDE DEF U
  <2> QED
    BY <1>10, <1>11, <1>12, NumberInduction
<1>14. \A i \in 0..Len(list) : k[i] \in Seq(A)
  BY <1>0, <1>13
<1>15. k = [i \in 0..Len(list) |-> KeptStep(list, S, k, i)]
  BY <1>8 DEF k
<1>16. k \in [0..Len(list) -> Seq(A)]
  BY <1>9, <1>14, <1>15
<1> QED
  BY <1>9, <1>16 DEF k

\* What it leaves of the first elements depends on these only.
LEMMA KeptSame ==
    ASSUME NEW A, NEW l \in Seq(A), NEW m \in Seq(A), NEW S, NEW n \in Nat,
           n <= Len(l), n <= Len(m), \A i \in 1..n : l[i] = m[i]
    PROVE  Kept(l, S)[n] = Kept(m, S)[n]
<1> DEFINE f == Kept(l, S)
           g == Kept(m, S)
           T == {i \in Nat : i <= n => f[i] = g[i]}
<1>0. Len(l) \in Nat /\ Len(m) \in Nat
  OBVIOUS
<1>1. \A i \in 0..Len(l) : f[i] = KeptStep(l, S, f, i)
  BY KeptExists
<1>2. \A i \in 0..Len(m) : g[i] = KeptStep(m, S, g, i)
  BY KeptExists
<1> HIDE DEF f, g
<1>3. 0 \in T
  BY <1>0, <1>1, <1>2 DEF KeptStep
<1>4. ASSUME NEW i \in T
      PROVE  i + 1 \in T
  <2>1. SUFFICES ASSUME i + 1 <= n
                 PROVE  f[i + 1] = g[i + 1]
    OBVIOUS
  <2>2. /\ i + 1 \in 0..Len(l) /\ i + 1 \in 0..Len(m) /\ i + 1 \in 1..n /\ i + 1 # 0
        /\ (i + 1) - 1 = i /\ f[i] = g[i]
    BY <1>0, <2>1
  <2> QED
    BY <1>1, <1>2, <2>2 DEF KeptStep
<1>5. T \in SUBSET Nat
  OBVIOUS
<1>6. n \in T
  <2> HIDE DEF T
  <2> QED
    BY <1>3, <1>4, <1>5, NumberInduction
<1> QED
  BY <1>6 DEF f, g

\* The equations of Those, one element after the other.
LEMMA ThoseNone ==
    ASSUME NEW S
    PROVE  Those(<<>>, S) = <<>>
<1> DEFINE e == <<>>
<1>1. e \in Seq({}) /\ Len(e) = 0 /\ 0 \in 0..Len(e)
  OBVIOUS
<1> HIDE DEF e
<1>2. Kept(e, S)[0] = KeptStep(e, S, Kept(e, S), 0)
  BY <1>1, KeptExists
<1>3. Those(e, S) = Kept(e, S)[Len(e)]
  BY ThoseKept
<1>4. Those(e, S) = <<>>
  BY <1>1, <1>2, <1>3 DEF KeptStep
<1> QED
  BY <1>4 DEF e

LEMMA ThoseType ==
    ASSUME NEW A, NEW l \in Seq(A), NEW S
    PROVE  Those(l, S) \in Seq(A)
<1>1. Kept(l, S) \in [0..Len(l) -> Seq(A)] /\ Len(l) \in 0..Len(l)
  BY KeptExists
<1> QED
  BY <1>1, ThoseKept

LEMMA ThoseAppend ==
    ASSUME NEW A, NEW l \in Seq(A), NEW x \in A, NEW S
    PROVE  Those(Append(l, x), S) = IF x \in S THEN Append(Those(l, S), x) ELSE Those(l, S)
<1> DEFINE m == Append(l, x)
           n == Len(l)
<1>1. m \in Seq(A) /\ Len(m) = n + 1 /\ m[n + 1] = x /\ n \in Nat /\ \A i \in 1..n : l[i] = m[i]
  OBVIOUS
<1> HIDE DEF m
<1>2. n <= Len(l) /\ n <= Len(m)
  BY <1>1
<1> HIDE DEF n
<1>3. Kept(l, S)[n] = Kept(m, S)[n]
  BY <1>1, <1>2, KeptSame
<1>4. Kept(m, S)[n + 1] = KeptStep(m, S, Kept(m, S), n + 1)
  <2>1. n + 1 \in 0..Len(m)
    BY <1>1
  <2> QED
    BY <1>1, <2>1, KeptExists
<1>5. Those(m, S) = Kept(m, S)[n + 1] /\ Those(l, S) = Kept(l, S)[n]
  BY <1>1, ThoseKept DEF n
<1>6. n + 1 # 0 /\ (n + 1) - 1 = n
  BY <1>1
<1> QED
  BY <1>1, <1>3, <1>4, <1>5, <1>6 DEF KeptStep, m

\* Two lists, one after the other.
LEMMA ThoseConcat ==
    ASSUME NEW A, NEW a \in Seq(A), NEW b \in Seq(A), NEW S
    PROVE  Those(a \o b, S) = Those(a, S) \o Those(b, S)
<1> DEFINE F == {l \in Seq(A) : Those(a \o l, S) = Those(a, S) \o Those(l, S)}
<1>0. Those(a, S) \in Seq(A)
  BY ThoseType
<1>1. <<>> \in F
  <2>1. <<>> \in Seq(A) /\ a \o <<>> = a /\ Those(a, S) \o <<>> = Those(a, S)
    BY <1>0
  <2> QED
    BY <2>1, ThoseNone
<1>2. ASSUME NEW l \in F, NEW x \in A
      PROVE  Append(l, x) \in F
  <2>0. l \in Seq(A) /\ Append(l, x) \in Seq(A)
    OBVIOUS
  <2>1. a \o l \in Seq(A) /\ a \o Append(l, x) = Append(a \o l, x)
    BY <2>0, AppendAfter
  <2> DEFINE m == a \o l
  <2>2. /\ Those(Append(l, x), S) = IF x \in S THEN Append(Those(l, S), x) ELSE Those(l, S)
        /\ Those(Append(m, x), S) = IF x \in S THEN Append(Those(m, S), x) ELSE Those(m, S)
    <3>1. m \in Seq(A)
      BY <2>1
    <3> HIDE DEF m
    <3>2. Those(Append(l, x), S) = IF x \in S THEN Append(Those(l, S), x) ELSE Those(l, S)
      BY <2>0, ThoseAppend
    <3>3. Those(Append(m, x), S) = IF x \in S THEN Append(Those(m, S), x) ELSE Those(m, S)
      BY <3>1, ThoseAppend
    <3> QED
      BY <3>2, <3>3
  <2>3. Those(l, S) \in Seq(A)
    BY <2>0, ThoseType
  <2>4. Those(a, S) \o Append(Those(l, S), x) = Append(Those(a, S) \o Those(l, S), x)
    BY <1>0, <2>3, AppendAfter
  <2>5. Those(a \o l, S) = Those(a, S) \o Those(l, S)
    OBVIOUS
  <2>6. Those(a \o Append(l, x), S) = Those(a, S) \o Those(Append(l, x), S)
    BY <2>1, <2>2, <2>4, <2>5, Zenon
  <2> QED
    BY <2>0, <2>6
<1>3. F \in SUBSET Seq(A)
  OBVIOUS
<1>4. b \in F
  <2> HIDE DEF F
  <2> QED
    BY <1>1, <1>2, <1>3, SequenceInduction
<1> QED
  BY <1>4

\* The elements that are left.
LEMMA ThoseElements ==
    ASSUME NEW A, NEW list \in Seq(A), NEW S
    PROVE  Range(Those(list, S)) = Range(list) \cap S
<1> DEFINE F == {l \in Seq(A) : Range(Those(l, S)) = Range(l) \cap S}
<1>1. <<>> \in F
  <2>1. <<>> \in Seq(A) /\ Range(<<>>) = {}
    BY DEF Range
  <2> QED
    BY <2>1, ThoseNone
<1>2. ASSUME NEW l \in F, NEW x \in A
      PROVE  Append(l, x) \in F
  <2>0. l \in Seq(A) /\ Append(l, x) \in Seq(A) /\ Those(l, S) \in Seq(A)
    BY ThoseType
  <2>1. Those(Append(l, x), S) = IF x \in S THEN Append(Those(l, S), x) ELSE Those(l, S)
    BY <2>0, ThoseAppend
  <2>2. /\ Range(Append(l, x)) = Range(l) \cup {x}
        /\ Range(Append(Those(l, S), x)) = Range(Those(l, S)) \cup {x}
    BY <2>0, RangeAppend
  <2>3. Range(Those(l, S)) = Range(l) \cap S
    OBVIOUS
  <2>4. Range(Those(Append(l, x), S)) = Range(Append(l, x)) \cap S
    <3>1. CASE x \in S
      BY <2>1, <2>2, <2>3, <3>1
    <3>2. CASE x \notin S
      BY <2>1, <2>2, <2>3, <3>2
    <3> QED
      BY <3>1, <3>2
  <2> QED
    BY <2>0, <2>4
<1>3. F \in SUBSET Seq(A)
  OBVIOUS
<1>4. list \in F
  <2> HIDE DEF F
  <2> QED
    BY <1>1, <1>2, <1>3, SequenceInduction
<1> QED
  BY <1>4

\* A list of others.
LEMMA ThoseOthers ==
    ASSUME NEW A, NEW list \in Seq(A), NEW S, Range(list) \cap S = {}
    PROVE  Those(list, S) = <<>>
<1>1. Those(list, S) \in Seq(A) /\ Range(Those(list, S)) = {}
  BY ThoseType, ThoseElements
<1> DEFINE t == Those(list, S)
<1> HIDE DEF t
<1>2. t \in Seq(A) /\ Range(t) = {}
  BY <1>1 DEF t
<1>3. Len(t) \in Nat /\ \A i \in 1..Len(t) : t[i] \in Range(t)
  BY <1>2 DEF Range
<1>4. Len(t) = 0
  BY <1>2, <1>3
<1>5. t = <<>>
  BY <1>2, <1>4
<1> QED
  BY <1>5 DEF t

\* One set after the other.
LEMMA ThoseTwice ==
    ASSUME NEW A, NEW list \in Seq(A), NEW S, NEW R
    PROVE  Those(Those(list, S), R) = Those(list, S \cap R)
<1> DEFINE F == {l \in Seq(A) : Those(Those(l, S), R) = Those(l, S \cap R)}
<1>1. <<>> \in F
  BY ThoseNone
<1>2. ASSUME NEW l \in F, NEW x \in A
      PROVE  Append(l, x) \in F
  <2>0. l \in Seq(A) /\ Append(l, x) \in Seq(A) /\ Those(l, S) \in Seq(A)
    BY ThoseType
  <2> DEFINE SR == S \cap R
             t == Those(l, S)
  <2>1. /\ Those(Append(l, x), S) = IF x \in S THEN Append(Those(l, S), x) ELSE Those(l, S)
        /\ Those(Append(l, x), SR) = IF x \in SR THEN Append(Those(l, SR), x) ELSE Those(l, SR)
        /\ Those(Append(t, x), R) = IF x \in R THEN Append(Those(t, R), x) ELSE Those(t, R)
    <3>1. t \in Seq(A)
      BY <2>0
    <3> HIDE DEF SR, t
    <3>2. Those(Append(l, x), S) = IF x \in S THEN Append(Those(l, S), x) ELSE Those(l, S)
      BY <2>0, ThoseAppend
    <3>3. Those(Append(l, x), SR) = IF x \in SR THEN Append(Those(l, SR), x) ELSE Those(l, SR)
      BY <2>0, ThoseAppend
    <3>4. Those(Append(t, x), R) = IF x \in R THEN Append(Those(t, R), x) ELSE Those(t, R)
      BY <3>1, ThoseAppend
    <3> QED
      BY <3>2, <3>3, <3>4
  <2>2. Those(Those(l, S), R) = Those(l, S \cap R)
    OBVIOUS
  <2>3. x \in S \cap R <=> x \in S /\ x \in R
    OBVIOUS
  <2>4. Those(Those(Append(l, x), S), R) = Those(Append(l, x), S \cap R)
    BY <2>1, <2>2, <2>3, Zenon
  <2> QED
    BY <2>0, <2>4
<1>3. F \in SUBSET Seq(A)
  OBVIOUS
<1>4. list \in F
  <2> HIDE DEF F
  <2> QED
    BY <1>1, <1>2, <1>3, SequenceInduction
<1> QED
  BY <1>4

\* Sets that have the same elements of the list.
LEMMA ThoseSame ==
    ASSUME NEW A, NEW list \in Seq(A), NEW S, NEW R, Range(list) \cap S = Range(list) \cap R
    PROVE  Those(list, S) = Those(list, R)
<1> DEFINE F == {l \in Seq(A) : Range(l) \cap S = Range(l) \cap R => Those(l, S) = Those(l, R)}
<1>1. <<>> \in F
  BY ThoseNone
<1>2. ASSUME NEW l \in F, NEW x \in A
      PROVE  Append(l, x) \in F
  <2>0. l \in Seq(A) /\ Append(l, x) \in Seq(A)
    OBVIOUS
  <2>1. /\ Those(Append(l, x), S) = IF x \in S THEN Append(Those(l, S), x) ELSE Those(l, S)
        /\ Those(Append(l, x), R) = IF x \in R THEN Append(Those(l, R), x) ELSE Those(l, R)
    BY <2>0, ThoseAppend
  <2>2. Range(Append(l, x)) = Range(l) \cup {x}
    BY <2>0, RangeAppend
  <2>3. ASSUME Range(Append(l, x)) \cap S = Range(Append(l, x)) \cap R
        PROVE  Those(Append(l, x), S) = Those(Append(l, x), R)
    <3>1. Range(l) \cap S = Range(l) \cap R /\ (x \in S <=> x \in R)
      BY <2>2, <2>3
    <3>2. Those(l, S) = Those(l, R)
      BY <3>1
    <3> QED
      BY <2>1, <3>1, <3>2, Zenon
  <2> QED
    BY <2>0, <2>3
<1>3. F \in SUBSET Seq(A)
  OBVIOUS
<1>4. list \in F
  <2> HIDE DEF F
  <2> QED
    BY <1>1, <1>2, <1>3, SequenceInduction
<1> QED
  BY <1>4

-----------------------------------------------------------------------------
(***************************************************************************)
(* Where a sample is inserted and what is taken off.                       *)
(***************************************************************************)

\* Where two lists stand one after the other.
LEMMA Joined ==
    ASSUME NEW A, NEW a \in Seq(A), NEW b \in Seq(A)
    PROVE  /\ a \o b \in Seq(A) /\ Len(a \o b) = Len(a) + Len(b)
           /\ Len(a) \in Nat /\ Len(b) \in Nat
           /\ \A i \in 1..Len(a) : (a \o b)[i] = a[i]
           /\ \A i \in 1..Len(b) : (a \o b)[Len(a) + i] = b[i]
OBVIOUS

\* The walk from the end splits the list: a ends with a sample that is not
\* newer than s, those of b are newer.
SplitAt(a, b, s) ==
    /\ Len(a) > 0 => a[Len(a)].time <= s.time
    /\ \A i \in 1..Len(b) : b[i].time > s.time

LEMMA SplitExists ==
    ASSUME NEW list \in Seq(Samples), NEW s \in Samples
    PROVE  \E a, b \in Seq(Samples) : list = a \o b /\ SplitAt(a, b, s)
<1> DEFINE F == {l \in Seq(Samples) :
                    \E a, b \in Seq(Samples) : l = a \o b /\ SplitAt(a, b, s)}
<1>0. \A x \in Samples : x.time \in Nat
  BY DEF Samples
<1>1. <<>> \in F
  <2>1. <<>> \in Seq(Samples) /\ <<>> = <<>> \o <<>> /\ Len(<<>>) = 0
    OBVIOUS
  <2>2. SplitAt(<<>>, <<>>, s)
    BY <2>1 DEF SplitAt
  <2> QED
    BY <2>1, <2>2
<1>2. ASSUME NEW l \in F, NEW x \in Samples
      PROVE  Append(l, x) \in F
  <2>0. l \in Seq(Samples) /\ Append(l, x) \in Seq(Samples) /\ <<>> \in Seq(Samples)
    OBVIOUS
  <2>1. CASE x.time <= s.time
    <3>1. Append(l, x) = Append(l, x) \o <<>>
      BY <2>0
    <3>2. Len(Append(l, x)) = Len(l) + 1 /\ Append(l, x)[Len(l) + 1] = x /\ Len(<<>>) = 0
      BY <2>0
    <3>3. SplitAt(Append(l, x), <<>>, s)
      BY <2>1, <3>2 DEF SplitAt
    <3> QED
      BY <2>0, <3>1, <3>3
  <2>2. CASE ~(x.time <= s.time)
    <3>1. PICK a \in Seq(Samples), b \in Seq(Samples) : l = a \o b /\ SplitAt(a, b, s)
      OBVIOUS
    <3>2. Append(l, x) = a \o Append(b, x)
      <4>1. a \o Append(b, x) = Append(a \o b, x)
        BY ONLY a \in Seq(Samples), b \in Seq(Samples), x \in Samples, AppendAfter
      <4> QED
        BY <3>1, <4>1
    <3>3. x.time > s.time
      BY <1>0, <2>2
    <3> DEFINE m == Append(b, x)
    <3>4. /\ m \in Seq(Samples) /\ Len(m) = Len(b) + 1 /\ Len(b) \in Nat
          /\ \A i \in 1..Len(b) : m[i] = b[i]
      OBVIOUS
    <3>5. m[Len(b) + 1] = x
      OBVIOUS
    <3> HIDE DEF m
    <3>6. SplitAt(a, m, s)
      <4>1. ASSUME NEW i \in 1..Len(m)
            PROVE  m[i].time > s.time
        <5>1. i \in 1..Len(b) \/ i = Len(b) + 1
          BY <3>4
        <5>2. CASE i \in 1..Len(b)
          BY <3>1, <3>4, <5>2 DEF SplitAt
        <5>3. CASE i = Len(b) + 1
          BY <3>3, <3>5, <5>3
        <5> QED
          BY <5>1, <5>2, <5>3
      <4> QED
        BY <3>1, <4>1 DEF SplitAt
    <3>7. Append(l, x) = a \o m
      BY <3>2 DEF m
    <3> QED
      BY <2>0, <3>4, <3>6, <3>7
  <2> QED
    BY <2>1, <2>2
<1>3. F \in SUBSET Seq(Samples)
  OBVIOUS
<1>4. list \in F
  <2> HIDE DEF F
  <2> QED
    BY <1>1, <1>2, <1>3, SequenceInduction
<1> QED
  BY <1>4

\* There the sample is inserted.
LEMMA InsertSplit ==
    ASSUME NEW a \in Seq(Samples), NEW b \in Seq(Samples), NEW s \in Samples, SplitAt(a, b, s)
    PROVE  Insert(a \o b, s) = Append(a, s) \o b
<1> DEFINE l == a \o b
           n == Len(a)
           P == {i \in DOMAIN l : \E j \in i..Len(l) : l[j].time <= s.time}
<1>0. \A x \in Samples : x.time \in Nat
  BY DEF Samples
<1>1. /\ l \in Seq(Samples) /\ Len(l) = n + Len(b) /\ n \in Nat /\ Len(b) \in Nat
      /\ \A i \in 1..n : l[i] = a[i]
      /\ \A i \in 1..Len(b) : l[n + i] = b[i]
      /\ DOMAIN l = 1..Len(l)
  BY Joined
<1> HIDE DEF l, n
<1>2. ASSUME NEW i \in 1..Len(l), i > n
      PROVE  ~(l[i].time <= s.time)
  <2>1. i - n \in 1..Len(b) /\ n + (i - n) = i
    BY <1>1, <1>2
  <2>2. l[i] = b[i - n] /\ b[i - n] \in Samples
    BY <1>1, <2>1
  <2> QED
    BY <1>0, <2>1, <2>2 DEF SplitAt
<1>3. ASSUME n > 0
      PROVE  l[n].time <= s.time
  BY <1>1, <1>3 DEF SplitAt, n
<1>4. P = 1..n
  <2>1. ASSUME NEW i \in P
        PROVE  i \in 1..n
    BY <1>1, <1>2
  <2>2. ASSUME NEW i \in 1..n
        PROVE  i \in P
    <3>1. n > 0 /\ n \in i..Len(l) /\ i \in DOMAIN l
      BY <1>1
    <3> QED
      BY <1>3, <3>1
  <2> QED
    BY <2>1, <2>2
<1>5. Cardinality(1..n) = n
  BY <1>1, FS_Interval
<1>6. Position(l, s) = n
  BY <1>4, <1>5 DEF Position
<1>7. Insert(l, s) = InsertAt(l, n + 1, s)
  BY <1>6 DEF Insert
<1>8. InsertAt(l, n + 1, s) = SubSeq(l, 1, n) \o <<s>> \o SubSeq(l, n + 1, Len(l))
  <2>1. (n + 1) - 1 = n
    BY <1>1
  <2> QED
    BY <2>1 DEF InsertAt
<1>9. SubSeq(l, 1, n) = a
  <2>1. SubSeq(l, 1, n) \in Seq(Samples) /\ Len(SubSeq(l, 1, n)) = n
        /\ \A i \in 1..n : SubSeq(l, 1, n)[i] = l[i]
    BY <1>1
  <2> QED
    BY <1>1, <2>1, SeqEqual DEF n
<1>10. SubSeq(l, n + 1, Len(l)) = b
  <2> DEFINE t == SubSeq(l, n + 1, Len(l))
  <2>1. t \in Seq(Samples) /\ Len(t) = Len(b)
    BY <1>1
  <2>2. \A i \in 1..Len(b) : t[i] = l[n + i]
    BY <1>1
  <2> HIDE DEF t
  <2>3. \A i \in 1..Len(t) : t[i] = b[i]
    BY <1>1, <2>1, <2>2
  <2>4. t = b
    BY <2>1, <2>3, SeqEqual
  <2> QED
    BY <2>4 DEF t
<1>11. a \o <<s>> = Append(a, s)
  OBVIOUS
<1> QED
  BY <1>7, <1>8, <1>9, <1>10, <1>11 DEF l

\* The loop that takes samples off splits the list, too: those of c are too
\* old, the first of d is not.
OldSplit(c, d, time) ==
    /\ \A i \in 1..Len(c) : time - c[i].time > window
    /\ Len(d) > 0 => ~(time - d[1].time > window)

LEMMA OldSplitExists ==
    ASSUME NEW list \in Seq(Samples), NEW time
    PROVE  \E c, d \in Seq(Samples) : list = c \o d /\ OldSplit(c, d, time)
<1> DEFINE F == {l \in Seq(Samples) :
                    \E c, d \in Seq(Samples) : l = c \o d /\ OldSplit(c, d, time)}
<1>1. <<>> \in F
  <2>1. <<>> \in Seq(Samples) /\ <<>> = <<>> \o <<>> /\ Len(<<>>) = 0
    OBVIOUS
  <2>2. OldSplit(<<>>, <<>>, time)
    BY <2>1 DEF OldSplit
  <2> QED
    BY <2>1, <2>2
<1>2. ASSUME NEW l \in F, NEW x \in Samples
      PROVE  Append(l, x) \in F
  <2>0. l \in Seq(Samples) /\ Append(l, x) \in Seq(Samples) /\ <<>> \in Seq(Samples)
    OBVIOUS
  <2>1. PICK c \in Seq(Samples), d \in Seq(Samples) : l = c \o d /\ OldSplit(c, d, time)
    OBVIOUS
  <2> DEFINE m == Append(c, x)
             e == Append(d, x)
  <2>2. /\ m \in Seq(Samples) /\ Len(m) = Len(c) + 1 /\ Len(c) \in Nat /\ m[Len(c) + 1] = x
        /\ \A i \in 1..Len(c) : m[i] = c[i]
    OBVIOUS
  <2>3. /\ e \in Seq(Samples) /\ Len(e) = Len(d) + 1 /\ Len(d) \in Nat /\ e[Len(d) + 1] = x
        /\ \A i \in 1..Len(d) : e[i] = d[i]
    OBVIOUS
  <2>4. Append(l, x) = c \o e
    <3>1. c \o Append(d, x) = Append(c \o d, x)
      BY ONLY c \in Seq(Samples), d \in Seq(Samples), x \in Samples, AppendAfter
    <3> QED
      BY <2>1, <3>1
  <2>5. CASE Len(d) = 0 /\ time - x.time > window
    <3>1. d = <<>>
      BY <2>5
    <3>2. Append(l, x) = m \o <<>>
      BY <2>1, <3>1
    <3>3. Len(<<>>) = 0
      OBVIOUS
    <3> HIDE DEF m
    <3>4. OldSplit(m, <<>>, time)
      <4>1. ASSUME NEW i \in 1..Len(m)
            PROVE  time - m[i].time > window
        <5>1. i \in 1..Len(c) \/ i = Len(c) + 1
          BY <2>2
        <5>2. CASE i \in 1..Len(c)
          <6>1. m[i] = c[i] /\ time - c[i].time > window
            BY <2>1, <2>2, <5>2 DEF OldSplit
          <6> QED
            BY ONLY <6>1
        <5>3. CASE i = Len(c) + 1
          BY <2>2, <2>5, <5>3
        <5> QED
          BY <5>1, <5>2, <5>3
      <4> QED
        BY <3>3, <4>1 DEF OldSplit
    <3> QED
      BY <2>0, <2>2, <3>2, <3>4
  <2>6. CASE ~(Len(d) = 0 /\ time - x.time > window)
    <3> HIDE DEF e
    <3>1. OldSplit(c, e, time)
      <4>1. CASE Len(d) = 0
        BY <2>1, <2>3, <2>6, <4>1 DEF OldSplit
      <4>2. CASE Len(d) # 0
        <5>1. e[1] = d[1] /\ Len(d) > 0
          BY <2>3, <4>2
        <5> QED
          BY <2>1, <5>1 DEF OldSplit
      <4> QED
        BY <4>1, <4>2
    <3> QED
      BY <2>0, <2>3, <2>4, <3>1
  <2> QED
    BY <2>5, <2>6
<1>3. F \in SUBSET Seq(Samples)
  OBVIOUS
<1>4. list \in F
  <2> HIDE DEF F
  <2> QED
    BY <1>1, <1>2, <1>3, SequenceInduction
<1> QED
  BY <1>4

\* What the loop leaves.
LEMMA TrimSplit ==
    ASSUME NEW c \in Seq(Samples), NEW d \in Seq(Samples),
           OldSplit(c, d, Last(c \o d).time)
    PROVE  Trim(c \o d) = d
<1> DEFINE l == c \o d
           n == Len(c)
           P == {i \in DOMAIN l : \A j \in 1..i : Last(l).time - l[j].time > window}
<1>0. OldSplit(c, d, Last(l).time)
  OBVIOUS
<1>1. /\ l \in Seq(Samples) /\ Len(l) = n + Len(d) /\ n \in Nat /\ Len(d) \in Nat
      /\ \A i \in 1..n : l[i] = c[i]
      /\ \A i \in 1..Len(d) : l[n + i] = d[i]
      /\ DOMAIN l = 1..Len(l)
  BY Joined
<1>2. /\ \A i \in 1..n : Last(l).time - l[i].time > window
      /\ Len(d) > 0 => ~(Last(l).time - l[n + 1].time > window)
  <2> HIDE DEF l
  <2>1. Len(d) > 0 => 1 \in 1..Len(d)
    BY <1>1
  <2> QED
    BY <1>0, <1>1, <2>1 DEF OldSplit
<1> HIDE DEF l, n
<1>4. P = 1..n
  <2>1. ASSUME NEW i \in P, i > n
        PROVE  FALSE
    <3>1. n + 1 \in 1..i /\ Len(d) > 0
      BY <1>1, <2>1
    <3> QED
      BY <1>2, <3>1
  <2>2. ASSUME NEW i \in P
        PROVE  i \in 1..n
    BY <1>1, <2>1
  <2>3. ASSUME NEW i \in 1..n
        PROVE  i \in P
    BY <1>1, <1>2
  <2> QED
    BY <2>2, <2>3
<1>5. Cardinality(1..n) = n
  BY <1>1, FS_Interval
<1>6. TooOld(l) = n
  BY <1>4, <1>5 DEF TooOld
<1>7. Trim(l) = SubSeq(l, n + 1, Len(l))
  BY <1>6 DEF Trim
<1>8. SubSeq(l, n + 1, Len(l)) = d
  <2> DEFINE t == SubSeq(l, n + 1, Len(l))
  <2>1. t \in Seq(Samples) /\ Len(t) = Len(d)
    BY <1>1
  <2>2. \A i \in 1..Len(d) : t[i] = l[n + i]
    BY <1>1
  <2> HIDE DEF t
  <2>3. \A i \in 1..Len(t) : t[i] = d[i]
    BY <1>1, <2>1, <2>2
  <2>4. t = d
    BY <2>1, <2>3, SeqEqual
  <2> QED
    BY <2>4 DEF t
<1> QED
  BY <1>7, <1>8 DEF l

-----------------------------------------------------------------------------
(***************************************************************************)
(* Both lists.                                                             *)
(***************************************************************************)

Ordered(l) == \A i, j \in 1..Len(l) : i <= j => l[i].time <= l[j].time

Distinct(l) == \A i, j \in 1..Len(l) : l[i] = l[j] => i = j

OfTp(tp) == {x \in Samples : x.tp = tp}

\* In a list by time, the samples before the place are not newer.
LEMMA OrderedSplit ==
    ASSUME NEW a \in Seq(Samples), NEW b \in Seq(Samples), NEW s \in Samples,
           SplitAt(a, b, s), Ordered(a \o b)
    PROVE  /\ \A i \in 1..Len(a) : a[i].time <= s.time
           /\ \A i, j \in 1..Len(a) : i <= j => a[i].time <= a[j].time
           /\ \A i, j \in 1..Len(b) : i <= j => b[i].time <= b[j].time
<1> DEFINE l == a \o b
<1>0. \A x \in Samples : x.time \in Nat
  BY DEF Samples
<1>1. /\ Len(l) = Len(a) + Len(b) /\ Len(a) \in Nat /\ Len(b) \in Nat
      /\ \A i \in 1..Len(a) : l[i] = a[i]
      /\ \A i \in 1..Len(b) : l[Len(a) + i] = b[i]
  BY Joined
<1>2. Ordered(l)
  OBVIOUS
<1> HIDE DEF l
<1>3. ASSUME NEW i \in 1..Len(a), NEW j \in 1..Len(a), i <= j
      PROVE  a[i].time <= a[j].time
  <2>1. i \in 1..Len(l) /\ j \in 1..Len(l)
    BY <1>1
  <2> QED
    BY <1>1, <1>2, <1>3, <2>1 DEF Ordered
<1>4. ASSUME NEW i \in 1..Len(a)
      PROVE  a[i].time <= s.time
  <2>1. Len(a) \in 1..Len(a) /\ i <= Len(a) /\ Len(a) > 0
    BY <1>1
  <2>2. a[i].time <= a[Len(a)].time /\ a[Len(a)].time <= s.time
    BY <1>3, <2>1 DEF SplitAt
  <2>3. a[i] \in Samples /\ a[Len(a)] \in Samples
    BY <2>1
  <2> QED
    BY <1>0, <2>2, <2>3
<1>5. ASSUME NEW i \in 1..Len(b), NEW j \in 1..Len(b), i <= j
      PROVE  b[i].time <= b[j].time
  <2>1. Len(a) + i \in 1..Len(l) /\ Len(a) + j \in 1..Len(l) /\ Len(a) + i <= Len(a) + j
    BY <1>1, <1>5
  <2>2. l[Len(a) + i].time <= l[Len(a) + j].time
    BY <1>2, <2>1 DEF Ordered
  <2> QED
    BY <1>1, <2>2
<1> QED
  BY <1>3, <1>4, <1>5

\* What is at the places of a list into which a sample was inserted.
LEMMA InsertedAt ==
    ASSUME NEW a \in Seq(Samples), NEW b \in Seq(Samples), NEW s \in Samples,
           NEW i \in 1..Len(Append(a, s) \o b)
    PROVE  LET m == Append(a, s) \o b IN
           \/ i \in 1..Len(a) /\ m[i] = a[i]
           \/ i = Len(a) + 1 /\ m[i] = s
           \/ i - (Len(a) + 1) \in 1..Len(b) /\ m[i] = b[i - (Len(a) + 1)]
<1> DEFINE c == Append(a, s)
           m == c \o b
           n == Len(a)
<1>1. /\ c \in Seq(Samples) /\ Len(c) = n + 1 /\ n \in Nat /\ c[n + 1] = s
      /\ \A j \in 1..n : c[j] = a[j]
  OBVIOUS
<1> HIDE DEF c, n
<1>2. /\ Len(m) = Len(c) + Len(b) /\ Len(b) \in Nat
      /\ \A j \in 1..Len(c) : m[j] = c[j]
      /\ \A j \in 1..Len(b) : m[Len(c) + j] = b[j]
  <2>1. /\ c \o b \in Seq(Samples) /\ Len(c \o b) = Len(c) + Len(b)
        /\ Len(c) \in Nat /\ Len(b) \in Nat
        /\ \A j \in 1..Len(c) : (c \o b)[j] = c[j]
        /\ \A j \in 1..Len(b) : (c \o b)[Len(c) + j] = b[j]
    <3>1. c \in Seq(Samples)
      BY <1>1
    <3> QED
      BY ONLY <3>1, b \in Seq(Samples), Joined
  <2> QED
    BY <2>1
<1>3. i \in 1..Len(m)
  BY DEF c
<1> HIDE DEF m
<1>4. CASE i <= n
  BY <1>1, <1>2, <1>3, <1>4 DEF n, c, m
<1>5. CASE i = n + 1
  BY <1>1, <1>2, <1>3, <1>5 DEF n, c, m
<1>6. CASE i > n + 1
  <2>1. i - (n + 1) \in 1..Len(b) /\ Len(c) + (i - (n + 1)) = i
    BY <1>1, <1>2, <1>3, <1>6
  <2>2. m[i] = b[i - (n + 1)]
    BY <1>2, <2>1
  <2> QED
    BY <2>1, <2>2 DEF n, c, m
<1> QED
  BY <1>1, <1>2, <1>3, <1>4, <1>5, <1>6

\* Inserting a sample in both lists.
LEMMA Inserted ==
    ASSUME NEW list \in Seq(Samples), NEW s \in Samples, Ordered(list)
    PROVE  /\ Insert(list, s) \in Seq(Samples)
           /\ Ordered(Insert(list, s))
           /\ Range(Insert(list, s)) \subseteq Range(list) \cup {s}
           /\ Distinct(list) /\ s \notin Range(list) => Distinct(Insert(list, s))
           /\ \A tp \in Tracepoints :
                 Those(Insert(list, s), OfTp(tp)) =
                    IF tp = s.tp THEN Insert(Those(list, OfTp(tp)), s) ELSE Those(list, OfTp(tp))
<1>0. \A x \in Samples : x.time \in Nat
  BY DEF Samples
<1>1. PICK a \in Seq(Samples), b \in Seq(Samples) : list = a \o b /\ SplitAt(a, b, s)
  BY SplitExists
<1> DEFINE c == Append(a, s)
           m == c \o b
           n == Len(a)
<1>2. Insert(list, s) = m
  BY <1>1, InsertSplit
<1>3. /\ \A i \in 1..Len(a) : a[i].time <= s.time
      /\ \A i, j \in 1..Len(a) : i <= j => a[i].time <= a[j].time
      /\ \A i, j \in 1..Len(b) : i <= j => b[i].time <= b[j].time
  <2>1. Ordered(a \o b)
    BY <1>1
  <2> QED
    BY <1>1, <2>1, OrderedSplit
<1>4. \A i \in 1..Len(b) : b[i].time > s.time
  BY <1>1 DEF SplitAt
<1>5. c \in Seq(Samples) /\ m \in Seq(Samples) /\ n \in Nat /\ Len(b) \in Nat
  OBVIOUS
<1>6. \A i \in 1..Len(m) :
           \/ i \in 1..n /\ m[i] = a[i]
           \/ i = n + 1 /\ m[i] = s
           \/ i - (n + 1) \in 1..Len(b) /\ m[i] = b[i - (n + 1)]
  BY InsertedAt
<1>7. /\ \A i \in 1..n : a[i] \in Samples
      /\ \A i \in 1..Len(b) : b[i] \in Samples
  OBVIOUS
<1>8. /\ Len(list) = n + Len(b)
      /\ \A i \in 1..n : list[i] = a[i]
      /\ \A i \in 1..Len(b) : list[n + i] = b[i]
      /\ DOMAIN list = 1..Len(list)
  <2>1. /\ Len(a \o b) = n + Len(b)
        /\ \A i \in 1..n : (a \o b)[i] = a[i]
        /\ \A i \in 1..Len(b) : (a \o b)[n + i] = b[i]
    BY Joined
  <2> QED
    BY <1>1, <2>1
<1>9. Ordered(m)
  <2> HIDE DEF m, n
  <2>1. SUFFICES ASSUME NEW i \in 1..Len(m), NEW j \in 1..Len(m), i <= j
                 PROVE  m[i].time <= m[j].time
    BY DEF Ordered
  <2>2. i \in Nat /\ j \in Nat
    BY <1>5
  <2>3. CASE i \in 1..n /\ m[i] = a[i]
    <3>1. CASE j \in 1..n /\ m[j] = a[j]
      BY <1>3, <2>1, <2>3, <3>1 DEF n
    <3>2. CASE j = n + 1 /\ m[j] = s
      BY <1>3, <2>3, <3>2 DEF n
    <3>3. CASE j - (n + 1) \in 1..Len(b) /\ m[j] = b[j - (n + 1)]
      <4>1. a[i].time <= s.time /\ b[j - (n + 1)].time > s.time
        BY <1>3, <1>4, <2>3, <3>3 DEF n
      <4>2. a[i].time \in Nat /\ b[j - (n + 1)].time \in Nat /\ s.time \in Nat
        BY <1>0, <1>7, <2>3, <3>3
      <4>3. a[i].time <= b[j - (n + 1)].time
        BY ONLY <4>1, <4>2
      <4> QED
        BY <2>3, <3>3, <4>3
    <3> QED
      BY <1>6, <3>1, <3>2, <3>3
  <2>4. CASE i = n + 1 /\ m[i] = s
    <3>1. CASE j \in 1..n /\ m[j] = a[j]
      BY <1>5, <2>1, <2>4, <3>1
    <3>2. CASE j = n + 1 /\ m[j] = s
      BY <1>0, <2>4, <3>2
    <3>3. CASE j - (n + 1) \in 1..Len(b) /\ m[j] = b[j - (n + 1)]
      <4>1. b[j - (n + 1)].time > s.time
        BY <1>4, <3>3
      <4>2. b[j - (n + 1)].time \in Nat /\ s.time \in Nat
        BY <1>0, <1>7, <3>3
      <4>3. s.time <= b[j - (n + 1)].time
        BY ONLY <4>1, <4>2
      <4> QED
        BY <2>4, <3>3, <4>3
    <3> QED
      BY <1>6, <3>1, <3>2, <3>3
  <2>5. CASE i - (n + 1) \in 1..Len(b) /\ m[i] = b[i - (n + 1)]
    <3>1. ~(j \in 1..n) /\ j # n + 1
      BY <1>5, <2>1, <2>2, <2>5
    <3>2. j - (n + 1) \in 1..Len(b) /\ m[j] = b[j - (n + 1)]
      BY <1>6, <3>1
    <3>3. i - (n + 1) <= j - (n + 1)
      BY <1>5, <2>1, <2>2
    <3> QED
      BY <1>3, <2>5, <3>2, <3>3
  <2> QED
    BY <1>6, <2>3, <2>4, <2>5
<1>10. \A i \in 1..Len(m) : m[i] = s \/ m[i] \in Range(list)
  <2> HIDE DEF m, n
  <2> SUFFICES ASSUME NEW i \in 1..Len(m)
               PROVE  m[i] = s \/ m[i] \in Range(list)
    OBVIOUS
  <2>1. CASE i \in 1..n /\ m[i] = a[i]
    <3>1. i \in DOMAIN list /\ m[i] = list[i]
      BY <1>5, <1>8, <2>1
    <3> QED
      BY <3>1 DEF Range
  <2>2. CASE i - (n + 1) \in 1..Len(b) /\ m[i] = b[i - (n + 1)]
    <3> DEFINE k == i - (n + 1)
    <3>1. k \in 1..Len(b) /\ m[i] = b[k]
      BY <2>2
    <3> HIDE DEF k
    <3>2. n + k \in DOMAIN list /\ m[i] = list[n + k]
      BY <1>5, <1>8, <3>1
    <3> QED
      BY <3>2 DEF Range
  <2> QED
    BY <1>6, <2>1, <2>2
<1>11. Range(m) \subseteq Range(list) \cup {s}
  <2>1. DOMAIN m = 1..Len(m)
    BY <1>5
  <2> QED
    BY <1>10, <2>1 DEF Range
<1>12. ASSUME Distinct(list), s \notin Range(list)
       PROVE  Distinct(m)
  <2> HIDE DEF m, n
  \* Every place but that of s is a place of the list.
  <2>0. \A k \in 1..Len(list) : list[k] # s
    BY <1>8, <1>12 DEF Range
  <2> DEFINE q(i) == IF i <= n THEN i ELSE i - 1
  <2>1. ASSUME NEW i \in 1..Len(m), i # n + 1
        PROVE  q(i) \in 1..Len(list) /\ m[i] = list[q(i)]
    <3>1. CASE i \in 1..n /\ m[i] = a[i]
      BY <1>5, <1>8, <3>1
    <3>2. CASE i - (n + 1) \in 1..Len(b) /\ m[i] = b[i - (n + 1)]
      <4>1. i \in Int /\ ~(i <= n) /\ q(i) = n + (i - (n + 1)) /\ q(i) \in 1..Len(list)
        BY <1>5, <1>8, <3>2
      <4>2. list[n + (i - (n + 1))] = b[i - (n + 1)]
        BY <1>8, <3>2
      <4> QED
        BY <3>2, <4>1, <4>2
    <3> QED
      BY <1>6, <2>1, <3>1, <3>2
  <2>2. ASSUME NEW i \in 1..Len(m), i = n + 1
        PROVE  m[i] = s
    BY <1>5, <1>6, <2>2
  <2>3. SUFFICES ASSUME NEW i \in 1..Len(m), NEW j \in 1..Len(m), m[i] = m[j]
                 PROVE  i = j
    BY DEF Distinct
  <2>4. CASE i # n + 1 /\ j # n + 1
    <3>1. list[q(i)] = list[q(j)] /\ q(i) \in 1..Len(list) /\ q(j) \in 1..Len(list)
      BY <2>1, <2>3, <2>4
    <3>2. q(i) = q(j)
      BY <1>12, <3>1 DEF Distinct
    <3> QED
      BY <1>5, <2>4, <3>2
  <2>5. CASE i = n + 1 \/ j = n + 1
    BY <2>0, <2>1, <2>2, <2>3, <2>5
  <2> QED
    BY <2>4, <2>5
<1>13. ASSUME NEW tp \in Tracepoints
       PROVE  Those(m, OfTp(tp)) =
                 IF tp = s.tp THEN Insert(Those(list, OfTp(tp)), s) ELSE Those(list, OfTp(tp))
  <2> DEFINE S == OfTp(tp)
             ta == Those(a, S)
             tb == Those(b, S)
  <2>1. Those(list, S) = ta \o tb
    <3> HIDE DEF S
    <3>1. Those(a \o b, S) = Those(a, S) \o Those(b, S)
      BY ThoseConcat
    <3> QED
      BY <1>1, <3>1
  <2>2. Those(m, S) = Those(c, S) \o tb
    <3> HIDE DEF c, S
    <3> QED
      BY ONLY <1>5, b \in Seq(Samples), ThoseConcat, SMTT(60)
  <2>3. Those(c, S) = IF s \in S THEN Append(ta, s) ELSE ta
    BY ThoseAppend
  <2>4. s \in S <=> tp = s.tp
    BY DEF OfTp
  <2>5. ta \in Seq(Samples) /\ tb \in Seq(Samples)
    BY ThoseType
  <2>6. Range(ta) \subseteq Range(a) /\ Range(tb) \subseteq Range(b)
    BY ThoseElements
  <2> HIDE DEF S, ta, tb
  <2>7. SplitAt(ta, tb, s)
    <3>1. \A x \in Range(a) : x.time <= s.time
      BY <1>3 DEF Range
    <3>2. \A x \in Range(b) : x.time > s.time
      BY <1>4 DEF Range
    <3>3. \A i \in 1..Len(ta) : ta[i] \in Range(ta)
      BY <2>5 DEF Range
    <3>4. \A i \in 1..Len(tb) : tb[i] \in Range(tb)
      BY <2>5 DEF Range
    <3>5. Len(ta) > 0 => Len(ta) \in 1..Len(ta)
      BY <2>5
    <3> QED
      BY <2>6, <3>1, <3>2, <3>3, <3>4, <3>5 DEF SplitAt
  <2>8. Insert(ta \o tb, s) = Append(ta, s) \o tb
    BY <2>5, <2>7, InsertSplit
  <2>9. Those(m, S) = IF tp = s.tp THEN Insert(Those(list, S), s) ELSE Those(list, S)
    BY <2>1, <2>2, <2>3, <2>4, <2>8, Zenon
  <2> QED
    BY <2>9 DEF S
<1> HIDE DEF m
<1> QED
  BY <1>2, <1>5, <1>9, <1>11, <1>12, <1>13

\* Taking the same samples off both.
LEMMA Trimmed ==
    ASSUME NEW list \in Seq(Samples), Ordered(list), Distinct(list)
    PROVE  /\ Trim(list) \in Seq(Samples)
           /\ Ordered(Trim(list)) /\ Distinct(Trim(list))
           /\ Range(Trim(list)) \subseteq Range(list)
           /\ \A tp \in Tracepoints :
                 Those(Those(list, OfTp(tp)), Range(Trim(list))) = Those(Trim(list), OfTp(tp))
<1>1. PICK c \in Seq(Samples), d \in Seq(Samples) :
         list = c \o d /\ OldSplit(c, d, Last(list).time)
  BY OldSplitExists
<1>2. Trim(list) = d
  BY <1>1, TrimSplit
<1> DEFINE n == Len(c)
<1>3. /\ Len(list) = n + Len(d) /\ n \in Nat /\ Len(d) \in Nat
      /\ \A i \in 1..n : list[i] = c[i]
      /\ \A i \in 1..Len(d) : list[n + i] = d[i]
      /\ DOMAIN list = 1..Len(list)
  <2>1. /\ Len(c \o d) = n + Len(d) /\ n \in Nat /\ Len(d) \in Nat
        /\ \A i \in 1..n : (c \o d)[i] = c[i]
        /\ \A i \in 1..Len(d) : (c \o d)[n + i] = d[i]
    BY Joined
  <2> QED
    BY <1>1, <2>1
<1> HIDE DEF n
<1>4. Ordered(d)
  <2>1. SUFFICES ASSUME NEW i \in 1..Len(d), NEW j \in 1..Len(d), i <= j
                 PROVE  d[i].time <= d[j].time
    BY DEF Ordered
  <2>2. n + i \in 1..Len(list) /\ n + j \in 1..Len(list) /\ n + i <= n + j
    BY <1>3, <2>1
  <2> QED
    BY <1>3, <2>2 DEF Ordered
<1>5. Distinct(d)
  <2>1. SUFFICES ASSUME NEW i \in 1..Len(d), NEW j \in 1..Len(d), d[i] = d[j]
                 PROVE  i = j
    BY DEF Distinct
  <2>2. n + i \in 1..Len(list) /\ n + j \in 1..Len(list) /\ list[n + i] = list[n + j]
    BY <1>3, <2>1
  <2>3. n + i = n + j
    BY <2>2 DEF Distinct
  <2> QED
    BY <1>3, <2>3
<1>6. \A i \in 1..Len(d) : n + i \in DOMAIN list /\ d[i] = list[n + i]
  BY <1>3
<1>7. Range(d) \subseteq Range(list) /\ Range(c) \cap Range(d) = {}
  <2>1. DOMAIN d = 1..Len(d) /\ DOMAIN c = 1..n
    BY DEF n
  <2>2. Range(d) \subseteq Range(list)
    BY <1>6, <2>1 DEF Range
  <2>3. ASSUME NEW i \in 1..n, NEW j \in 1..Len(d), c[i] = d[j]
        PROVE  FALSE
    <3>1. i \in 1..Len(list) /\ n + j \in 1..Len(list) /\ list[i] = list[n + j] /\ i # n + j
      BY <1>3, <2>3
    <3> QED
      BY <3>1 DEF Distinct
  <2>4. Range(c) \cap Range(d) = {}
    BY <2>1, <2>3 DEF Range
  <2> QED
    BY <2>2, <2>4
<1>8. ASSUME NEW tp \in Tracepoints
      PROVE  Those(Those(list, OfTp(tp)), Range(d)) = Those(d, OfTp(tp))
  <2> DEFINE S == OfTp(tp)
             R == Range(d)
             SR == S \cap R
  <2>1. Those(Those(list, S), R) = Those(list, SR)
    BY ThoseTwice
  <2>2. Range(c) \cap SR = {} /\ Range(d) \cap SR = Range(d) \cap S
    BY <1>7
  <2> HIDE DEF S, R, SR
  <2>3. Those(c \o d, SR) = Those(c, SR) \o Those(d, SR)
    BY ThoseConcat
  <2>4. Those(c, SR) = <<>>
    BY <2>2, ThoseOthers
  <2>5. Those(d, SR) = Those(d, S)
    BY <2>2, ThoseSame
  <2>6. Those(d, S) \in Seq(Samples)
    BY ThoseType
  <2>7. <<>> \o Those(d, S) = Those(d, S)
    BY <2>6
  <2>8. Those(Those(list, S), R) = Those(d, S)
    BY <1>1, <2>1, <2>3, <2>4, <2>5, <2>7, Zenon
  <2> QED
    BY <2>8 DEF S, R
<1> QED
  BY <1>2, <1>4, <1>5, <1>7, <1>8

-----------------------------------------------------------------------------
(***************************************************************************)
(* The lists are what Reunified says, by a second invariant: samples on    *)
(* their way and in the list are all different.                            *)
(***************************************************************************)

\* The rest of TypeOK that is not about the lists.
Flags ==
    /\ window \in Windows
    /\ metric_set \in BOOLEAN /\ is_sampling \in BOOLEAN /\ tp_open \in BOOLEAN
    /\ oa_open \in BOOLEAN /\ connected \in BOOLEAN
    /\ \A st \in Streams : queue[st] # <<>> => tp_open
    /\ \A p \in Pids : process[p] = None \/ process[p].cmd \in {Unknown, p}

\* The global list is sorted by time; a tracepoint's is a part of it.
Lists ==
    /\ data \in Seq(Samples) /\ Ordered(data) /\ Distinct(data)
    /\ tp_data = [tp \in Tracepoints |-> Those(data, OfTp(tp))]

\* The samples are numbered by the kernel, and each is in one place.
Apart(d, q, w) ==
    /\ \A x \in Range(d) : x.n < w
    /\ \A st \in Streams : \A i \in 1..Len(q[st]) : q[st][i].n < w /\ q[st][i] \notin Range(d)
    /\ \A st, su \in Streams : \A i \in 1..Len(q[st]), j \in 1..Len(q[su]) :
          q[st][i] = q[su][j] => st = su /\ i = j

LInv == Flags /\ Lists /\ Apart(data, queue, written)

\* Nothing is sampled, nothing listed.
LEMMA NoSamples ==
    ASSUME NEW w
    PROVE  /\ Apart(<<>>, [st \in Streams |-> <<>>], w)
           /\ <<>> \in Seq(Samples) /\ Ordered(<<>>) /\ Distinct(<<>>)
           /\ [tp \in Tracepoints |-> <<>>] = [tp \in Tracepoints |-> Those(<<>>, OfTp(tp))]
<1>1. <<>> \in Seq(Samples) /\ Ordered(<<>>) /\ Distinct(<<>>) /\ Range(<<>>) = {}
  BY DEF Ordered, Distinct, Range
<1>2. \A st \in Streams : Len([su \in Streams |-> <<>>][st]) = 0
  OBVIOUS
<1>3. Apart(<<>>, [st \in Streams |-> <<>>], w)
  <2> DEFINE q == [st \in Streams |-> <<>>]
             d == <<>>
  <2>1. \A st \in Streams : 1..Len(q[st]) = {}
    BY <1>2
  <2>2. Range(d) = {}
    BY <1>1
  <2> HIDE DEF q, d
  <2>3. Apart(d, q, w)
    BY <2>1, <2>2 DEF Apart
  <2> QED
    BY <2>3 DEF q, d
<1>4. \A tp \in Tracepoints : Those(<<>>, OfTp(tp)) = <<>>
  BY ThoseNone
<1> QED
  BY <1>1, <1>3, <1>4

LEMMA InitLists == Init => LInv
<1> SUFFICES ASSUME Init
             PROVE  LInv
  OBVIOUS
<1>1. Flags
  BY DEF Init, Flags
<1>2. data = <<>> /\ tp_data = [tp \in Tracepoints |-> <<>>] /\ queue = [st \in Streams |-> <<>>]
  BY DEF Init
<1>3. Apart(data, queue, written)
  BY <1>2, NoSamples, Zenon
<1>4. Lists
  <2>1. data \in Seq(Samples) /\ Ordered(data) /\ Distinct(data)
    BY <1>2, NoSamples, Zenon
  <2>2. tp_data = [tp \in Tracepoints |-> Those(data, OfTp(tp))]
    BY <1>2, NoSamples, Zenon
  <2> QED
    BY <2>1, <2>2 DEF Lists
<1> QED
  BY <1>1, <1>3, <1>4 DEF LInv

\* The samples on their way are dropped.
LEMMA DroppedApart ==
    ASSUME NEW d, NEW w, \A x \in Range(d) : x.n < w
    PROVE  Apart(d, [st \in Streams |-> <<>>], w)
<1> DEFINE q == [st \in Streams |-> <<>>]
<1>1. \A st \in Streams : 1..Len(q[st]) = {}
  OBVIOUS
<1> HIDE DEF q
<1>2. Apart(d, q, w)
  BY <1>1 DEF Apart
<1> QED
  BY <1>2 DEF q

\* A process has no name or its own, after every step.
OwnNames(t) == \A p \in Pids : t[p] = None \/ t[p].cmd \in {Unknown, p}

LEMMA AskedNames ==
    ASSUME IInv, NEW pid \in Pids \cup {0}, get_process_info(pid), OwnNames(process)
    PROVE  OwnNames(process')
<1> DEFINE new == [gen |-> gen, cmd |-> Unknown, cmd_line |-> FALSE]
<1>1. CASE pid = 0 \/ process[pid] # None
  <2>1. process' = process
    BY <1>1 DEF get_process_info
  <2> QED
    BY <2>1
<1>2. CASE ~(pid = 0 \/ process[pid] # None)
  <2>1. process' = [process EXCEPT ![pid] = new] /\ new.cmd = Unknown /\ pid \in Pids
    BY <1>2 DEF get_process_info
  <2> HIDE DEF new
  <2>2. \A p \in Pids : process'[p] = IF p = pid THEN new ELSE process[p]
    BY <2>1 DEF IInv, TableTypes
  <2> QED
    BY <2>1, <2>2 DEF OwnNames
<1> QED
  BY <1>1, <1>2

LEMMA AnsweredNames ==
    ASSUME IInv, NEW pid \in Pids, NEW answer, handle_get_process_info(pid, answer),
           OwnNames(process)
    PROVE  OwnNames(process')
<1>1. \/ process' = process
      \/ /\ process[pid] # None
         /\ process' = [process EXCEPT ![pid].cmd = pid, ![pid].cmd_line = (answer = "cmd_line")]
  BY DEF handle_get_process_info
<1>2. CASE process' = process
  BY <1>2
<1>3. CASE /\ process[pid] # None
           /\ process' = [process EXCEPT ![pid].cmd = pid, ![pid].cmd_line = (answer = "cmd_line")]
  <2>1. process \in [Pids -> Processes \cup {None}] /\ process[pid] \in Processes
    BY <1>3 DEF IInv, TableTypes
  <2>2. process'[pid].cmd = pid
    BY <1>3, <2>1 DEF Processes
  <2>3. \A p \in Pids : p # pid => process'[p] = process[p]
    BY <1>3, <2>1
  <2> QED
    BY <2>2, <2>3 DEF OwnNames
<1> QED
  BY <1>1, <1>2, <1>3

\* A sample that the kernel writes is new.
LEMMA EmitLists ==
    ASSUME IInv, LInv, NEW tp \in Tracepoints, NEW cpu \in Cpus, NEW pid \in Pids \cup {0},
           NEW hw \in HwIds, NEW d \in Steps, Emit(tp, cpu, pid, hw, d)
    PROVE  LInv'
<1> DEFINE s == [n |-> written, time |-> now', tp |-> tp, pid |-> pid, hw |-> hw]
           st == <<tp, cpu>>
<1>1. /\ tp_open /\ written' = written + 1
      /\ queue' = [queue EXCEPT ![st] = Append(queue[st], s)]
      /\ UNCHANGED <<window, openVars, data, tp_data, process>>
  BY DEF Emit, listVars, tableVars
<1>2. written \in Nat /\ queue \in [Streams -> Seq(Samples)] /\ written \in 0..MaxSamples
  BY DEF IInv, TableTypes
<1>3. st \in Streams /\ s.n = written
  BY DEF Streams
<1> HIDE DEF s, st
<1>4. /\ \A su \in Streams : su # st => queue'[su] = queue[su]
      /\ queue'[st] = Append(queue[st], s) /\ queue[st] \in Seq(Samples)
  BY <1>1, <1>2, <1>3
<1>5. /\ Len(queue'[st]) = Len(queue[st]) + 1 /\ Len(queue[st]) \in Nat
      /\ queue'[st][Len(queue[st]) + 1] = s
      /\ \A i \in 1..Len(queue[st]) : queue'[st][i] = queue[st][i]
  BY <1>4
<1>6. /\ \A x \in Range(data) : x.n < written /\ x.n \in Int
      /\ \A su \in Streams : \A i \in 1..Len(queue[su]) :
            queue[su][i].n < written /\ queue[su][i].n \in Int
  <2>1. \A x \in Samples : x.n \in Int
    BY DEF Samples
  <2>2. \A x \in Range(data) : x \in Samples
    BY DEF LInv, Lists, Range
  <2>3. \A su \in Streams : \A i \in 1..Len(queue[su]) : queue[su][i] \in Samples
    BY <1>2
  <2> QED
    BY <2>1, <2>2, <2>3 DEF LInv, Apart
<1> DEFINE new(su, i) == su = st /\ i = Len(queue[st]) + 1
<1>7. ASSUME NEW su \in Streams, NEW i \in 1..Len(queue'[su])
      PROVE  \/ new(su, i) /\ queue'[su][i] = s
             \/ ~new(su, i) /\ i \in 1..Len(queue[su]) /\ queue'[su][i] = queue[su][i]
  <2>1. CASE su # st
    BY <1>4, <2>1
  <2>2. CASE su = st
    BY <1>5, <2>2
  <2> QED
    BY <2>1, <2>2
<1>8. s \notin Range(data)
  BY <1>2, <1>3, <1>6
<1>9. \A su \in Streams : \A i \in 1..Len(queue[su]) : queue[su][i] # s
  BY <1>2, <1>3, <1>6
<1>10. ASSUME NEW su \in Streams, NEW i \in 1..Len(queue'[su])
       PROVE  queue'[su][i].n < written' /\ queue'[su][i] \notin Range(data')
  <2>1. CASE new(su, i) /\ queue'[su][i] = s
    BY <1>1, <1>2, <1>3, <1>8, <2>1
  <2>2. CASE ~new(su, i) /\ i \in 1..Len(queue[su]) /\ queue'[su][i] = queue[su][i]
    BY <1>1, <1>2, <1>6, <2>2 DEF LInv, Apart
  <2> QED
    BY <1>7, <2>1, <2>2
<1>11. ASSUME NEW su \in Streams, NEW sv \in Streams,
              NEW i \in 1..Len(queue'[su]), NEW j \in 1..Len(queue'[sv]),
              queue'[su][i] = queue'[sv][j]
       PROVE  su = sv /\ i = j
  <2>1. CASE new(su, i) /\ queue'[su][i] = s
    BY <1>7, <1>9, <1>11, <2>1
  <2>2. CASE ~new(su, i) /\ i \in 1..Len(queue[su]) /\ queue'[su][i] = queue[su][i]
    <3>1. ~new(sv, j) /\ j \in 1..Len(queue[sv]) /\ queue'[sv][j] = queue[sv][j]
      BY <1>7, <1>9, <1>11, <2>2
    <3>2. queue[su][i] = queue[sv][j]
      BY <1>11, <2>2, <3>1
    <3>3. \A ta, tb \in Streams : \A k \in 1..Len(queue[ta]), m \in 1..Len(queue[tb]) :
             queue[ta][k] = queue[tb][m] => ta = tb /\ k = m
      BY DEF LInv, Apart
    <3> QED
      BY <2>2, <3>1, <3>2, <3>3, SMTT(60)
  <2> QED
    BY <1>7, <2>1, <2>2
<1>12. \A x \in Range(data') : x.n < written'
  BY <1>1, <1>2, <1>6
<1>13. Apart(data', queue', written')
  BY <1>10, <1>11, <1>12 DEF Apart
<1>14. Flags' /\ Lists'
  BY <1>1 DEF LInv, Flags, Lists, openVars, Ordered, Distinct
<1> QED
  BY <1>13, <1>14 DEF LInv

\* A sample goes from its stream into the lists.
LEMMA SampleLists ==
    ASSUME IInv, LInv, NEW st \in Streams, add_tracepoint_stream_data(st)
    PROVE  LInv'
<1> DEFINE s == queue[st][1]
           l == Insert(data, s)
<1>1. /\ queue[st] # <<>> /\ queue' = [queue EXCEPT ![st] = Tail(queue[st])]
      /\ UNCHANGED <<window, openVars, now, written>>
      /\ data' = Trim(l)
      /\ tp_data' = [tp \in Tracepoints |->
            Those(IF tp = s.tp THEN Insert(tp_data[tp], s) ELSE tp_data[tp], Range(data'))]
  BY DEF add_tracepoint_stream_data, Reunify
<1>2. /\ queue \in [Streams -> Seq(Samples)] /\ queue[st] \in Seq(Samples)
      /\ data \in Seq(Samples) /\ Ordered(data) /\ Distinct(data)
      /\ \A tp \in Tracepoints : tp_data[tp] = Those(data, OfTp(tp))
  BY DEF IInv, TableTypes, LInv, Lists
<1>3. s \in Samples /\ 1 \in 1..Len(queue[st])
  BY <1>1, <1>2
<1>4. /\ \A su \in Streams : su # st => queue'[su] = queue[su]
      /\ queue'[st] = Tail(queue[st])
      /\ Len(queue'[st]) = Len(queue[st]) - 1 /\ Len(queue[st]) \in Nat
      /\ \A i \in 1..Len(queue'[st]) : i + 1 \in 1..Len(queue[st]) /\ queue'[st][i] = queue[st][i + 1]
  BY <1>1, <1>2
<1>5. s \notin Range(data) /\ s.n < written
  BY <1>3 DEF LInv, Apart
<1> HIDE DEF s, l
<1>6. /\ l \in Seq(Samples) /\ Ordered(l) /\ Range(l) \subseteq Range(data) \cup {s}
      /\ Distinct(l)
      /\ \A tp \in Tracepoints :
            Those(l, OfTp(tp)) =
               IF tp = s.tp THEN Insert(Those(data, OfTp(tp)), s) ELSE Those(data, OfTp(tp))
  BY <1>2, <1>3, <1>5, Inserted, Zenon DEF l
<1>7. /\ data' \in Seq(Samples) /\ Ordered(data') /\ Distinct(data')
      /\ Range(data') \subseteq Range(l)
      /\ \A tp \in Tracepoints : Those(Those(l, OfTp(tp)), Range(data')) = Those(data', OfTp(tp))
  BY <1>1, <1>6, Trimmed, Zenon
<1>8. tp_data' = [tp \in Tracepoints |-> Those(data', OfTp(tp))]
  <2>1. \A tp \in Tracepoints :
           Those(IF tp = s.tp THEN Insert(tp_data[tp], s) ELSE tp_data[tp], Range(data')) =
              Those(data', OfTp(tp))
    BY <1>2, <1>6, <1>7, Zenon
  <2> QED
    BY <1>1, <2>1
<1>9. Lists'
  BY <1>7, <1>8 DEF Lists, Ordered, Distinct
\* Where a sample that is still on its way was.
<1> DEFINE was(su, i) == IF su = st THEN i + 1 ELSE i
<1>10. ASSUME NEW su \in Streams, NEW i \in 1..Len(queue'[su])
       PROVE  /\ was(su, i) \in 1..Len(queue[su]) /\ queue'[su][i] = queue[su][was(su, i)]
              /\ queue'[su][i] # s
  <2>1. was(su, i) \in 1..Len(queue[su]) /\ queue'[su][i] = queue[su][was(su, i)]
    BY <1>4
  <2>2. was(su, i) # 1 \/ su # st
    BY <1>4
  <2> QED
    BY <1>3, <2>1, <2>2 DEF LInv, Apart, s
<1>11. Range(data') \subseteq Range(data) \cup {s}
  BY <1>6, <1>7
<1>12. ASSUME NEW su \in Streams, NEW i \in 1..Len(queue'[su])
       PROVE  queue'[su][i].n < written' /\ queue'[su][i] \notin Range(data')
  <2>1. queue'[su][i].n < written /\ queue'[su][i] \notin Range(data)
    BY <1>10 DEF LInv, Apart
  <2> QED
    BY <1>1, <1>10, <1>11, <2>1
<1>13. ASSUME NEW su \in Streams, NEW sv \in Streams,
              NEW i \in 1..Len(queue'[su]), NEW j \in 1..Len(queue'[sv]),
              queue'[su][i] = queue'[sv][j]
       PROVE  su = sv /\ i = j
  <2>1. su = sv /\ was(su, i) = was(sv, j)
    <3>1. /\ was(su, i) \in 1..Len(queue[su]) /\ was(sv, j) \in 1..Len(queue[sv])
          /\ queue[su][was(su, i)] = queue[sv][was(sv, j)]
      BY <1>10, <1>13
    <3>2. \A ta, tb \in Streams : \A k \in 1..Len(queue[ta]), m \in 1..Len(queue[tb]) :
             queue[ta][k] = queue[tb][m] => ta = tb /\ k = m
      BY DEF LInv, Apart
    <3> HIDE DEF was
    <3> QED
      BY <3>1, <3>2, Zenon
  <2> QED
    BY <1>4, <2>1
<1>14. \A x \in Range(data') : x.n < written'
  BY <1>1, <1>5, <1>11 DEF LInv, Apart
<1>15. Apart(data', queue', written')
  BY <1>12, <1>13, <1>14 DEF Apart
<1>16. OwnNames(process')
  <2>1. OwnNames(process)
    BY DEF LInv, Flags, OwnNames
  <2>2. process' = process \/ \E pid \in Pids \cup {0} : get_process_info(pid)
    <3>1. s.pid \in Pids \cup {0}
      BY <1>3 DEF Samples
    <3> QED
      BY <3>1 DEF add_tracepoint_stream_data, Attribute, tableVars, s
  <2> QED
    BY <2>1, <2>2, AskedNames
<1>17. Flags'
  <2>1. \A su \in Streams : queue'[su] # <<>> => tp_open'
    BY <1>1, <1>4 DEF LInv, Flags, openVars
  <2> QED
    BY <1>1, <1>16, <2>1 DEF LInv, Flags, openVars, OwnNames
<1> QED
  BY <1>9, <1>15, <1>17 DEF LInv

\* Both lists are emptied, and nothing is on its way.
LEMMA ClearedLists ==
    ASSUME LInv, Discard, ClearTables, clear_perf_tracepoints_data, window' = window,
           metric_set' \in BOOLEAN /\ is_sampling' \in BOOLEAN /\ tp_open' \in BOOLEAN,
           oa_open' \in BOOLEAN /\ connected' \in BOOLEAN
    PROVE  LInv'
<1>1. /\ data' = <<>> /\ tp_data' = [tp \in Tracepoints |-> <<>>]
      /\ queue' = [st \in Streams |-> <<>>] /\ process' = [p \in Pids |-> None]
  BY DEF Discard, ClearTables, clear_perf_tracepoints_data
<1>2. Apart(data', queue', written')
  BY <1>1, NoSamples, Zenon
<1>3. data' \in Seq(Samples) /\ Ordered(data') /\ Distinct(data')
  BY <1>1, NoSamples, Zenon
<1>4. tp_data' = [tp \in Tracepoints |-> Those(data', OfTp(tp))]
  BY <1>1, NoSamples, Zenon
<1>5. Lists'
  BY <1>3, <1>4 DEF Lists, Ordered, Distinct
<1>6. Flags'
  BY <1>1 DEF LInv, Flags
<1> QED
  BY <1>2, <1>5, <1>6 DEF LInv

\* Steps that leave streams, lists and names alone.
LEMMA ListsUntouched ==
    ASSUME LInv, UNCHANGED <<data, tp_data, queue, written, tp_open, is_sampling, oa_open>>,
           window' \in Windows, metric_set' \in BOOLEAN, connected' \in BOOLEAN,
           OwnNames(process')
    PROVE  LInv'
<1>1. Flags' /\ Lists'
  BY DEF LInv, Flags, Lists, OwnNames, Ordered, Distinct
<1>2. Apart(data', queue', written')
  BY DEF LInv
<1> QED
  BY <1>1, <1>2 DEF LInv

LEMMA NextLists ==
    ASSUME IInv, LInv, [Next]_vars
    PROVE  LInv'
<1>0. /\ OwnNames(process) /\ window \in Windows /\ metric_set \in BOOLEAN
      /\ is_sampling \in BOOLEAN /\ tp_open \in BOOLEAN /\ oa_open \in BOOLEAN
      /\ connected \in BOOLEAN
  BY DEF LInv, Flags, OwnNames
<1>1. CASE UNCHANGED vars \/ (\E wd \in Windows : set_window(wd)) \/ connection_closed
  <2>1. /\ UNCHANGED <<data, tp_data, queue, written, tp_open, is_sampling, oa_open>>
        /\ metric_set' = metric_set /\ process' = process /\ window' \in Windows
        /\ connected' \in BOOLEAN
    BY <1>0, <1>1 DEF vars, set_window, connection_closed, openVars, listVars, tableVars
  <2> QED
    BY <1>0, <2>1, ListsUntouched
<1>2. CASE \E tp \in Tracepoints, cpu \in Cpus, pid \in Pids \cup {0}, hw \in HwIds, d \in Steps :
              Emit(tp, cpu, pid, hw, d)
  BY <1>2, EmitLists
<1>3. CASE \E pid \in Pids, answer \in {"cmd_line", "empty", "error"} :
              handle_get_process_info(pid, answer)
  <2>1. PICK pid \in Pids, answer \in {"cmd_line", "empty", "error"} :
           handle_get_process_info(pid, answer)
    BY <1>3
  <2>2. OwnNames(process')
    BY <1>0, <2>1, AnsweredNames
  <2>3. /\ UNCHANGED <<data, tp_data, queue, written, tp_open, is_sampling, oa_open>>
        /\ metric_set' = metric_set /\ window' = window /\ connected' = connected
    BY <2>1 DEF handle_get_process_info, openVars, listVars
  <2> QED
    BY <1>0, <2>2, <2>3, ListsUntouched
<1>4. CASE \E s \in Streams : add_tracepoint_stream_data(s)
  BY <1>4, SampleLists
<1>5. CASE \E hw \in HwIds : get_hw_context(hw) \/ put_hw_context(hw)
  <2>1. /\ UNCHANGED <<data, tp_data, queue, written, tp_open, is_sampling, oa_open>>
        /\ metric_set' = metric_set /\ window' = window /\ process' = process
        /\ connected' = connected
    BY <1>5 DEF get_hw_context, put_hw_context, openVars, listVars, tableVars
  <2> QED
    BY <1>0, <2>1, ListsUntouched
<1>6. CASE stop_sampling
  <2>1. /\ queue' = [s \in Streams |-> <<>>]
        /\ UNCHANGED <<data, tp_data, written, process, window, metric_set, connected>>
        /\ is_sampling' \in BOOLEAN /\ tp_open' \in BOOLEAN /\ oa_open' \in BOOLEAN
    BY <1>6 DEF stop_sampling, Discard, listVars, tableVars
  <2>2. Apart(data', queue', written')
    <3>1. \A x \in Range(data) : x.n < written
      BY DEF LInv, Apart
    <3>2. Apart(data, [s \in Streams |-> <<>>], written)
      BY <3>1, DroppedApart
    <3> QED
      BY <2>1, <3>2
  <2>3. Flags' /\ Lists'
    BY <1>0, <2>1 DEF LInv, Flags, Lists, Ordered, Distinct
  <2> QED
    BY <2>2, <2>3 DEF LInv
<1>7. CASE gputop_client_context_start_sampling /\ metric_set' \in BOOLEAN
  <2>1. /\ Discard /\ ClearTables /\ clear_perf_tracepoints_data /\ window' = window
        /\ is_sampling' \in BOOLEAN /\ tp_open' \in BOOLEAN /\ oa_open' \in BOOLEAN
        /\ connected' \in BOOLEAN
    BY <1>0, <1>7 DEF gputop_client_context_start_sampling
  <2> QED
    BY <1>7, <2>1, ClearedLists
<1>8. CASE start_sampling
  BY <1>0, <1>7, <1>8 DEF start_sampling
<1>9. CASE reset
  <2>1. /\ Discard /\ ClearTables /\ clear_perf_tracepoints_data /\ window' = window
        /\ metric_set' \in BOOLEAN /\ is_sampling' \in BOOLEAN /\ tp_open' \in BOOLEAN
        /\ oa_open' \in BOOLEAN /\ connected' \in BOOLEAN
    BY <1>0, <1>9 DEF reset
  <2> QED
    BY <2>1, ClearedLists
<1>10. CASE select_metric_set
  <2>0. metric_set' \in BOOLEAN
    BY <1>10 DEF select_metric_set
  <2>1. CASE is_sampling
    BY <1>7, <1>10, <2>0, <2>1 DEF select_metric_set
  <2>2. CASE ~is_sampling
    <3>1. /\ UNCHANGED <<data, tp_data, queue, written, tp_open, is_sampling, oa_open>>
          /\ window' = window /\ process' = process /\ connected' = connected
      BY <1>10, <2>2 DEF select_metric_set, listVars, tableVars
    <3> QED
      BY <1>0, <2>0, <3>1, ListsUntouched
  <2> QED
    BY <2>1, <2>2
<1> QED
  BY <1>1, <1>2, <1>3, <1>4, <1>5, <1>6, <1>8, <1>9, <1>10 DEF Next

\* The lists, too, satisfy their invariant.
THEOREM ListsInductive == Spec => [](IInv /\ LInv)
<1>1. Init => IInv /\ LInv
  BY InitInductive, InitLists
<1>2. IInv /\ LInv /\ [Next]_vars => IInv' /\ LInv'
  BY NextInductive, NextLists
<1> QED
  BY <1>1, <1>2, PTL DEF Spec

\* Streams, lists and tables keep their types.
THEOREM TypeCorrect == Spec => []TypeOK
<1>1. IInv /\ LInv => TypeOK
  <2> SUFFICES ASSUME IInv, LInv
               PROVE  TypeOK
    OBVIOUS
  <2>1. \A tp \in Tracepoints : tp_data[tp] \in Seq(Samples)
    BY ThoseType DEF LInv, Lists
  <2>2. DOMAIN tp_data = Tracepoints /\ data \in Seq(Samples)
    BY DEF LInv, Lists
  <2>3. DOMAIN queue = Streams /\ \A s \in Streams : queue[s] \in Seq(Samples)
    BY DEF IInv, TableTypes
  <2> QED
    BY <2>1, <2>2, <2>3 DEF IInv, TableTypes, LInv, Flags, TypeOK
<1> QED
  BY <1>1, ListsInductive, PTL

\* However the streams interleave, the lists are sorted by time and agree.
THEOREM SortedAndAlike == Spec => []Reunified
<1>1. IInv /\ LInv => Reunified
  <2> SUFFICES ASSUME IInv, LInv
               PROVE  Reunified
    OBVIOUS
  <2>1. ASSUME NEW i \in 1..Len(data) - 1
        PROVE  data[i].time <= data[i + 1].time
    <3>1. i \in 1..Len(data) /\ i + 1 \in 1..Len(data) /\ i <= i + 1
      BY DEF LInv, Lists
    <3> QED
      BY <3>1 DEF LInv, Lists, Ordered
  <2>2. ASSUME NEW tp \in Tracepoints
        PROVE  tp_data[tp] = Those(data, {s \in Range(data) : s.tp = tp})
    <3> DEFINE S == {s \in Range(data) : s.tp = tp}
    <3>1. Range(data) \cap S = Range(data) \cap OfTp(tp)
      BY DEF LInv, Lists, Range, OfTp
    <3>2. data \in Seq(Samples) /\ tp_data[tp] = Those(data, OfTp(tp))
      BY DEF LInv, Lists
    <3> HIDE DEF S
    <3>3. Those(data, S) = Those(data, OfTp(tp))
      BY <3>1, <3>2, ThoseSame
    <3> QED
      BY <3>2, <3>3 DEF S
  <2> QED
    BY <2>1, <2>2 DEF Reunified
<1> QED
  BY <1>1, ListsInductive, PTL

=============================================================================
