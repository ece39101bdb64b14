--------------------------- MODULE TracepointData ---------------------------
(***************************************************************************)
(* What the client makes of tracepoint samples, in lib/gputop-client-      *)
(* context.c: it reunifies the streams of all CPUs into lists sorted by    *)
(* time, and learns from some tracepoints which process a hardware         *)
(* context belongs to, asking the server for the names of processes.       *)
(*                                                                         *)
(* A tracepoint has a stream per CPU.  A stream's samples arrive in order, *)
(* those of different streams in any order.  Contexts come and go with the *)
(* OA reports (OaTimeline); streams, tracepoints and connections are those *)
(* of ClientContext, here only open or closed.  A connection that takes no *)
(* requests any more may still bring samples and answers: it is closing,   *)
(* or the closed callback of an older one cleared ctx->connection.         *)
(***************************************************************************)
EXTENDS Integers, Sequences, FiniteSets, SequencesExt

CONSTANTS
    Cpus,
    Tracepoints,
    Correlating,  \* those with a process_field
    Identifying,  \* those of them with a hw_id_field, too
    Pids,         \* process ids other than 0
    HwIds,
    Windows,      \* what oa_visible_timeline_s can be set to
    Steps,        \* bound: time from one sample to the next
    None,         \* NULL
    MaxSamples,   \* bound: samples the kernel writes
    MaxStarts     \* bound: starts of sampling, and resets

Unknown == 0   \* "<unknown>"

\* A process, a pointer to one (the pid and when it was allocated), a context
Processes == [gen : 0..MaxStarts, cmd : Pids \cup {Unknown}, cmd_line : BOOLEAN]
Pointers == Pids \X (0..MaxStarts)
Contexts == [process : Pointers \cup {None}, name : Pids \cup {Unknown}]

ASSUME TracepointAssumption ==
    /\ Identifying \subseteq Correlating /\ Correlating \subseteq Tracepoints
    /\ Pids \subseteq Nat \ {0}
    /\ Windows \subseteq Nat \ {0} /\ Windows # {}
    /\ Steps \subseteq Nat
    /\ None \notin Nat \cup HwIds
    /\ None \notin Processes \cup Pointers \cup Contexts
    /\ {MaxSamples, MaxStarts} \subseteq Nat

Streams == Tracepoints \X Cpus

VARIABLES
    window,          \* oa_visible_timeline_s
    metric_set,      \* whether one is selected
    is_sampling,
    tp_open, oa_open, \* whether the streams are open, here and on the server
    connected,       \* send_pb_message() has a connection that takes requests
    queue,           \* per stream: samples on their way
    data,            \* perf_tracepoints_data
    tp_data,         \* per tracepoint: its data
    process,         \* pid_to_process_table: per pid, the process or None
    hw_to_process,   \* hw_id_to_process_table: per context, a pointer or None
    hw_contexts,     \* per id: the context or None
    asked,           \* process information requested, not answered yet
    nameless,        \* (history) pids the server answered with an error
    gen,             \* the starts and resets, which tell allocations apart
    now, written,    \* the kernel's clock from the first sample on, the samples it wrote
    newest,          \* (history) per context: the newest sample that names its owner
    unordered        \* (history) contexts whose samples did not arrive by time

listVars == <<data, tp_data>>
tableVars == <<process, hw_to_process, asked, nameless>>
openVars == <<metric_set, is_sampling, tp_open, oa_open, connected, gen>>
history == <<newest, unordered>>
vars == <<window, openVars, queue, listVars, tableVars, hw_contexts, now, written, history>>

-----------------------------------------------------------------------------
(* The lists of samples *)

\* Where the walk from the end stops: after the last sample that is not newer.
Position(list, s) ==
    Cardinality({i \in DOMAIN list :
                    \E j \in i..Len(list) : list[j].time <= s.time})

\* (mutant) The sample is added at the end
Insert_last(list, s) == Append(list, s)

Insert(list, s) == InsertAt(list, Position(list, s) + 1, s)

\* The samples of a list that are in a set, in their order.
Those(list, S) ==
    LET kept[i \in 0..Len(list)] ==
            IF i = 0 THEN <<>>
            ELSE IF list[i] \in S THEN Append(kept[i - 1], list[i])
            ELSE kept[i - 1]
    IN  kept[Len(list)]

\* How many samples the loop takes off the list: the first, while it is too old.
TooOld(list) ==
    Cardinality({i \in DOMAIN list :
                    \A j \in 1..i : Last(list).time - list[j].time > window})

Trim(list) == SubSeq(list, TooOld(list) + 1, Len(list))

-----------------------------------------------------------------------------
(* Processes and contexts *)

Pointer(pid) == <<pid, process[pid].gen>>

\* (mutant) A process is asked for once
get_process_info_once(pid) ==
    IF pid = 0 \/ process[pid] # None
    THEN UNCHANGED <<process, asked, nameless>>
    ELSE /\ process' = [process EXCEPT ![pid] = [gen |-> gen, cmd |-> Unknown, cmd_line |-> FALSE]]
         /\ asked' = IF connected /\ gen = 1 THEN [asked EXCEPT ![pid] = @ + 1] ELSE asked
         /\ nameless' = nameless \ {pid}

\* The request is dropped without a connection, the entry stays
get_process_info(pid) ==
    IF pid = 0 \/ process[pid] # None
    THEN UNCHANGED <<process, asked, nameless>>
    ELSE /\ process' = [process EXCEPT ![pid] = [gen |-> gen, cmd |-> Unknown, cmd_line |-> FALSE]]
         /\ asked' = IF connected THEN [asked EXCEPT ![pid] = @ + 1] ELSE asked
         /\ nameless' = nameless \ {pid}

\* The contexts that update_hw_contexts_process_info() names after a process
Renamed(contexts, p, cmd) ==
    [hw \in HwIds |->
        IF contexts[hw] # None /\ contexts[hw].process = p
        THEN [contexts[hw] EXCEPT !.name = cmd]
        ELSE contexts[hw]]

\* (mutant) A context keeps the process it was first given
Correlate_first(pid, hw) ==
    IF pid = 0 THEN UNCHANGED <<hw_to_process, hw_contexts>>
    ELSE LET p == <<pid, process'[pid].gen>> IN
         /\ hw_to_process' = [hw_to_process EXCEPT ![hw] = p]
         /\ hw_contexts' =
                IF hw_contexts[hw] = None \/ hw_contexts[hw].process # None
                THEN hw_contexts
                ELSE [hw_contexts EXCEPT ![hw].process = p]

\* (mutant) The context's name is not brought up to date
Correlate_silently(pid, hw) ==
    IF pid = 0 THEN UNCHANGED <<hw_to_process, hw_contexts>>
    ELSE LET p == <<pid, process'[pid].gen>> IN
         /\ hw_to_process' = [hw_to_process EXCEPT ![hw] = p]
         /\ hw_contexts' = IF hw_contexts[hw] = None THEN hw_contexts
                           ELSE [hw_contexts EXCEPT ![hw].process = p]

\* The end of add_tracepoint_stream_data(): the context belongs to the process
Correlate(pid, hw) ==
    IF pid = 0 THEN UNCHANGED <<hw_to_process, hw_contexts>>
    ELSE LET p == <<pid, process'[pid].gen>>
             owned == [hw_contexts EXCEPT ![hw].process = p]
         IN
         /\ hw_to_process' = [hw_to_process EXCEPT ![hw] = p]
         /\ hw_contexts' =
                IF hw_contexts[hw] = None \/ hw_contexts[hw].process = p THEN hw_contexts
                ELSE IF process'[pid].cmd_line THEN Renamed(owned, p, process'[pid].cmd)
                ELSE owned

\* hw_context_update_process()
hw_context_update_process(context, hw) ==
    IF context.process # None \/ hw_to_process[hw] = None THEN context
    ELSE [process |-> hw_to_process[hw], name |-> process[hw_to_process[hw][1]].cmd]

-----------------------------------------------------------------------------
(* The kernel and the server *)

Emit(tp, cpu, pid, hw, step) ==
    /\ tp_open
    /\ tp \in Correlating \/ pid = 0     \* of the others no field is read
    /\ written < MaxSamples
    /\ now' = IF written = 0 THEN 0 ELSE now + step
    /\ written' = written + 1
    /\ queue' = [queue EXCEPT ![<<tp, cpu>>] =
                    Append(@, [n |-> written, time |-> now', tp |-> tp, pid |-> pid, hw |-> hw])]
    /\ UNCHANGED <<window, openVars, listVars, tableVars, hw_contexts, history>>

\* A process' cmd_line can be empty; the server knows nothing of a process
\* that is gone.
handle_get_process_info(pid, answer) ==
    /\ asked[pid] > 0
    /\ asked' = [asked EXCEPT ![pid] = @ - 1]
    /\ IF answer = "error"
       THEN /\ nameless' = nameless \cup {pid}
            /\ UNCHANGED <<process, hw_contexts>>
       ELSE /\ UNCHANGED nameless
            /\ IF process[pid] = None THEN UNCHANGED <<process, hw_contexts>>
               ELSE /\ process' = [process EXCEPT ![pid].cmd = pid,
                                                  ![pid].cmd_line = (answer = "cmd_line")]
                    /\ hw_contexts' = Renamed(hw_contexts, Pointer(pid), pid)
    /\ UNCHANGED <<window, openVars, queue, listVars, hw_to_process, now, written, history>>

-----------------------------------------------------------------------------
(* The client *)

\* (history) The sample s named an owner for its context
Learn(s) ==
    IF s.pid = 0 THEN UNCHANGED history
    ELSE IF newest[s.hw] # None /\ newest[s.hw].time > s.time
    THEN /\ unordered' = unordered \cup {s.hw}
         /\ UNCHANGED newest
    ELSE /\ newest' = [newest EXCEPT ![s.hw] = [time |-> s.time, pid |-> s.pid]]
         /\ UNCHANGED unordered

\* The sample goes into both lists; those that leave the global one leave the
\* tracepoint's.
Reunify(s) ==
    /\ data' = Trim(Insert(data, s))
    /\ tp_data' = [tp \in Tracepoints |->
         Those(IF tp = s.tp THEN Insert(tp_data[tp], s) ELSE tp_data[tp], Range(data'))]

\* What a sample of the tracepoint with these fields tells: the process, and
\* whose the context is if the tracepoint names one
Attribute(tp, pid, hw) ==
    /\ get_process_info(pid)
    /\ IF tp \in Identifying THEN Correlate(pid, hw)
       ELSE UNCHANGED <<hw_to_process, hw_contexts>>

\* handle_perf_data() and add_tracepoint_stream_data(), for one sample.  One
\* that is older than the window is freed before its fields are read: they
\* can be anything by then.
add_tracepoint_stream_data(stream) ==
    /\ queue[stream] # <<>>
    /\ queue' = [queue EXCEPT ![stream] = Tail(@)]
    /\ LET s == queue[stream][1] IN
       /\ Reunify(s)
       /\ IF s.tp \notin Correlating
          THEN UNCHANGED <<tableVars, hw_contexts, history>>
          ELSE IF \E i \in DOMAIN data' : data'[i].n = s.n
          THEN /\ Attribute(s.tp, s.pid, s.hw)
               /\ IF s.tp \in Identifying THEN Learn(s) ELSE UNCHANGED history
          ELSE \E pid \in Pids \cup {0}, hw \in HwIds :
               /\ Attribute(s.tp, pid, hw)
               /\ unordered' = HwIds
               /\ UNCHANGED newest
    /\ UNCHANGED <<window, openVars, now, written>>

\* A report names a context: get_hw_context().
get_hw_context(hw) ==
    /\ oa_open
    /\ hw_contexts' = [hw_contexts EXCEPT ![hw] =
            hw_context_update_process(IF @ = None THEN [process |-> None, name |-> Unknown] ELSE @,
                                      hw)]
    /\ hw_contexts' # hw_contexts
    /\ UNCHANGED <<window, openVars, queue, listVars, tableVars, now, written, history>>

\* The last sample of a context leaves the timeline.
put_hw_context(hw) ==
    /\ oa_open
    /\ hw_contexts[hw] # None
    /\ hw_contexts' = [hw_contexts EXCEPT ![hw] = None]
    /\ UNCHANGED <<window, openVars, queue, listVars, tableVars, now, written, history>>

\* (mutant) The closed streams stay in the table
Discard_none == UNCHANGED queue

\* Closing streams: what is on its way is for a stream id nobody knows.
Discard == queue' = [s \in Streams |-> <<>>]

stop_sampling ==
    /\ is_sampling /\ metric_set
    /\ is_sampling' = FALSE /\ tp_open' = FALSE /\ oa_open' = FALSE
    /\ Discard
    /\ UNCHANGED <<window, metric_set, connected, gen, listVars, tableVars, hw_contexts, now,
                   written, history>>

\* Both tables are emptied, the processes freed.
ClearTables ==
    /\ process' = [p \in Pids |-> None]
    /\ hw_to_process' = [hw \in HwIds |-> None]
    /\ newest' = [hw \in HwIds |-> None]
    /\ unordered' = {}

\* clear_perf_tracepoints_data()
clear_perf_tracepoints_data ==
    /\ data' = <<>>
    /\ tp_data' = [tp \in Tracepoints |-> <<>>]

\* (mutant) The samples of the contexts are emptied with the first start only
i915_perf_empty_samples_once ==
    hw_contexts' = IF gen = 0 THEN [hw \in HwIds |-> None] ELSE hw_contexts

\* i915_perf_empty_samples(): no sample is left, and so no context
i915_perf_empty_samples == hw_contexts' = [hw \in HwIds |-> None]

\* The streams that are open are closed; opening the OA stream, which needs a
\* metric set, empties the samples.  Without a connection the server is not
\* told to open them, and they bring nothing.
gputop_client_context_start_sampling ==
    /\ gen < MaxStarts
    /\ gen' = gen + 1
    /\ Discard
    /\ ClearTables
    /\ i915_perf_empty_samples
    /\ clear_perf_tracepoints_data
    /\ oa_open' = connected
    /\ tp_open' = connected
    /\ is_sampling' = TRUE
    /\ UNCHANGED <<window, connected, asked, nameless, now, written>>

\* The button: it does nothing without a metric set.
start_sampling ==
    /\ metric_set /\ ~is_sampling
    /\ gputop_client_context_start_sampling
    /\ UNCHANGED metric_set

\* A new connection, on which nothing is asked yet
reset ==
    /\ gen < MaxStarts
    /\ gen' = gen + 1
    /\ Discard
    /\ ClearTables
    /\ i915_perf_empty_samples
    /\ clear_perf_tracepoints_data
    /\ metric_set' = FALSE
    /\ oa_open' = FALSE
    /\ tp_open' = FALSE
    /\ connected' = TRUE
    /\ asked' = [p \in Pids |-> 0]
    /\ nameless' = {}
    /\ UNCHANGED <<window, is_sampling, now, written>>

\* on_connection_closed(), of this connection or of an older one, or the close
\* that reconnect() queues
connection_closed ==
    /\ connected
    /\ connected' = FALSE
    /\ UNCHANGED <<window, metric_set, is_sampling, tp_open, oa_open, gen, queue, listVars,
                   tableVars, hw_contexts, now, written, history>>

\* The user selects a metric set: sampling restarts if it is on, which it also
\* is after a reset.
select_metric_set ==
    /\ metric_set' = TRUE
    /\ IF is_sampling THEN gputop_client_context_start_sampling
       ELSE UNCHANGED <<window, is_sampling, tp_open, oa_open, connected, gen, queue, listVars,
                        tableVars, hw_contexts, now, written, history>>

\* The slider of the visible timeline
set_window(w) ==
    /\ w # window
    /\ window' = w
    /\ UNCHANGED <<openVars, queue, listVars, tableVars, hw_contexts, now, written, history>>

\* After the first reset
Init ==
    /\ connected = TRUE
    /\ window \in Windows
    /\ metric_set = FALSE /\ is_sampling = FALSE /\ tp_open = FALSE /\ oa_open = FALSE
    /\ queue = [s \in Streams |-> <<>>]
    /\ data = <<>> /\ tp_data = [tp \in Tracepoints |-> <<>>]
    /\ process = [p \in Pids |-> None]
    /\ hw_to_process = [hw \in HwIds |-> None]
    /\ hw_contexts = [hw \in HwIds |-> None]
    /\ asked = [p \in Pids |-> 0]
    /\ nameless = {}
    /\ gen = 0 /\ now = 0 /\ written = 0
    /\ newest = [hw \in HwIds |-> None]
    /\ unordered = {}

Next ==
    \/ \E tp \in Tracepoints, cpu \in Cpus, pid \in Pids \cup {0}, hw \in HwIds, d \in Steps :
          Emit(tp, cpu, pid, hw, d)
    \/ \E pid \in Pids, answer \in {"cmd_line", "empty", "error"} :
          handle_get_process_info(pid, answer)
    \/ \E s \in Streams : add_tracepoint_stream_data(s)
    \/ \E hw \in HwIds : get_hw_context(hw) \/ put_hw_context(hw)
    \/ stop_sampling
    \/ start_sampling
    \/ reset
    \/ connection_closed
    \/ select_metric_set
    \/ \E w \in Windows : set_window(w)

Spec == Init /\ [][Next]_vars

-----------------------------------------------------------------------------
(* Properties *)

Samples == [n : 0..MaxSamples - 1, time : Nat, tp : Tracepoints, pid : Pids \cup {0}, hw : HwIds]

\* Type invariant: streams, lists and tables hold samples, processes and
\* contexts; samples are on their way only while the streams are open.
TypeOK ==
    /\ window \in Windows
    /\ {metric_set, is_sampling, tp_open, oa_open, connected} \subseteq BOOLEAN
    /\ DOMAIN queue = Streams /\ \A s \in Streams : queue[s] \in Seq(Samples)
    /\ (\E s \in Streams : queue[s] # <<>>) => tp_open
    /\ data \in Seq(Samples)
    /\ DOMAIN tp_data = Tracepoints /\ \A tp \in Tracepoints : tp_data[tp] \in Seq(Samples)
    /\ process \in [Pids -> Processes \cup {None}]
    /\ \A p \in Pids : process[p] = None \/ process[p].cmd \in {Unknown, p}
    /\ hw_to_process \in [HwIds -> Pointers \cup {None}]
    /\ hw_contexts \in [HwIds -> Contexts \cup {None}]
    /\ asked \in [Pids -> Nat]
    /\ nameless \subseteq Pids /\ unordered \subseteq HwIds
    /\ gen \in 0..MaxStarts /\ written \in 0..MaxSamples /\ now \in Nat

\* However the streams interleave, the global list is sorted by time and a
\* tracepoint's list is exactly its samples of the global list, in the same
\* order (add_tracepoint_stream_data(), lines 465 to 500: "Reunify the per cpu
\* data into one global stream of tracepoints sorted by time"; two walks, and
\* a removal that is made once and takes a sample off both lists).
Reunified ==
    /\ \A i \in 1..Len(data) - 1 : data[i].time <= data[i + 1].time
    /\ \A tp \in Tracepoints : tp_data[tp] = Those(data, {s \in Range(data) : s.tp = tp})

\* No pointer to a process outlives it: neither a context's nor the table's.
\* start_sampling() frees the processes while contexts still point to them
\* and relies on opening the OA stream to free the contexts, which it does
\* with a metric set only; reset() empties the contexts first.
ProcessesLive ==
    \A hw \in HwIds :
        LET live(p) == p = None \/ (process[p[1]] # None /\ process[p[1]].gen = p[2]) IN
        /\ live(hw_to_process[hw])
        /\ hw_contexts[hw] # None => live(hw_contexts[hw].process)

\* A context whose process has answered shows that process' name, whichever
\* came first: the report that made the context, the sample that named its
\* process or the answer.  (A process whose cmd_line is empty may leave the
\* name of the context's former process.)
NamesFollow ==
    \A hw \in HwIds :
        (hw_contexts[hw] # None /\ hw_contexts[hw].process # None) =>
            LET pid == hw_contexts[hw].process[1] IN
            process[pid].cmd_line => hw_contexts[hw].name = pid

\* The table and the context agree on a context's process, and as long as the
\* samples about it arrive by time, it is the one the newest of them names.
\* (Samples of different CPUs that arrive in another order leave an older
\* owner: the code goes by arrival, not by time.)
OwnerIsNewest ==
    \A hw \in HwIds :
        /\ hw_contexts[hw] # None /\ hw_to_process[hw] # None =>
              hw_contexts[hw].process = hw_to_process[hw]
        /\ hw \notin unordered /\ newest[hw] # None =>
              /\ hw_to_process[hw] # None /\ hw_to_process[hw][1] = newest[hw].pid

\* While requests can be sent, a process without a name has been asked for in
\* this session, since its entry was made, and the answer is still to come or was
\* an error: sampling that starts again forgets the processes and asks again, and
\* an entry whose request was dropped, which no later sample asks for again, does
\* not survive the reset that brings the next connection.
ProcessesAsked ==
    connected =>
        \A pid \in Pids :
            process[pid] # None /\ process[pid].cmd = Unknown =>
                asked[pid] > 0 \/ pid \in nameless

=============================================================================
