----------------------------- MODULE OaTimeline -----------------------------
(***************************************************************************)
(* What the client makes of the OA reports it receives: lib/gputop-client- *)
(* context.c, i915_perf_accumulate() and what it calls, with the           *)
(* accumulators of lib/gputop-oa-counters.c.                               *)
(*                                                                         *)
(* Reports arrive in chunks.  Two successive reports bound an interval, in *)
(* which the context named by the first one ran.  Intervals are            *)
(* accumulated three times: in samples of the timeline (one context each), *)
(* in graphs of a fixed period (all contexts) and in graphs per context.   *)
(* Samples point into chunks, which are reference counted; a context lives *)
(* as long as a sample of the timeline belongs to it.                      *)
(*                                                                         *)
(* i915_perf_accumulate() runs to its end before anything else happens;    *)
(* pc says which block of its body is next for the report in hand.         *)
(* Counters other than the timestamp are accumulated alike and left out,   *)
(* and so are the begin and end of graphs, which are only displayed.       *)
(***************************************************************************)
EXTENDS Integers, Sequences, FiniteSets, SequencesExt

CONSTANTS
    HwIds,        \* ids of hardware contexts
    INVALID,      \* GPUTOP_OA_INVALID_CTX_ID: no context runs
    None,         \* NULL
    NChunks,      \* bound: chunks that can be in memory
    Period,       \* oa_aggregation_period_ns
    Window,       \* oa_visible_timeline_s, in the unit of Period
    U32,          \* 2^32: the report's timestamp wraps
    U64,          \* 2^64
    Steps,        \* bound: time that passes from one report to the next
    MaxReports    \* bound: reports the hardware writes

Chunks == 1..NChunks

\* A sample (struct gputop_accumulated_samples), a report, a context.
Samples == [hw : HwIds \cup {INVALID}, start : Chunks \cup {None}, end : Chunks \cup {None},
            timestamp_start : Int, timestamp_end : Int,
            began : Int, u32 : Int, clock : Int, first : Int, elapsed : Int, delta : Int,
            ran : SUBSET (HwIds \cup {INVALID}),   \* (history) the contexts of its intervals
            zero : BOOLEAN]                        \* (history) an interval was left out

Reports == [ts : Int, hw : HwIds \cup {INVALID}, at : Int, chunk : Chunks \cup {None}]

Contexts == [n_samples : Nat \ {0}, graphs : Seq(Samples),
             current_graph_samples : Samples \cup {None}]

ASSUME OaAssumption ==
    /\ IsFiniteSet(HwIds) /\ INVALID \notin HwIds
    /\ None \notin HwIds \cup Nat \cup {INVALID}
    /\ None \notin Samples \cup Reports \cup Contexts
    /\ NChunks \in Nat
    /\ {Period, Window, U32, U64} \subseteq Nat \ {0}
    /\ Steps \subseteq 1..U32 - 1
    /\ MaxReports \in Nat

VARIABLES
    is_sampling,   \* the OA stream is open
    cpu_timestamps, \* i915_perf_config.cpu_timestamps
    refcount,      \* per chunk; 0: freed
    chunk,         \* the chunk being read, or None
    pc,            \* the next block of i915_perf_accumulate()
    report,        \* the report being read
    context,       \* the context it is accumulated for, a local variable
    last,          \* last_header, last_hw_id and last_chunk, or None
    last_oa_timestamp,
    hw_contexts,   \* per id: the context, or None
    time_spent,    \* per id: the context's time_spent, 0 without one
    timelines, current_timeline_samples,
    graphs, current_graph_samples,
    now,           \* the hardware's time
    reports,       \* (history) reports written
    zeros,         \* (history) reports with a timestamp of zero
    measured,      \* (history) length of the intervals to be accumulated
    given_up       \* (history) of those, the part in graphs removed as excess

sampleVars == <<timelines, current_timeline_samples, graphs, current_graph_samples>>
hardware == <<now, reports, zeros>>
lastVars == <<last, last_oa_timestamp>>
contextVars == <<hw_contexts, time_spent>>
history == <<measured, given_up>>
vars == <<is_sampling, cpu_timestamps, refcount, chunk, pc, report, context, lastVars,
          contextVars, sampleVars, hardware, history>>

-----------------------------------------------------------------------------
(* Accumulators: gputop-oa-counters.c.                                     *)

\* Differences of unsigned integers.
Minus32(a, b) == (a - b) % U32
Minus64(a, b) == (a - b) % U64

Sample(start, hw, t) ==
    [hw |-> hw, start |-> start.chunk, end |-> None,
     timestamp_start |-> t, timestamp_end |-> 0,
     began |-> start.ts, u32 |-> start.ts, clock |-> start.ts, first |-> start.ts, elapsed |-> 0,
     delta |-> 0, ran |-> {}, zero |-> FALSE]

\* Whether an interval is accumulated: a timestamp of zero is not believed.
Believed(r0, r1) == r0.ts # 0 /\ r1.ts # 0

\* Mutant: the counters are accumulated since the accumulator's last report.
accumulate_since_last(s, r0, r1) ==
    IF Believed(r0, r1)
    THEN [s EXCEPT !.clock = @ + Minus32(r1.ts, s.u32),
                   !.u32 = r1.ts,
                   !.elapsed = s.clock + Minus32(r1.ts, s.u32) - s.first,
                   !.delta = @ + Minus32(r1.ts, s.u32),
                   !.ran = @ \cup {r0.hw}]
    ELSE [s EXCEPT !.zero = TRUE]

gputop_cc_oa_accumulate_reports(s, r0, r1) ==
    LET first == IF s.first = 0 THEN s.clock ELSE s.first
        clock == s.clock + Minus32(r1.ts, s.u32)
    IN IF Believed(r0, r1)
       THEN [s EXCEPT !.first = first,
                      !.clock = clock,
                      !.u32 = r1.ts,
                      !.elapsed = clock - first,
                      !.delta = @ + Minus32(r1.ts, r0.ts),
                      !.ran = @ \cup {r0.hw}]
       ELSE [s EXCEPT !.zero = TRUE]

i915_perf_timestamp(r) ==
    IF cpu_timestamps THEN r.at
    ELSE IF last = None THEN last_oa_timestamp
    ELSE (last_oa_timestamp + (r.ts - last.ts)) % U64

-----------------------------------------------------------------------------
(* Reference counts.                                                       *)

\* The references that samples hold on a chunk.
References(samples, c) ==
    Cardinality({i \in DOMAIN samples : samples[i].start = c})
      + Cardinality({i \in DOMAIN samples : samples[i].end = c})

\* put_accumulated_sample(), for the chunks of several samples.
put_chunks(refs, samples) ==
    [c \in Chunks |-> refs[c] - References(samples, c)]

Optional(s) == IF s = None THEN <<>> ELSE <<s>>

\* The samples a context holds: its graphs and the current one.
ContextSamples(c) == c.graphs \o Optional(c.current_graph_samples)

\* How many of the samples belong to a context.
Owned(samples, hw) == Cardinality({i \in DOMAIN samples : samples[i].hw = hw})

\* put_hw_context() for each of the samples: the contexts that are freed.
Freed(samples) ==
    {hw \in HwIds : /\ hw_contexts[hw] # None
                    /\ Owned(samples, hw) > 0
                    /\ hw_contexts[hw].n_samples = Owned(samples, hw)}

\* put_accumulated_sample() for several samples: the chunks, with those of the
\* contexts that are freed.
put_samples(refs, samples) ==
    [c \in Chunks |-> refs[c] - References(samples, c)
        - SumFunction([hw \in Freed(samples) |->
                         References(ContextSamples(hw_contexts[hw]), c)])]

NoTime == [hw \in HwIds |-> 0]

\* put_hw_context(): the contexts that remain.
put_hw_contexts(samples) ==
    [hw \in HwIds |->
        IF hw_contexts[hw] = None \/ hw \in Freed(samples) THEN None
        ELSE [hw_contexts[hw] EXCEPT !.n_samples = @ - Owned(samples, hw)]]

\* hw_context_add_time() for them.
hw_contexts_add_time(samples, time) ==
    [hw \in HwIds |->
        IF hw_contexts[hw] = None \/ hw \in Freed(samples) THEN 0
        ELSE (time_spent[hw] + time[hw]) % U64]

-----------------------------------------------------------------------------
NoReport == [ts |-> 0, hw |-> INVALID, at |-> 0, chunk |-> None]

Init ==
    /\ is_sampling = FALSE
    /\ cpu_timestamps \in BOOLEAN
    /\ refcount = [c \in Chunks |-> 0]
    /\ chunk = None
    /\ pc = "idle"
    /\ report = NoReport
    /\ context = INVALID
    /\ last = None
    /\ last_oa_timestamp = Window
    /\ hw_contexts = [hw \in HwIds |-> None]
    /\ time_spent = NoTime
    /\ timelines = <<>>
    /\ current_timeline_samples = None
    /\ graphs = <<>>
    /\ current_graph_samples = None
    /\ now = 0
    /\ reports = 0
    /\ zeros = 0
    /\ measured = 0
    /\ given_up = 0

\* i915_perf_empty_samples(), by open_i915_perf_stream() and by a reset: the
\* samples of the timeline first, with the contexts they keep alive, then the
\* graphs and the last chunk.  A sampling that goes on is stopped first.
i915_perf_empty_samples(samples, rest) ==
    LET refs == put_chunks(put_samples(refcount, samples), rest)
    IN /\ refcount' = IF last = None THEN refs ELSE [refs EXCEPT ![last.chunk] = @ - 1]
       /\ hw_contexts' = put_hw_contexts(samples)
       /\ time_spent' = hw_contexts_add_time(samples, NoTime)
       /\ timelines' = <<>>
       /\ current_timeline_samples' = None
       /\ graphs' = <<>>
       /\ current_graph_samples' = None
       /\ last' = None
       /\ last_oa_timestamp' = Window

gputop_client_context_start_sampling ==
    /\ pc = "idle"
    /\ i915_perf_empty_samples(timelines \o Optional(current_timeline_samples),
                               graphs \o Optional(current_graph_samples))
    /\ is_sampling' = TRUE
    /\ measured' = 0
    /\ given_up' = 0
    /\ UNCHANGED <<cpu_timestamps, chunk, pc, report, context, hardware>>

\* The samples stay, to be looked at.
gputop_client_context_stop_sampling ==
    /\ pc = "idle"
    /\ is_sampling
    /\ is_sampling' = FALSE
    /\ UNCHANGED <<cpu_timestamps, refcount, chunk, pc, report, context, lastVars,
                   contextVars, sampleVars, hardware, history>>

\* Data of a stream that is not the open one is discarded.
handle_i915_perf_data ==
    /\ pc = "idle"
    /\ is_sampling
    /\ reports < MaxReports
    /\ \E c \in Chunks :
        /\ refcount[c] = 0
        /\ \A d \in 1..c - 1 : refcount[d] # 0
        /\ refcount' = [refcount EXCEPT ![c] = 1]
        /\ chunk' = c
    /\ pc' = "next"
    /\ UNCHANGED <<is_sampling, cpu_timestamps, report, context, lastVars,
                   contextVars, sampleVars, hardware, history>>

-----------------------------------------------------------------------------
(* i915_perf_accumulate(): the records of a chunk.                         *)

\* DRM_I915_PERF_RECORD_SAMPLE.  The hardware wrote it when it was sampled or
\* when the context changed.
record_sample ==
    /\ pc = "next"
    /\ reports < MaxReports
    /\ \E step \in Steps, hw \in HwIds \cup {INVALID} :
        /\ report' = [ts |-> (now + step) % U32, hw |-> hw, at |-> now + step,
                      chunk |-> chunk]
        /\ now' = now + step
        /\ zeros' = zeros + (IF report'.ts = 0 THEN 1 ELSE 0)
    /\ reports' = reports + 1
    /\ pc' = "graph"
    /\ UNCHANGED <<is_sampling, cpu_timestamps, refcount, chunk, context, lastVars,
                   contextVars, sampleVars, history>>

\* DRM_I915_PERF_RECORD_OA_BUFFER_LOST stops the sampling.
record_buffer_lost ==
    /\ pc = "next"
    /\ is_sampling' = FALSE
    /\ pc' = "put"
    /\ UNCHANGED <<cpu_timestamps, refcount, chunk, report, context, lastVars,
                   contextVars, sampleVars, hardware, history>>

\* The end of the chunk, or a record of an unknown type.
chunk_done ==
    /\ pc = "next"
    /\ pc' = "put"
    /\ UNCHANGED <<is_sampling, cpu_timestamps, refcount, chunk, report, context, lastVars,
                   contextVars, sampleVars, hardware, history>>

\* The end of handle_i915_perf_data().
put_i915_perf_chunk ==
    /\ pc = "put"
    /\ refcount' = [refcount EXCEPT ![chunk] = @ - 1]
    /\ chunk' = None
    /\ pc' = "idle"
    /\ UNCHANGED <<is_sampling, cpu_timestamps, report, context, lastVars,
                   contextVars, sampleVars, hardware, history>>

\* A new graph begins, for all contexts and for each.
begin_graph ==
    /\ pc = "graph"
    /\ pc' = "timeline"
    /\ LET begin == Sample(report, INVALID, 0)
           known == {hw \in HwIds : hw_contexts[hw] # None}
       IN IF current_graph_samples = None
          THEN /\ current_graph_samples' = begin
               /\ hw_contexts' = [hw \in HwIds |->
                    IF hw \in known
                    THEN [hw_contexts[hw] EXCEPT !.current_graph_samples = begin]
                    ELSE None]
               /\ refcount' = [refcount EXCEPT ![chunk] = @ + 1 + Cardinality(known)]
          ELSE UNCHANGED <<current_graph_samples, hw_contexts, refcount>>
    /\ UNCHANGED <<is_sampling, cpu_timestamps, chunk, report, context, lastVars,
                   time_spent, timelines, current_timeline_samples, graphs, hardware,
                   history>>

\* Mutant: a known context is not counted again.
get_hw_context_uncounted(hw) ==
    IF hw_contexts[hw] # None THEN hw_contexts[hw]
    ELSE [n_samples |-> 1, graphs |-> <<>>,
          current_graph_samples |->
            Sample([chunk |-> current_graph_samples.start,
                    ts |-> current_graph_samples.began], INVALID, 0)]

\* get_hw_context(): the context gets another sample of the timeline; a new one
\* joins the graph that is in progress.
get_hw_context(hw) ==
    IF hw_contexts[hw] # None
    THEN [hw_contexts[hw] EXCEPT !.n_samples = @ + 1]
    ELSE [n_samples |-> 1, graphs |-> <<>>,
          current_graph_samples |->
            Sample([chunk |-> current_graph_samples.start,
                    ts |-> current_graph_samples.began], INVALID, 0)]

\* A sample of the timeline begins with the last report.
begin_timeline ==
    /\ pc = "timeline"
    /\ pc' = IF last = None THEN "finish" ELSE "accumulate"
    /\ IF last # None /\ last.hw # INVALID /\ current_timeline_samples = None
       THEN /\ current_timeline_samples' = Sample(last, last.hw, i915_perf_timestamp(last))
            /\ hw_contexts' = [hw_contexts EXCEPT ![last.hw] = get_hw_context(last.hw)]
            /\ refcount' =
                 IF hw_contexts[last.hw] # None
                 THEN [refcount EXCEPT ![last.chunk] = @ + 1]
                 ELSE [c \in Chunks |-> refcount[c]
                        + (IF c = last.chunk THEN 1 ELSE 0)
                        + (IF c = current_graph_samples.start THEN 1 ELSE 0)]
       ELSE UNCHANGED <<current_timeline_samples, hw_contexts, refcount>>
    /\ UNCHANGED <<is_sampling, cpu_timestamps, chunk, report, context, lastVars,
                   time_spent, timelines, graphs, current_graph_samples, hardware,
                   history>>

Duration(s) == Minus64(s.timestamp_end, s.timestamp_start)

TimeOf(samples, hw) ==
    SumFunction([i \in DOMAIN samples |->
                   IF samples[i].hw = hw THEN Duration(samples[i]) ELSE 0])

\* Mutant: one sample at most is removed.
Excess_if(t) ==
    IF Len(timelines) > 0 /\ Minus64(t, timelines[1].timestamp_start) > Window
    THEN 1 ELSE 0

\* The samples at the front of the timeline that left the window.
Excess(t) ==
    LET Old(i) == Minus64(t, timelines[i].timestamp_start) > Window
    IN CHOOSE n \in 0..Len(timelines) :
        /\ \A i \in 1..n : Old(i)
        /\ n < Len(timelines) => ~Old(n + 1)

\* Mutant: the sample is added before the excess is removed.
record_for_hw_id_adds_first(s) ==
    LET t == i915_perf_timestamp(report)
        samples == Append(timelines, [s EXCEPT !.end = chunk, !.timestamp_end = t])
        n == IF Excess(t) = Len(timelines) /\ Minus64(t, s.timestamp_start) > Window
             THEN Len(samples) ELSE Excess(t)
        excess == SubSeq(samples, 1, n)
    IN /\ timelines' = SubSeq(samples, n + 1, Len(samples))
       /\ current_timeline_samples' = None
       /\ refcount' = put_samples([refcount EXCEPT ![chunk] = @ + 1], excess)
       /\ hw_contexts' = put_hw_contexts(excess)
       /\ time_spent' = hw_contexts_add_time(excess, NoTime)

\* Mutant: the time of the excess is not taken back.
record_for_hw_id_keeps_time(s) ==
    LET t == i915_perf_timestamp(report)
        samples == [s EXCEPT !.end = chunk, !.timestamp_end = t]
        excess == SubSeq(timelines, 1, Excess(t))
    IN /\ timelines' = Append(SubSeq(timelines, Excess(t) + 1, Len(timelines)), samples)
       /\ current_timeline_samples' = None
       /\ refcount' = put_samples([refcount EXCEPT ![chunk] = @ + 1], excess)
       /\ hw_contexts' = put_hw_contexts(excess)
       /\ time_spent' = hw_contexts_add_time(excess,
            [hw \in HwIds |-> TimeOf(<<samples>>, hw)])

i915_perf_record_for_hw_id(s) ==
    LET t == i915_perf_timestamp(report)
        samples == [s EXCEPT !.end = chunk, !.timestamp_end = t]
        excess == SubSeq(timelines, 1, Excess(t))
    IN /\ timelines' = Append(SubSeq(timelines, Excess(t) + 1, Len(timelines)), samples)
       /\ current_timeline_samples' = None
       /\ refcount' = put_samples([refcount EXCEPT ![chunk] = @ + 1], excess)
       /\ hw_contexts' = put_hw_contexts(excess)
       /\ time_spent' = hw_contexts_add_time(excess,
            [hw \in HwIds |-> TimeOf(<<samples>>, hw) - TimeOf(excess, hw)])

\* Mutant: a change of context is not looked for.
SampleEnds_late(s) == s.elapsed > Period

SampleEnds(s) == last.hw # report.hw \/ s.elapsed > Period

\* The timeline: a sample ends when the context changes or it is long enough.
accumulate_timeline ==
    /\ pc = "accumulate"
    /\ IF current_timeline_samples = None
       THEN /\ pc' = "global"
            /\ UNCHANGED <<context, timelines, current_timeline_samples, refcount,
                           contextVars>>
       ELSE LET s == gputop_cc_oa_accumulate_reports(current_timeline_samples, last, report)
            IN /\ pc' = "context"
               /\ context' = s.hw
               /\ IF Believed(last, report) /\ SampleEnds(s)
                  THEN i915_perf_record_for_hw_id(s)
                  ELSE /\ current_timeline_samples' = s
                       /\ UNCHANGED <<timelines, refcount, contextVars>>
    /\ UNCHANGED <<is_sampling, cpu_timestamps, chunk, report, lastVars, graphs,
                   current_graph_samples, hardware, history>>

\* The graph of the context that ran.
accumulate_context ==
    /\ pc = "context"
    /\ pc' = "global"
    /\ hw_contexts' = [hw_contexts EXCEPT ![context].current_graph_samples =
                          gputop_cc_oa_accumulate_reports(@, last, report)]
    /\ UNCHANGED <<is_sampling, cpu_timestamps, refcount, chunk, report, context,
                   lastVars, time_spent, sampleVars, hardware, history>>

\* Graphs beyond those of the visible time, before another one is added.
ExcessGraphs(gs) ==
    LET max_graphs == Window \div Period
    IN IF Len(gs) > max_graphs THEN Len(gs) - max_graphs ELSE 0

Kept(gs, s) == Append(SubSeq(gs, ExcessGraphs(gs) + 1, Len(gs)), [s EXCEPT !.end = chunk])

GivenUp(gs) == SubSeq(gs, 1, ExcessGraphs(gs))

hw_context_record_for_time(c) ==
    [c EXCEPT !.graphs = Kept(@, c.current_graph_samples),
              !.current_graph_samples = None]

Delta(samples) == SumFunction([i \in DOMAIN samples |-> samples[i].delta])

\* i915_perf_record_for_time() and hw_context_record_for_time() for each context.
\* accumulate_cb may stop the sampling.
i915_perf_record_for_time(g) ==
    LET known == {hw \in HwIds : hw_contexts[hw] # None}
    IN /\ graphs' = Kept(graphs, g)
       /\ current_graph_samples' = None
       /\ hw_contexts' = [hw \in HwIds |->
            IF hw \in known THEN hw_context_record_for_time(hw_contexts[hw]) ELSE None]
       /\ refcount' = [c \in Chunks |-> refcount[c]
            + (IF c = chunk THEN 1 + Cardinality(known) ELSE 0)
            - References(GivenUp(graphs), c)
            - SumFunction([hw \in known |-> References(GivenUp(hw_contexts[hw].graphs), c)])]
       /\ given_up' = given_up + Delta(GivenUp(graphs))
       /\ is_sampling' \in {is_sampling, FALSE}

\* The graph of all contexts: all graphs end when this one is long enough.
accumulate_graph ==
    /\ pc = "global"
    /\ pc' = "finish"
    /\ LET g == gputop_cc_oa_accumulate_reports(current_graph_samples, last, report)
       IN IF Believed(last, report) /\ g.elapsed > Period
          THEN i915_perf_record_for_time(g)
          ELSE /\ current_graph_samples' = g
               /\ UNCHANGED <<graphs, hw_contexts, refcount, is_sampling, given_up>>
    /\ measured' = measured + (IF Believed(last, report) THEN report.at - last.at ELSE 0)
    /\ UNCHANGED <<cpu_timestamps, chunk, report, context, lastVars, time_spent, timelines,
                   current_timeline_samples, hardware>>

\* The report becomes the last one.
finish_record ==
    /\ pc = "finish"
    /\ pc' = "next"
    /\ last_oa_timestamp' = i915_perf_timestamp(report)
    /\ last' = report
    /\ refcount' = [c \in Chunks |-> refcount[c]
            + (IF c = chunk THEN 1 ELSE 0)
            - (IF last # None /\ c = last.chunk THEN 1 ELSE 0)]
    /\ UNCHANGED <<is_sampling, cpu_timestamps, chunk, report, context, contextVars,
                   sampleVars, hardware, history>>

Next ==
    \/ gputop_client_context_start_sampling
    \/ gputop_client_context_stop_sampling
    \/ handle_i915_perf_data
    \/ record_sample
    \/ record_buffer_lost
    \/ chunk_done
    \/ put_i915_perf_chunk
    \/ begin_graph
    \/ begin_timeline
    \/ accumulate_timeline
    \/ accumulate_context
    \/ accumulate_graph
    \/ finish_record

Spec == Init /\ [][Next]_vars

-----------------------------------------------------------------------------
(* Properties.                                                             *)

TypeOK ==
    /\ is_sampling \in BOOLEAN
    /\ cpu_timestamps \in BOOLEAN
    /\ refcount \in [Chunks -> Nat]
    /\ chunk \in Chunks \cup {None}
    /\ pc \in {"idle", "next", "put", "graph", "timeline", "accumulate", "context",
               "global", "finish"}
    /\ (pc = "idle") <=> (chunk = None)
    /\ report \in Reports
    /\ context \in HwIds \cup {INVALID}
    /\ last \in Reports \cup {None}
    /\ last_oa_timestamp \in 0..U64 - 1
    /\ hw_contexts \in [HwIds -> Contexts \cup {None}]
    /\ time_spent \in [HwIds -> 0..U64 - 1]
    /\ timelines \in Seq(Samples)
    /\ current_timeline_samples \in Samples \cup {None}
    /\ graphs \in Seq(Samples)
    /\ current_graph_samples \in Samples \cup {None}
    /\ {now, reports, zeros, measured, given_up} \subseteq Nat

\* All samples of the timeline, the one in progress included.
Timeline == timelines \o Optional(current_timeline_samples)

\* The count of a context is the number of its samples in the timeline.
ContextsCounted ==
    \A hw \in HwIds :
        Owned(Timeline, hw) =
            IF hw_contexts[hw] = None THEN 0 ELSE hw_contexts[hw].n_samples

\* Every chunk is kept exactly as long as a sample, the last report or the
\* handler points into it, and every context as long as the timeline has a sample
\* of it: i915_perf_empty_samples() asserts that all chunks are gone
\* (gputop-client-context.c:1626), a reset that all contexts are (:1729).
CountsAreExact ==
    /\ \A c \in Chunks :
        refcount[c] = References(Timeline, c)
            + References(graphs \o Optional(current_graph_samples), c)
            + SumFunction([hw \in {h \in HwIds : hw_contexts[h] # None} |->
                             References(ContextSamples(hw_contexts[hw]), c)])
            + (IF last # None /\ last.chunk = c THEN 1 ELSE 0)
            + (IF chunk = c THEN 1 ELSE 0)
    /\ ContextsCounted

\* i915_perf_accumulate() finds the contexts as its blocks expect them: their
\* graphs begin and end with the graph of all contexts (assertions at
\* gputop-client-context.c:990 and :1038), whatever contexts appeared or were
\* freed meanwhile; and the context of a sample that has just been recorded is
\* there to go on with, although old samples were given up, which may free
\* contexts.
ContextsInStep ==
    /\ \A hw \in HwIds :
        hw_contexts[hw] # None =>
            ((hw_contexts[hw].current_graph_samples = None) <=> (current_graph_samples = None))
    /\ pc = "context" => hw_contexts[context] # None

\* What a sample of the timeline or a context's graph accumulates ran on its
\* context, unless a report's timestamp was not believed: the change of context
\* it announced is then missed.
Attributed ==
    /\ \A i \in DOMAIN Timeline : Timeline[i].zero \/ Timeline[i].ran \subseteq {Timeline[i].hw}
    /\ zeros = 0 => \A hw \in HwIds : hw_contexts[hw] # None =>
        \A i \in DOMAIN ContextSamples(hw_contexts[hw]) :
            ContextSamples(hw_contexts[hw])[i].ran \subseteq {hw}

\* Every interval between believable reports is in exactly one graph, with its
\* length, also when the 32 bit timestamp wraps.
IntervalsCountedOnce ==
    pc \in {"idle", "next", "put"} =>
        measured = given_up + Delta(graphs) + Delta(Optional(current_graph_samples))

\* The time a context is shown to have run is that of the samples of the timeline
\* that are shown for it.
TimeSpentIsShown ==
    \A hw \in HwIds : hw_contexts[hw] # None =>
        time_spent[hw] = TimeOf(timelines, hw) % U64

\* With the CPU's timestamps the timeline is in order and within the window, but
\* for its last sample.
TimelineInWindow ==
    cpu_timestamps => \A i, j \in DOMAIN timelines : i < j =>
        /\ timelines[i].timestamp_end <= timelines[j].timestamp_start
        /\ timelines[j].timestamp_end - timelines[i].timestamp_start <= Window
=============================================================================
