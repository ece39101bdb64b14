------------------------------ MODULE CpuStats ------------------------------
(***************************************************************************)
(* The sample buffer of a CPU statistics stream: log_cpu_stats_cb() of     *)
(* server/gputop-perf.c fills it from a timer with the client's sample     *)
(* period, flush_cpu_stats() of server/gputop-server.c empties it from     *)
(* update_cb(), at least every 200ms.  The two callbacks run in any order. *)
(*                                                                         *)
(* An entry is the struct cpu_stat of one CPU; here it holds the number of *)
(* the sample it was read for, 0 if it was never written: the buffer is    *)
(* allocated with stats_buf_len * n_cpus entries and not cleared.  The     *)
(* callbacks take it for stats_buf_len entries, of which n_cpus make one   *)
(* sample, and stats_buf_len is no multiple of n_cpus in general.          *)
(***************************************************************************)
EXTENDS Integers, FiniteSetsExt, Sequences

CONSTANTS
    CpuCounts,  \* values of gputop_cpu_count(), the machines
    Periods,    \* values of sample_period_ms of the open request
    Overwrites, \* values of overwrite of the open request
    Absent,     \* the sets of CPUs that a reading of /proc/stat may not give
    MaxSamples  \* bound: samples taken

ASSUME CpuAssumption ==
    /\ CpuCounts \subseteq Nat \ {0}
    /\ Periods \subseteq Nat \ {0}
    /\ Overwrites \subseteq BOOLEAN
    /\ Absent \subseteq SUBSET Nat
    /\ MaxSamples \in Nat

VARIABLES
    n_cpus,
    overwrite,
    stats_buf,      \* the entries
    stats_buf_len,
    stats_buf_pos,
    stats_buf_full,
    samples,        \* (history) how often the timer fired
    incomplete,     \* (history) samples that not every CPU was read for
    last            \* (history) the last flush: what it sent, the timer ticks
                    \* it had to send

openVars == <<n_cpus, overwrite, stats_buf_len>>
vars == <<openVars, stats_buf, stats_buf_pos, stats_buf_full, samples, incomplete,
          last>>

\* gputop_perf_open_cpu_stats()
Init ==
    /\ n_cpus \in CpuCounts
    /\ overwrite \in Overwrites
    /\ \E sample_period_ms \in Periods :
          stats_buf_len = Max({10, 1000 \div sample_period_ms})
    /\ stats_buf = [i \in 0..stats_buf_len * n_cpus - 1 |-> 0]
    /\ stats_buf_pos = 0
    /\ stats_buf_full = FALSE
    /\ samples = 0
    /\ incomplete = {}
    /\ last = [sets |-> <<>>, from |-> 0, to |-> 0]

\* gputop_cpu_read_stats() into the entries from pos on.  That it may fail, or
\* not find every CPU, is ignored by the caller.
gputop_cpu_read_stats(pos) ==
    \E absent \in Absent :
       LET cpus == 0..n_cpus - 1 \ absent IN
       /\ stats_buf' = [i \in DOMAIN stats_buf |->
                          IF i - pos \in cpus
                          THEN samples + 1 ELSE stats_buf[i]]
       /\ incomplete' = IF cpus = 0..n_cpus - 1 THEN incomplete
                        ELSE incomplete \cup {samples + 1}

\* log_cpu_stats_cb(): the sample is stored if there is room, and a full buffer
\* starts again from 0 if it may be overwritten.
log_cpu_stats_cb ==
    /\ samples < MaxSamples
    /\ samples' = samples + 1
    /\ LET room == stats_buf_pos < stats_buf_len
           pos == IF room THEN stats_buf_pos + n_cpus ELSE stats_buf_pos
           full == pos >= stats_buf_len
       IN /\ IF room THEN gputop_cpu_read_stats(stats_buf_pos)
             ELSE UNCHANGED <<stats_buf, incomplete>>
          /\ stats_buf_full' = (stats_buf_full \/ full)
          /\ stats_buf_pos' = IF full /\ overwrite THEN 0 ELSE pos
    /\ UNCHANGED <<openVars, last>>

\* An entry; what is behind the allocated ones was never written either.
Entry(i) == IF i \in DOMAIN stats_buf THEN stats_buf[i] ELSE 0

\* The sets of n_cpus entries that start at pos, at the next position, ...: pos
\* goes back to 0 when it reaches stats_buf_len.
SetsFrom(pos, n) ==
    LET start[k \in 1..n] ==
          IF k = 1 THEN pos
          ELSE LET next == start[k - 1] + n_cpus
               IN  IF next >= stats_buf_len THEN 0 ELSE next
    IN  [k \in 1..n |->
           {Entry(start[k] + i) : i \in 0..n_cpus - 1}]

\* What a flush leaves behind.
flush_done(sets) ==
    /\ last' = [sets |-> sets, from |-> last.to, to |-> samples]
    /\ stats_buf_pos' = 0
    /\ stats_buf_full' = FALSE
    /\ UNCHANGED <<openVars, stats_buf, samples, incomplete>>

\* Mutation: a full buffer is sent from its start.
flush_cpu_stats_from_start ==
    /\ stats_buf_pos # 0 \/ stats_buf_full
    /\ flush_done(IF stats_buf_full
                  THEN SetsFrom(0, stats_buf_len \div n_cpus)
                  ELSE SetsFrom(0, stats_buf_pos \div n_cpus))

\* flush_cpu_stats(): one message per set of n_cpus entries, the oldest first.
flush_cpu_stats ==
    /\ stats_buf_pos # 0 \/ stats_buf_full
    /\ flush_done(IF stats_buf_full
                  THEN SetsFrom(stats_buf_pos, stats_buf_len \div n_cpus)
                  ELSE SetsFrom(0, stats_buf_pos \div n_cpus))

Next == log_cpu_stats_cb \/ flush_cpu_stats

Spec == Init /\ [][Next]_vars

-----------------------------------------------------------------------------
(***************************************************************************)
(* Properties.                                                             *)
(***************************************************************************)

\* Every variable has its type.
TypeOK ==
    /\ n_cpus \in CpuCounts /\ overwrite \in BOOLEAN
    /\ stats_buf_len \in Nat
    /\ stats_buf \in [0..stats_buf_len * n_cpus - 1 -> 0..MaxSamples]
    /\ stats_buf_pos \in 0..stats_buf_len + n_cpus - 1
    /\ stats_buf_full \in BOOLEAN
    /\ samples \in 0..MaxSamples
    /\ incomplete \subseteq 1..samples
    /\ last.from \in 0..last.to /\ last.to \in 0..samples

\* The samples that the buffer takes, one more than a flush of the full buffer
\* sends if stats_buf_len is no multiple of n_cpus.
Capacity == (stats_buf_len + n_cpus - 1) \div n_cpus

\* The k-th set sent is of sample m, as far as m could be read.
Sent(k, m) == m \in incomplete \/ last.sets[k] = {m}

\* What a flush sends of the samples taken since the previous one, each as one
\* whole set.  If they do not fill the buffer: all, the oldest first.  If they do
\* and may be overwritten: the newest that the buffer holds, but the very last
\* only if stats_buf_len is a multiple of n_cpus.  If they do and may not be
\* overwritten (how clients open the stream): one set that was never sampled,
\* then the oldest ones, and never the last that was stored; nothing at all if
\* there are more CPUs than stats_buf_len.
FlushSendsNewest ==
    LET taken == last.to - last.from
        filled == taken >= Capacity
        n == Len(last.sets)
    IN  /\ n = IF filled THEN stats_buf_len \div n_cpus ELSE taken
        /\ ~filled => \A k \in 1..n : Sent(k, last.from + k)
        /\ filled /\ overwrite => \A k \in 1..n : Sent(k, last.to - Capacity + k)
        /\ filled /\ ~overwrite =>
              /\ n > 0 => last.sets[1] = {0}
              /\ \A k \in 2..n : Sent(k, last.from + k - 1)
=============================================================================
