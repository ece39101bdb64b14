------------------------------ MODULE PerfRing ------------------------------
(***************************************************************************)
(* The circular buffer the kernel shares with a live perf stream, and how  *)
(* the server forwards it: perf_stream_data_pending() in                   *)
(* server/gputop-perf.c, flush_perf_stream_samples() and                   *)
(* fragmented_perf_read_cb() in server/gputop-server.c.                    *)
(*                                                                         *)
(* The kernel writes while the server reads.  It counts units in 64 bits,  *)
(* but the server keeps its head, and writes its tail, in an `unsigned     *)
(* int': counters are truncated to Word values.  A unit of the buffer      *)
(* holds its serial number, so that a unit that is lost, repeated or       *)
(* overwritten shows.                                                      *)
(***************************************************************************)
EXTENDS Integers, Sequences, FiniteSetsExt

CONSTANTS
    Size,       \* units of the buffer: a power of two
    Word,       \* values of an unsigned int: a larger power of two
    MaxRecord,  \* bound: the largest record, in units
    MaxLen,     \* bound: the largest fragment wslay asks for
    MaxHead     \* bound: units the kernel writes

ASSUME RingAssumption ==
    /\ Size \in Nat \ {0}
    /\ Word \in Nat \ {0} /\ Word % Size = 0
    /\ MaxRecord \in Nat /\ MaxLen \in Nat /\ MaxHead \in Nat

VARIABLES
    data_head,  \* mmap_page->data_head: units published
    data_tail,  \* mmap_page->data_tail: units the kernel may overwrite
    copied,     \* units of a record the kernel has copied, not yet published
    buffer,     \* the circular buffer
    pc,         \* "idle", "pending" (data was seen) or "flushing"
    head,       \* stream->perf.head
    tail,       \* stream->perf.tail
    received    \* (history) what the client was sent

kernelVars == <<data_head, copied, buffer>>
vars == <<kernelVars, data_tail, pc, head, tail, received>>

\* Units between tail and head: ((HEAD) - (TAIL)) & (POT_SIZE - 1).
TAKEN(h, t) == (h - t) % Size

\* A position in the buffer: (tail & mask).
offset(t) == t % Size

Init ==
    /\ data_head = 0
    /\ data_tail = 0
    /\ copied = 0
    /\ buffer = [i \in 0..Size - 1 |-> 0]
    /\ pc = "idle"
    /\ head = 0
    /\ tail = 0
    /\ received = <<>>

-----------------------------------------------------------------------------
(***************************************************************************)
(* The kernel.  A record goes in if it leaves one unit free; otherwise it  *)
(* is counted as lost.                                                     *)
(***************************************************************************)

perf_output_begin(n) ==
    /\ copied = 0
    /\ data_head + n <= MaxHead
    /\ n < Size - TAKEN(data_head, data_tail)
    /\ copied' = n
    /\ buffer' = [i \in 0..Size - 1 |->
                    LET k == (i - data_head) % Size
                    IN  IF k < n THEN data_head + k + 1 ELSE buffer[i]]
    /\ UNCHANGED <<data_head, data_tail, pc, head, tail, received>>

perf_output_end ==
    /\ copied > 0
    /\ data_head' = data_head + copied
    /\ copied' = 0
    /\ UNCHANGED <<buffer, data_tail, pc, head, tail, received>>

-----------------------------------------------------------------------------
(***************************************************************************)
(* The server.                                                             *)
(***************************************************************************)

read_perf_head == data_head % Word

\* write_perf_tail(): an unsigned int is stored in the 64-bit field.
write_perf_tail(t) == data_tail' = t % Word

\* perf_stream_data_pending(): flush_stream_samples() checks for data first.
perf_stream_data_pending ==
    /\ pc = "idle"
    /\ TAKEN(read_perf_head, data_tail) # 0
    /\ pc' = "pending"
    /\ UNCHANGED <<kernelVars, data_tail, head, tail, received>>

\* Mutation: the samples are given back to the kernel when the flush begins.
flush_releases_early ==
    /\ pc = "pending"
    /\ pc' = "flushing"
    /\ head' = read_perf_head
    /\ tail' = data_tail
    /\ write_perf_tail(read_perf_head)
    /\ UNCHANGED <<kernelVars, received>>

\* flush_perf_stream_samples() reads head and tail again and queues the message.
flush_perf_stream_samples ==
    /\ pc = "pending"
    /\ pc' = "flushing"
    /\ head' = read_perf_head
    /\ tail' = data_tail
    /\ UNCHANGED <<kernelVars, data_tail, received>>

\* memcpy() of n units from position p; what lies behind the buffer is 0.
memcpy(p, n) == [k \in 1..n |-> IF p + k - 1 < Size THEN buffer[p + k - 1] ELSE 0]

\* Mutation: the message ends when the copy reaches the end of the buffer.
read_cb_stops_at_wrap(len) ==
    /\ pc = "flushing"
    /\ LET n == Min({Size - offset(tail), TAKEN(head, tail), len}) IN
       /\ tail' = tail + n
       /\ received' = received \o memcpy(offset(tail), n)
       /\ IF n < len
          THEN write_perf_tail(head) /\ pc' = "idle"
          ELSE UNCHANGED <<data_tail, pc>>
    /\ UNCHANGED <<kernelVars, head>>

\* Mutation: flushing is not cleared at the end of the message.
read_cb_stays_flushing(len) ==
    /\ pc = "flushing"
    /\ LET n == Min({Size - offset(tail), TAKEN(head, tail), len}) IN
       /\ tail' = tail + n
       /\ received' = received \o memcpy(offset(tail), n)
       /\ IF TAKEN(head, tail') = 0
          THEN write_perf_tail(tail')
          ELSE UNCHANGED data_tail
    /\ UNCHANGED <<kernelVars, pc, head>>

\* fragmented_perf_read_cb() copies up to len units: first those before the end
\* of the buffer, if the data wraps, then the rest; the tail is written when
\* nothing is left.
fragmented_perf_read_cb(len) ==
    /\ pc = "flushing"
    /\ LET before == IF offset(head) < offset(tail)
                     THEN Min({Size - offset(tail), len}) ELSE 0
           rest == Min({TAKEN(head, tail + before), len - before})
       IN /\ tail' = tail + before + rest
          /\ received' = received \o memcpy(offset(tail), before)
                                  \o memcpy(offset(tail + before), rest)
    /\ IF TAKEN(head, tail') = 0
       THEN write_perf_tail(tail') /\ pc' = "idle"
       ELSE UNCHANGED <<data_tail, pc>>
    /\ UNCHANGED <<kernelVars, head>>

-----------------------------------------------------------------------------
kernel == perf_output_end \/ \E n \in 1..MaxRecord : perf_output_begin(n)

server ==
    \/ perf_stream_data_pending
    \/ flush_perf_stream_samples
    \/ \E len \in 1..MaxLen : fragmented_perf_read_cb(len)

Next == kernel \/ server

Spec == Init /\ [][Next]_vars

\* The server's timer keeps firing and the client keeps reading; a record the
\* kernel began is published.
FairSpec == Spec /\ WF_vars(server) /\ WF_vars(perf_output_end)

-----------------------------------------------------------------------------
(***************************************************************************)
(* Properties.                                                             *)
(***************************************************************************)

\* Every variable has its type; tail may run past Word until it is written.
TypeOK ==
    /\ data_head \in 0..MaxHead
    /\ data_tail \in 0..Word - 1
    /\ copied \in 0..MaxRecord
    /\ buffer \in [0..Size - 1 -> 0..MaxHead]
    /\ pc \in {"idle", "pending", "flushing"}
    /\ head \in 0..Word - 1
    /\ tail \in 0..Word + Size - 1
    /\ received \in Seq(0..MaxHead)

\* The units that were not received yet are in the buffer: no record of the
\* kernel overwrites what the server is still to read, whatever was truncated.
UnreadIntact ==
    \A n \in Len(received) + 1..data_head : buffer[(n - 1) % Size] = n

\* Forwarding implements the FIFO: fragments of any length, split at the end of
\* the buffer or not, and counters that wrap deliver each unit once, in order.
Fifo == INSTANCE SampleFifo WITH published <- data_head

Implements == Fifo!Spec

\* Every unit the kernel publishes is forwarded.
EverythingForwarded ==
    \A n \in 1..MaxHead : data_head >= n ~> Len(received) >= n
=============================================================================
