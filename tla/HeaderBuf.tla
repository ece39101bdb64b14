------------------------------ MODULE HeaderBuf ------------------------------
(***************************************************************************)
(* The flight recorder of a perf stream that is not live:                  *)
(* gputop_perf_update_header_offsets() in server/gputop-perf.c lets the    *)
(* kernel overwrite old records and keeps, in a ring of offsets, where the *)
(* records that can still be parsed begin.  The kernel adds records while  *)
(* the update runs; positions are in units of the buffer and counted       *)
(* without truncation (PerfRing is about that).                            *)
(*                                                                         *)
(* The stream was opened to be overwritten.  One that was not, and is not  *)
(* live either, has no offsets and hdr_buf->len = 0: the server divides by *)
(* it in the first update (gputop-server.c:494), and has no more states.   *)
(***************************************************************************)
EXTENDS Integers, Sequences, FiniteSetsExt

CONSTANTS
    Size,       \* units of the buffer
    Sizes,      \* the sizes of records
    HdrLen,     \* hdr_buf->len: the expected number of records and a fifth
    MaxHead     \* bound: units the kernel writes

ASSUME HeaderAssumption ==
    /\ Size \in Nat \ {0}
    /\ Sizes \subseteq 1..Size - 1
    /\ \A m, n \in Sizes : m + n < Size    \* of 64KB at most, in 16MB
    /\ HdrLen \in Nat \ {0, 1}
    /\ MaxHead \in Nat

VARIABLES
    records,    \* the kernel's records in order: where each starts and its size
    data_head,  \* mmap_page->data_head
    data_tail,  \* mmap_page->data_tail
    offsets,    \* hdr_buf->offsets
    head, tail, \* hdr_buf->head and ->tail; buf_head, buf_tail in an update
    full,       \* hdr_buf->full
    pc,         \* "idle" or "update"
    perf_head,  \* the head the last update read
    perf_tail,  \* the record the update has got to
    hung        \* the search for an intact record never ends

hdrVars == <<offsets, head, tail, full>>
perfVars == <<perf_head, perf_tail>>
vars == <<records, data_head, data_tail, hdrVars, pc, perfVars, hung>>

Init ==
    /\ records = <<>>
    /\ data_head = 0
    /\ data_tail = 0
    /\ offsets = [i \in 0..HdrLen - 1 |-> 0]
    /\ head = 0
    /\ tail = 0
    /\ full = FALSE
    /\ pc = "idle"
    /\ perf_head = 0
    /\ perf_tail = 0
    /\ hung = FALSE

\* The kernel adds a record, over what was given back by data_tail.
perf_output(n) ==
    /\ data_head + n <= MaxHead
    /\ data_head - data_tail + n < Size
    /\ records' = Append(records, [start |-> data_head, size |-> n])
    /\ data_head' = data_head + n
    /\ UNCHANGED <<data_tail, hdrVars, pc, perfVars, hung>>

\* The update reads the head and has something to do.
update_begin ==
    /\ pc = "idle" /\ ~hung
    /\ data_head # data_tail
    /\ pc' = "update"
    /\ perf_head' = data_head
    /\ perf_tail' = data_tail
    /\ UNCHANGED <<records, data_head, data_tail, hdrVars, hung>>

\* The record that starts at perf_tail, as its header says.
Record == records[head + 1]

perf_offset == perf_tail % Size

\* Mutation: only where the new record begins counts as overwritten.
Ahead_begin(o) == perf_offset < (IF o < perf_offset THEN o + Size ELSE o)

\* Mutation: room is made for the next record as well.
Ahead_twice(o) ==
    perf_offset + 2 * Record.size < (IF o < perf_offset THEN o + Size ELSE o)

\* Mutation: the new record is always taken to be in front of the old one.
Ahead_no_wrap(o) == perf_offset + Record.size < o

\* The record at offset o begins after the end of the new record, when it is
\* taken to be in front of it.
Ahead(o) == perf_offset + Record.size < (IF o < perf_offset THEN o + Size ELSE o)

\* The offsets repeat after HdrLen steps: the tails the search may stop at.
Intact(t) == {u \in t..t + HdrLen - 1 : Ahead(offsets[u % HdrLen])}

\* The loop's body: mark the buffer as full if the record is split, make room
\* for an offset, step over the records this one overwrites, add it.
next_record ==
    /\ pc = "update" /\ ~hung
    /\ perf_tail < perf_head
    /\ full' = (full \/ perf_offset + Record.size > Size)
    /\ LET room == IF head - tail = HdrLen THEN tail + 1 ELSE tail IN
       IF full' /\ Intact(room) = {}
       THEN hung' = TRUE /\ UNCHANGED <<offsets, head, tail, perf_tail>>
       ELSE /\ tail' = IF full' THEN Min(Intact(room)) ELSE room
            /\ offsets' = [offsets EXCEPT ![head % HdrLen] = perf_offset]
            /\ head' = head + 1
            /\ perf_tail' = perf_tail + Record.size
            /\ UNCHANGED hung
    /\ UNCHANGED <<records, data_head, data_tail, pc, perf_head>>

\* Everything is given back to the kernel.
update_end ==
    /\ pc = "update" /\ ~hung
    /\ perf_tail = perf_head
    /\ data_tail' = perf_head
    /\ pc' = "idle"
    /\ UNCHANGED <<records, data_head, hdrVars, perfVars, hung>>

gputop_perf_update_header_offsets == update_begin \/ next_record \/ update_end

Next == gputop_perf_update_header_offsets \/ \E n \in Sizes : perf_output(n)

Spec == Init /\ [][Next]_vars

-----------------------------------------------------------------------------
(***************************************************************************)
(* Properties.                                                             *)
(***************************************************************************)

\* Every variable has its type; the tail stays behind the head.
TypeOK ==
    /\ records \in Seq([start : 0..MaxHead, size : Sizes])
    /\ data_head \in 0..MaxHead /\ data_tail \in 0..data_head
    /\ offsets \in [0..HdrLen - 1 -> 0..Size - 1]
    /\ head \in 0..Len(records) /\ tail \in 0..head
    /\ full \in BOOLEAN /\ hung \in BOOLEAN
    /\ pc \in {"idle", "update"}
    /\ perf_tail \in 0..perf_head /\ perf_head \in 0..data_head

\* The test for a record that is split misses one that ends exactly with the
\* buffer, the first time around (FullOnceWrapped is about it).
NoExactFill ==
    \A k \in 1..Len(records) : records[k].start + records[k].size # Size

\* The offsets kept are those of the newest records, and no record that was
\* seen overwrites one of them.
KeptIntact ==
    \A k \in tail + 1..head :
       /\ offsets[(k - 1) % HdrLen] = records[k].start % Size
       /\ records[k].start >= perf_tail - Size

\* Every record kept can be parsed once the kernel is stopped, also while it
\* overwrites the buffer for the second time; unless a record ended exactly with
\* the buffer, after which overwritten records stay among the kept ones.
TrackedIntact == NoExactFill => KeptIntact

\* Not more is given up than the new records overwrite or touch, unless the
\* offsets ran out.
DropsOverwritten ==
    tail > 0 /\ head - tail < HdrLen =>
       records[tail].start <= perf_tail - Size

\* The search for an intact record ends, at one that is kept: it does not run
\* past buf_head into offsets that were never written (the comment above the
\* update on overtaking buf->head).
SearchStopsAtKept == ~hung /\ (full => tail + 1 < head)

\* The comments on `full' and on the update: it is set when the kernel's head
\* first wraps.  The model refutes it (README, section 3).
FullOnceWrapped == perf_tail > Size => full
=============================================================================
