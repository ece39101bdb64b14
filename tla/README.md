# gputop: models, checks and proofs

gputop shows what an Intel GPU, the kernel's tracepoints and the CPUs are doing.
A *server* (`src/server`) runs on the machine that is observed; it opens metric
streams on behalf of a client and forwards their samples over a websocket. A
*client* (`src/lib` with the command line front end in `src/wrapper` and the
graphical one in `src/ui`) decodes and accumulates the samples. This directory
holds TLA+ modules of the parts of this system whose correctness depends on
order, timing, sharing or wrap-around, TLC configurations that check them on small
instances, and TLAPS proofs for instances of any size. `PROJECT.json` maps every
definition to the lines it models.

## 1. Inventory

### Server

| part | state | operations | what makes it hard, and what is correct |
|---|---|---|---|
| stream server (`gputop-server.c`, `gputop-perf.c`) | `streams`, `closing_streams`, per stream `user.flushing`, `pending_close`, `user.data`, libuv handles; `h2o_conn`; the websocket's send queue; the idle and timer handles | open, close, terminate, flush, close callbacks, connect, disconnect, requests | Callbacks of one libuv loop in an order nobody writes a test for; sample messages are pulled out of the stream object long after they were queued. Correct: a queued message's stream is alive; every requested close happens; a client is sent only what is its own; no handle is closed twice; a terminated stream is not forwarded. |
| perf buffer of a live stream | the kernel's `data_head`, `data_tail` and circular buffer; `perf.head`, `perf.tail` | kernel writes, look for data, begin a flush, copy a fragment | The kernel writes concurrently; copies are split at the end of the buffer and by wslay; 64 bit counters are truncated to 32. Correct: the client receives each byte once and in order. |
| flight recorder of a perf stream that is not live | the same buffer, `header_buf` (a ring of record offsets) | `gputop_perf_update_header_offsets()` | Old records are overwritten; an unbounded search for an intact one. Correct: every offset kept is that of an intact record. |
| CPU statistics stream | `stats_buf` with length, position and full flag | sampling timer, flush | A buffer that fills up between two flushes, lengths that are no multiple of each other. Correct: flushes send the newest samples, whole, in order. |
| log (`gputop-log.c`) | a list, its length, a rwlock | `gputop_log()` in any thread, `gputop_get_pb_log()` and `forward_logs()` in the server's | An unlocked look at the length, a reader that changes the list, a limit. Correct: the copy fits its array, order is kept, nothing vanishes. |
| GPU context handles (`gputop-ioctl.c`, `gputop-perf.c`) | `ctx_handles_list` | add and remove from intercepted ioctls, first available for an open request, re-initialisation | Application threads and the server share the list without a lock; ids are unique per file only. |
| GL interposer (`gputop-gl.c`) | winsys contexts and surfaces, query objects, monitors | context and surface life cycle, begin and end of queries around swaps | Several application threads; objects destroyed while current. |
| fake mode | a timer in place of a readable stream | report generation | Data only; its timer is part of the stream server. |
| process and tracepoint info, `main`, terminal UI, config utility | none that outlives a call | procfs, sysfs and debugfs reads, drawing | I/O. |

### Client

| part | state | operations | what makes it hard, and what is correct |
|---|---|---|---|
| stream bookkeeping (`gputop-client-context.c`, driven by `gputop-ui-main.cpp`) | connection, `is_sampling`, an intrusive list of streams, ids, the table of tracepoint streams, tracepoints by name and uuid | connect and reconnect, reset, start and stop sampling, add and remove a tracepoint, choose a metric set or a CPU period, dispatch of messages | A connection that was left lives on until its closed callback; replies name an address that may be reused; a reset empties lists whose nodes are still linked. Correct: client and server agree on what is open; a list walk ends; no freed connection or tracepoint is used. |
| accumulation and timelines (`gputop-client-context.c`, `gputop-oa-counters.c`) | reference counted chunks of reports, the last report, samples of the timeline, graphs of all contexts and per context, hardware contexts | receive a chunk, accumulate a report, lost buffer, start and stop | 32 bit timestamps wrap; samples, graphs and contexts end at different reports and share chunks; giving up an old sample can free the context in use. Correct: each interval is counted once and for the context that ran; counts are exact. |
| tracepoint samples and processes (`gputop-client-context.c`) | one list of all samples, one per tracepoint; tables from pids to processes and from contexts to processes; process requests under way | add a sample, learn a context's process, answer about a process, start, stop, reset | Streams of several CPUs interleave, answers come late or are errors, processes are freed while contexts point to them. Correct: lists sorted and alike; no dangling process; owner and name are right. |
| wrapper (`gputop-wrapper-main.c`, `gputop-uv-network.c`) | connection, sampling phase, the observed program, signals, a timer | connect, choose metrics, sample, start the program, quit | Ctrl-C, the program's end, its last samples and the server's end in any order. Correct: the program is observed from its start, streams are closed before the connection, the wrapper ends. |
| networks of the user interface (`gputop-*-network.c`) | one connection | connect, send, receive, close | Callbacks after a close. |
| CPU statistics and log of the client | two bounded lists for display | add | Limits. |
| topology, metric sets, UI | decoded tables, widgets | decoding, drawing | Pure data or drawing. |

The parts interact as follows. The server's poll, timer and idle callbacks all run
on one thread; `update_cb()` flushes every stream through `h2o_conn` and forwards the
log. The kernel shares the perf buffer with `flush_perf_stream_samples()` and its read
callback. Application threads (the server can be a library in the observed program)
share the log and the context handles. The client and the server exchange protobuf
messages and binary sample messages; a close is answered by an ACK and a
`CLOSE_NOTIFY`. `PROJECT.json` lists the hazards, each at its line.

## 2. Modules

### StreamServer

The loop is a `phase`: timers, pending, idle (with `update` while `update_cb()` walks
the list), poll and closing, in libuv's order. Which callback may run in which phase
is libuv's rule and the models' guard (`At`): requests, accepts and readable streams in
poll; completed or failed writes, and with them a disconnect, in pending; callbacks of
`uv_close()` in closing, for the handles closed before that phase began (`closeBatch`).
`sending` is the connection whose `wslay_event_send()` is on the stack: after every
`send_pb_message()` and flush it sends queued messages one after the other until it
would block, and nothing else runs meanwhile.

A message is reduced to where its bytes come from (`src`, a stream for sample
messages) and whom it is about (`owner`, a history value). `streams` and
`closing_streams` are sets: the code's lists have no duplicates and no property
depends on their order. Boolean fields of the stream are sets of streams. An object
that is freed can be allocated again. `fault` records what would end the process: a
failed assertion (of the code, or of `uv_close()` on a closing handle), a `NULL`
dereference of `h2o_conn`, or a read callback on a freed stream.

| action | code |
|---|---|
| `periodic_update_cb`, `i915_perf_ready_cb`, `queue_update` | the callbacks of these names |
| `update_cb`, `visit_nothing`, `flush_stream_samples`, `update_perf_head_pointers`, `forward_logs` | `update_cb()`, the body of `update_streams()`'s loop, `forward_logs()` |
| `fragmented_read_cb_eof`, `read_freed_stream` | the end of `fragmented_perf_read_cb()` and `fragmented_i915_perf_read_cb()` |
| `handle_open_stream`, `handle_close_stream`, `handle_get` | the request handlers `on_ws_message()` dispatches to |
| `on_req`, `on_disconnect` | `on_connect()` and `on_req()`; `on_ws_message(conn, NULL)` with `terminate_all_streams()` |
| `stream_handle_closed_cb` | the `uv_close()` callback with `stream_closed_cb()` or `stream_closed_notify_cb()` |
| `send_message`, `send_would_block`, `proceed`, `*_done`, `idle_nothing` | h2o, wslay and libuv as the server uses them (external) |

### PerfRing and SampleFifo

`PerfRing` has the kernel and the server as two processes over the shared buffer. A
record is copied (`perf_output_begin`) and published (`perf_output_end`) in two steps.
`Word` stands for 2^32, the values of an `unsigned int`: `read_perf_head()` and
`write_perf_tail()` truncate, the masks are `% Size`. A unit holds its serial number.
`SampleFifo` is the abstract specification: units are published and received in order,
each once. `Implements` is the refinement.

### HeaderBuf

One `update` is a begin, a step per record and an end, between which the kernel adds
records. Positions are not truncated here, and headers are well formed (the code's two
`Spurious header` exits cannot happen with records the kernel wrote). `hung` stands for a search loop that goes
round the offsets without finding one it accepts. Any two records together are smaller than
the buffer (`HeaderAssumption`: a record has 64KB at most, the buffer 16MB). The stream was
opened to be overwritten: one that was not, and is not live either, has no offsets, and the
server's first update of it divides by their number, 0 (`gputop-server.c:494`). No client
of the repository opens such a stream.

### CpuStats

The timer callback and the flush, with the length computed as the code does
(`MAX(10, 1000 / period)`) and the number of CPUs a constant of the machine, which need not
divide it. An entry holds the number of the sample it was read for; `gputop_cpu_read_stats()`
may fill only some of a sample's entries (`Absent`), which its caller ignores.

### ServerLog

Threads log under the write lock, in two steps, the getter looks at the length without
the lock, then moves one entry per step under the read lock. The list is kept apart
from `gputop_log_len` so that they can disagree.

### OaTimeline

`record_sample`, `record_buffer_lost` and `chunk_done` read a chunk; for a report, `pc`
goes through the blocks of `i915_perf_accumulate()` in their order: begin a graph,
begin a sample of the timeline, accumulate and perhaps record the sample
(`accumulate_timeline`), accumulate for the context, for the graph of all contexts, and
keep the report as the last one (`finish_record`). Nothing else runs between the blocks;
they are actions of their own so that what one frees and a later one uses can be stated
(`ContextsInStep`). A sample keeps the chunks of its first and last report,
`refcount` counts them as `get_chunk` and `put_chunk` do. A context's `time_spent` is a
variable of its own, beside `hw_contexts`. `U32` and `U64` stand for 2^32
and 2^64. Of the counters only the timestamp is kept: the others are accumulated by the
same differences.

### ClientContext

`ctx` is `struct gputop_client_context`: `next` and `prev` are the pointers of the stream
list, so that unlinking a node from a list that has been emptied does to the model what
it does to the program; loops over CPUs, tracepoints and list nodes are recursive functions
of the number of rounds; `id`, `stream_id` and `table` are ids and
`perf_tracepoints_stream_table`; a tracepoint is its address, which is also the uuid of
its request, and an address is reused once freed. `Receive` and the `Handle*` actions
are `gputop_client_context_handle_data()`; `toggle_start_stop_sampling`,
`select_metric_set`, `select_cpu_period`, `add_tracepoint`, `select_remove_tracepoint`
and `reconnect` are the clicks that change this state; `on_connection_ready` and the
two closed actions are the UI's callbacks over `gputop-soup-network.c`. The server is
external: per connection it handles requests in order, sends data for open streams, or
is lost. `fate` is how the client ended: a failed assertion, a list walk that does not
end, or a use of freed memory. `past` (history) is what a property has to except:

| `past` | what happened in this session |
|---|---|
| `early` | the CPU period was chosen before the first connection: a stream with id 0 |
| `stale` | the session began with the OA stream open: the reset keeps its id |
| `nuked` | the session began with streams of tracepoints open: they are unlinked from an emptied list |
| `cut` | the closed callback of an older connection cleared the new one |
| `mixed` | a message of an older connection was handled |
| `removed` | a tracepoint was removed |

### TracepointData

`Emit` is the kernel: a sample on the stream of a tracepoint and a CPU.
`add_tracepoint_stream_data` takes the first sample of any stream: it is inserted in the
two lists from their ends, samples beyond the window are removed from both, and then its
fields are read: a tracepoint may have neither a process nor a context field, only the first,
or both (`Correlating`, `Identifying`); `Attribute` asks for the process (`get_process_info`)
and gives it the context (`Correlate`). `Learn` is history. A sample that was itself
beyond the window has been freed by then: its fields are any values.
`connected` says whether `send_pb_message()` has a connection that takes requests. After
`connection_closed` it has none while samples and answers still arrive: an entry for a new
process is then made, and its request dropped.
`handle_get_process_info` is the server's answer, an error, or an answer with an empty
command line. `get_hw_context` and `put_hw_context` stand for what `OaTimeline` does.
`gen` tells a process from one allocated for the same pid after a restart, so that a
pointer is a pid and a generation.

### Wrapper

One action per callback of the wrapper's loop: `on_uv_connect`, the first read, the reads
with `on_data()` after every message, the end of the connection, a read error, Ctrl-C, the
program's exit, and the timer that quits when no sample follows it. The first read is taken
for the handshake whatever it brings. If it is the end of the file or an error, because the
server is gone by then, the connection is `deaf`: open, but libuv reads nothing from it any
more; a later read error leaves it so, too. `w` holds the wrapper's globals and its client
context, with sampling as in `ClientContext` reduced to one OA stream and one tracepoint.
`up` and `down` are the messages on their way, `args` whether there is a program to start,
and whether the server has a device. The server answers requests in order, may fail to open
a stream (`refused`: an error for the OA stream, an acknowledgement for a tracepoint), and
sends logs, CPU statistics and notifications at any time, also before the features
(`ServerSends`); `w.early` (history) says that one of these came first. To the wrapper
everything but features, tracepoint information and OA samples is one kind of message
(`other`): `on_data()` only counts it. SIGPIPE of a write after the server is gone is left
out.

### Proof and MC modules

`StreamServerProofs`, `PerfRingProofs`, `HeaderBufProofs`, `ServerLogProofs`,
`OaTimelineProofs`, `ClientContextProofs`, `TracepointDataProofs` and `WrapperProofs` hold
the theorems about the modules they extend (section 4). Each states the lemmas on remainders,
least elements, sums and induction it needs at its beginning. The `MC` modules hold TLC's symmetry sets for
`StreamServer`, `OaTimeline`, `ClientContext` and `TracepointData`, used where only
invariants are checked.

## 3. Runs

| run | instance | shows |
|---|---|---|
| `stream_one` | 2 streams, 1 client, 2 ids, fairness | The types; `FlushReadsLiveStream`, `FlushHasMessage`, `MessagesReachOwner`, the inductive invariant `OneClientInv`, and `CloseCompletes` |
| `stream_two` | 2 streams, 2 clients | `AssertionsHold`, `ForwardConnIsUp`, with every fault reachable |
| `stream_pending` (violated) | 1 client | `UpdateSkipsClosing`: a disconnect in the pending phase |
| `perf_ring` | 8 units, words of 16, 36 units written, fairness | `UnreadIntact`, the refinement `Implements`, `EverythingForwarded` |
| `header_buf` | 16 units, records of 3 and 5, 4 offsets | `TrackedIntact`, `DropsOverwritten`, `SearchStopsAtKept`, whether the first wrap splits a record or not |
| `cpu_stats` | 1, 4 and 12 CPUs, lengths 10 and 12, with and without overwriting, 11 samples | `FlushSendsNewest` |
| `server_log` | 3 threads, limit 2, 6 messages | `CopyFits`, `SentInOrder`, `NothingVanishes` |
| `oa_timeline` | 2 contexts, 2 chunks, 5 reports, words of 4, windows of 3 | `CountsAreExact` (chunks and contexts), `ContextsInStep`, `Attributed`, `IntervalsCountedOnce`, `TimeSpentIsShown`, `TimelineInWindow` |
| `client` | 3 connections, 4 ids, 3 clicks, 2 names, 1 address, 1 CPU | `NoOrphans`, `ListedStreamsOpen`, `FindStreamEnds`, `TableInStep`, `EndsOnlyAfter` |
| `client_reset` (violated) | the same | `ResetFindsNoStream`: a CPU period chosen before the first connection |
| `tracepoint_data` | 2 CPUs, 3 tracepoints, 2 pids, 1 context, 3 samples, 2 starts | `Reunified`, `ProcessesLive`, `NamesFollow`, `OwnerIsNewest`, `ProcessesAsked` |
| `wrapper` | 5 messages on their way, fairness | `StreamsClosedFirst`, `ProgramObserved`, `QuitEnds`, `ChildExitQuits`, `ProgramStarts` |

The violated runs are the findings of `PROJECT.json`; each contradicts a comment of the
source, quoted there. Every module states its `TypeOK`; the configurations of
`StreamServer`, where it is also proved, and `TracepointData` check it, the others keep
to the properties that are about behaviour.

**Bounds.** `MaxQueue` stops requests and timers while a connection's queue is longer:
one queued message is enough for a close, a second flush or a disconnect to meet a
message that is being sent, and queues still grow to four messages through closes and
updates. Two streams make a stream that is flushing and one that closes coexist; a
freed one is reused. `perf_ring` writes more than four buffers, so both counters wrap
their word twice, with records and fragments of all lengths up to five: shorter and
longer than what is left before the end of the buffer, and across it. `header_buf`
writes three buffers, so every kept offset is replaced and `HdrLen` is exceeded; two records
of each size fill the buffer exactly, other orders split one. In `cpu_stats` the number of
CPUs divides the length (1; 4 and 12 of 12), does not (4 of 10) or exceeds it (12 of 10); all
buffers but that of one CPU and 12 entries fill up, those of four or twelve several times
over, between flushes or without any. `server_log` logs three times the
limit. In `oa_timeline` the timestamp wraps within a few reports, and can be zero;
five reports are enough for a context to be given up with its last sample, for graphs to
exceed the window and for a chunk to be freed and reused.
Three connections are enough for one that is left, one in its place and one more, with
messages of the first still coming; with one address, a tracepoint added after a removal
has the address of the former. With three samples of two CPUs, at times 0 or 2 apart and
windows of 1 and 3, all orders of arrival, ties, a sample older than the window and a
window made shorter happen; the second start frees processes that contexts and requests
under way still name. The wrapper is started
once and has no other bound than the messages on their way.

**Deadlock** is not checked except in `oa_timeline`: a server without clients may idle,
a wrapper ends, and most models stop at their bound (or at a fault). In `oa_timeline`
the blocks of a report never get stuck; sampling can be stopped and started in any
state between reports.

**Fairness.** `stream_one` assumes that the loop keeps running (weak fairness of the
thread), that a phase handles finitely many events (strong fairness of leaving pending
and poll: libuv polls once per iteration), that the client keeps reading from its
socket (strong fairness of `proceed` and `send_message`), and that the read callback
reaches the end of the samples. The last is not guaranteed for an OA stream whose
kernel produces faster than the socket takes; without it no flush ends. `perf_ring`
assumes the same of the timer and the socket, and that a record begun is published.
`wrapper` assumes that its loop dispatches the callbacks that are ready, that the timer
fires, and that a server that is there answers requests (weak fairness of each). Nothing is
assumed of the user, of the program, of samples, logs and statistics, or of the server
staying there.

### What the models refute

These statements were tried as properties and found false. The first two are the runs
that expect a violation. For the next three the definition named is in its module;
TLC shows the behaviour when it is added to the configuration given.

- `stream_pending`, `client_reset`: see the findings.
- `UvHandlesClosedOnce` (`StreamServer_one.cfg`): a close request followed by a
  disconnect in one poll phase calls `uv_close()` twice on a handle.
- `FlushReadsLiveStream` with two clients (`StreamServer_two.cfg`): a disconnect frees a
  stream that the other connection's message reads.
- `FullOnceWrapped` (`HeaderBuf.cfg`), what `gputop-perf.h:95`, `gputop-perf.h:132` and
  `gputop-perf.c:1269` say of `full` ("Set when we first wrap"): a record that ends exactly at
  the end of the buffer does not set it. The offsets of overwritten records are kept then,
  and, when there are more offsets than records, also after a later record was split.
  `TrackedIntact` excepts this (`NoExactFill`); the other two properties do not depend
  on it (section 4).
- `stats_buf_len` is a multiple of the number of CPUs, as `gputop-perf.h:180` has it: it is
  `MAX(10, 1000 / period)` whatever the machine. `FlushSendsNewest` therefore says what a
  flush of a full buffer sends in every case: with overwriting the newest samples, but not
  the last one if the length is no multiple.
- A flush reads what was sampled: a full buffer that is not overwritten, which is how all
  clients open the stream, is sent from behind its last sample: the first set is one that was
  never sampled, and the last sample stored is not sent.
- A sample of the timeline belongs to the context that ran: not after a report whose
  timestamp is zero, whose change of context is missed. `Attributed` excepts it.
- The client's streams and the server's agree in every session: not after a reset with
  the OA stream open (`stale`), whose id is kept and whose close may name another stream,
  nor when an older connection's closed callback clears the new one (`cut`).
- A walk of the stream list ends: not after a reset with tracepoints open (`nuked`).
- The process of a context is the newest a sample names: it is the one of the sample that
  *arrived* last. A context whose new process does not answer, or answers with an empty
  command line, keeps the former name.
- Every process is asked for: not one whose first sample arrives when an older connection's
  closed callback has cleared the connection. Its entry stays, so that no later sample asks
  again; the reset for the next connection removes it (`ProcessesAsked`).
- A sample is valid while its fields are read: one that is older than the window is
  freed first.
- The wrapper ends without a failed assertion: Ctrl-C before the connection is up, or
  after it ended, meets that of `gputop_connection_close()`; nothing else does. When
  `execvp()` fails, the forked process returns into the loop it shares with its parent
  (`fate = "shared"`).
- A wrapper that quits ends, and one that has a program to start starts it: not if the first
  read is the end of the file or an error (`gputop-uv-network.c:182`), or a later one an error
  (`gputop-uv-network.c:193`). The connection is then taken to be open, nothing more is read
  from it, and neither the features nor an answer to the close can come (`conn = "deaf"`).
- The program is observed from its start: not if a log message arrives before the features.
  `on_data()` starts sampling at it, without a metric set or a tracepoint to open, and the
  program two messages later (`w.early`).

## 4. Proofs

Every theorem holds for all values of the constants that satisfy the module's named
assumption, which TLC evaluates in the module's run. The invariants called `IInv` were
checked by TLC on small instances before they were proved. Each proof that a step keeps an
invariant has one lemma or case per action.

### StreamServerProofs

Any sets of streams, connections and ids and any queue bound (`ServerAssumption`: the NULL
values are no connection and no stream, id 0 is reserved).

- any number of clients: `TypeCorrect` (`TypeOK`), `ListsConsistent` (`ListInv`),
  `AssertionsNeverFail`, `ForwardConnUp`, `ClosesConsistent` (`CloseInv`);
- one client, which may disconnect and connect again (`SingleClient`):
  `ConnConsistent`, `OwnersConsistent`, `QueuesConsistent`, `OneClient` (the whole
  inductive invariant), and from it `OneClientFlush`, `OneClientFlushEnds`,
  `OneClientOwner`.

`SingleClient` is needed: with two clients the property is false (section 3). That streams
and their messages agree is not inductive by itself. A disconnect leaves closing
streams in `streams`; an update must not queue a message for them, which holds because
either there is no connection (pending to update of the same iteration: the code then
dereferences NULL, a fault after which nothing is queued) or the closing phase frees
them before the next iteration. This is `CloseInv`. `OwnerInv` says which streams still
belong to the connection that is up, so that a reconnect in the same poll phase does
not inherit messages: closes started by a disconnect are silent. `OneReader` makes the
end of one message leave no other that reads from the same stream, so that its deferred
close may start. `ConnInv` ties queue, `sending` and `h2o_conn` together.
`PbsKeepQueueInv`, `TailKeepsQueueInv` and `FlushKeepsQueueInv` are the three ways a queue
changes.

### PerfRingProofs

Any size of the buffer, any word that is a multiple of it, records and fragments of any
length (`RingAssumption`): `TypeCorrect`, `NothingOverwritten` (`UnreadIntact`), and
`Refinement` (`Spec => Implements`, safety; `SampleFifo` has no fairness of its own). The
counters that kernel and server exchange are remainders, so the invariant names what they
are remainders of: `Released`, the number of units given back, which is the number received
but for the message being sent. `InStep` keeps the kernel within one buffer of it,
`MessageLeft` says that the truncated difference `TAKEN(head, tail)` counts published units
only, and `Intact` is `UnreadIntact` with the record that the kernel is still copying.
A step of the refinement is then a unit published, a prefix of the published units
received, or nothing.

### HeaderBufProofs

Any size of the buffer, any number of offsets from 2, any record sizes of which two fit the
buffer (`HeaderAssumption`): `NoMoreIsDropped` (`DropsOverwritten`) and `SearchEnds`
(`SearchStopsAtKept`), and `KeptCanBeParsed` (`TrackedIntact`, which is
`NoExactFill => KeptIntact`). `NoExactFill` says that no record ends exactly where the
buffer ends the first time around; without it `KeptIntact` is false (section 3). The
invariant adds where the kernel's records lie (`Recorded`), which of them the update has got
to (`Position`), and that the ring of offsets holds the newest records (`Kept`), whether
overwritten or not. `AheadMeans` is the key lemma: the code's comparison of offsets, with its
one correction for the wrap, holds exactly when the record survives. The newest record always
survives, because two records fit, so the search ends there at the latest.

### ServerLogProofs

Any set of threads with the server's among them, any limit and number of messages
(`LogAssumption`): `TypeCorrect`, `CopyAlwaysFits`, `OrderKept`, `AllAccountedFor`. The
invariant adds who holds the lock (`Locked`), how far the list and its counted length may be
apart between the two steps of a thread (`Counted`), and that what was sent is older than the
copy and the copy older than the list (`Ordered`).

### OaTimelineProofs

Any contexts, chunks, window, period, widths of the timestamps and number of reports
(`OaAssumption`: NULL is no object, there are finitely many contexts, the numbers are
positive, less than 2^32 passes between reports).

The first level is `ContextsKept` (`ContextsCounted`, the half of `CountsAreExact` about
contexts), `BlocksInStep` (`ContextsInStep`) and `RanOnContext` (`Attributed`), which are
inductive together (`IInv`). `ContextsInStep` needs the counts: the sample that has just been
accumulated counts for its context but is not among the excess, so the context's count exceeds
what the excess takes from it and the context survives (`PutContexts`, `TimelineInductive`);
that in turn rests on counting the samples of a sequence that is cut or appended to
(`OwnedCut`, `OwnedAppend`). `Attributed` needs to know whose sample is in progress: that of
the last report, or, once the timeline has been accumulated, that of the report in hand, unless
a timestamp of zero hid a change of context (`InProgress`, `AllBelieved`).

The second level adds one invariant per quantity to `IInv`:

- `Clocked`: what the truncated timestamps are remainders of. The difference of two 32 bit
  timestamps is then the time between their reports, which is less than 2^32.
- `Counted`: what was measured is what the graphs, the one in progress and those given up add
  up to. With `Clocked` it gives `CountedOnce` (`IntervalsCountedOnce`).
- `TimeKept`: a context's `time_spent` is what its samples in the timeline add up to, modulo
  2^64, also through the subtractions of excess. It gives `TimeShown` (`TimeSpentIsShown`).
- `Windowed`: samples of the timeline are in order and end before the one in progress begins.
  It gives `InWindow`: `now < U64 => TimelineInWindow`. The hypothesis is that the CPU's
  nanosecond clock has not passed 2^64; the model's time has no bound, and beyond it the order
  of truncated times says nothing.
- `Exact` with `Pointers`: the count of a chunk is the number of references to its reports, by
  the samples of the timeline, the graphs, every context's graphs, the samples in progress, the
  last report and the handler that reads it. `Pointers` says which of these are set between the
  blocks of a report. It gives `Exactly` (`CountsAreExact`).

All sums (`SumFunction`) are `SumFunctionOnSet` of a function from positions or contexts to integers, of
which the lemmas `SumAdd`, `SumUnion`, `SumShift` and
`SumSame` say what they need; a cut, an append and a removal are then additions
(`TotalCut`, `TotalAppend`, `KeptTotal`).

### ClientContextProofs

Any names, addresses, number of CPUs, connections, ids, clicks and messages
(`ClientAssumption`: the numbers are numbers, there are finitely many addresses, NULL is none of
the objects and no address is one of the names used for the three fixed nodes):
`NothingOrphaned` (`NoOrphans`), `ListedAreOpen` (`ListedStreamsOpen`), `FindEnds`
(`FindStreamEnds`), `TableAgrees` (`TableInStep`) and `EndsHaveCauses` (`EndsOnlyAfter`), from
`ContextInvariant` (`CInv`), which TLC checked first on two instances.

A handler of the client is a loop over tracepoints of loops over CPUs that open or close
streams. What one round does to the context is stated as a relation (`OpenedTo`, `ClosedTo`,
`RemovedTo`), and a set of contexts is `Stable` if no such round leads out of it
(`RemovesWithin` for removals). That no loop leads out of a stable set is proved once, by
induction over the number of rounds, for closing, opening and removing all tracepoints, for
starting and stopping, for the CPU stream and for the reset (`Evolves`). The parts of `CInv`
about the context are memberships in stable sets:

- `InTable`: the table has the streams of live tracepoints under their ids, which are below
  the next one. It gives `TableInStep`.
- `Linked`: the open streams and the head form one ring. The order of the ring is a rank that
  falls along `next` (`Path`, `Ring`), so that `list_add()` and `list_del()` only have to give
  a new rank, and a walk ends because ranks are numbers (`LinkedEnds`). After a reset with the OA
  stream open the context is not `Linked` but `Stale`: the CPU stream is alone on the list and
  the OA stream keeps its links, to the head and to it. Closing the OA stream then leaves the
  list as it is and the context `Linked` again (`StaleClose`); that is why `FindStreamEnds`
  need not except `stale`.
- `Forgets(S)` and `Misses(S)`: what a server with the streams `S` has after the context's
  requests is listed, and what is listed it has. The second needs that ids are `Unique`, which
  the OA stream that a reset keeps breaks (`stale`).

The rest of `CInv` is about connections, and holds while the process runs: nothing is on its
way on a connection that is not open (`Idle`), the context sends on the session's connection
unless it was taken away (`Current`), the CPU stream is open in a session and nothing else is
before the first (`InPlace`), data and uuids are of live tracepoints unless one was removed
(`Held`), and each tracepoint without fields has at most one request or reply under way
(`Asked`), so that `update_tracepoint()`'s assertion holds.

### TracepointDataProofs

Any sets of CPUs, tracepoints, pids and contexts, any number of samples and starts, any order
of arrival (`TracepointAssumption`: NULL is no object, pids are not 0): `PointersLive`,
`NamesAreShown`, `OwnersAreNewest`, and `AllAskedFor`, which is about the time while the
connection takes requests: when it no longer does, nothing is promised until the reset that
brings the next one, and that empties the table. They are inductive together, with the types
of the tables and the fact that a process that answered has its own name (`CmdKnown`): that a
pointer is live is what makes the process it names the one that was asked for. They hold
whatever the lists of samples contain.

`TypeCorrect` (`TypeOK`) and `SortedAndAlike` (`Reunified`) are about the lists. `LInv` says
that the global list is sorted and without repetitions, that a tracepoint's list is the
part of it that is the tracepoint's (`Those`), and that what is still on its way is in no list
and on one stream only (`Apart`). The last makes the sample that arrives new to both lists.
The insertion walks each list by itself from its end: that it finds corresponding places is
because both lists are cut by the same condition on time, and `Those` of a cut is the cut of
`Those` (`ThoseConcat`, `ThoseAppend`).

### WrapperProofs

Any command line, device and number of messages on their way (`WrapperAssumption`):
`ClosedBeforeClose` (`StreamsClosedFirst`) and `RunsObserved` (`ProgramObserved`). The handlers
are functions on the wrapper's state, so the invariant is stated of such a value and of the
requests it adds: `InNet` says that what the server will have tried to open, and not closed,
once it has handled every request on its way (`HasOa`, `HasTp`) is what the wrapper believes to
have requested, and that a close is the last request. `Knows` says why sampling has begun with
both streams when the program is started: unless a message came before the features, they are
the first, and without a metric set the wrapper does not get that far.

### Induction over data

The library's induction rules take an operator as parameter, which no installed prover can
instantiate. Where a proof needs induction over numbers, finite sets or sequences, it uses a
rule for *sets*: a set of numbers that has 0 and with each number the next has all numbers
(`NumberInduction`, from the least number outside it), and likewise for finite sets
(`FiniteInduction`) and sequences (`SequenceInduction`). The property is then the set of those numbers, sets or sequences
that have it.

### Only model-checked

- `CloseCompletes`, `EverythingForwarded`, `QuitEnds`, `ChildExitQuits`, `ProgramStarts`:
  liveness under fairness is out of the prover's reach.
- `FlushSendsNewest`: where a flush starts and what it sends are the result of loops over the
  buffer, with a case for each way the number of CPUs and the length can relate.
- The behaviour of the wrapper after its connection became `deaf`, other than
  `StreamsClosedFirst` and `ProgramObserved`.
- `TypeOK` of `OaTimeline` and `ClientContext` as a whole: what the other proofs need of the
  types is part of their invariants. In `ClientContext` ids up to `MaxId` are TLC's bound;
  `Ctx` has any ids.

## 5. Not modelled

Of the parts with a module: the content of messages and replies; counters other than the
timestamp; the percentage in a fill notification; `overwrite` of live perf streams (the
clients of the repository open live streams without it); failures to allocate; the
shutdown of the server process; h2o's HTTP side; what is printed or drawn. The request
handlers that only read files are one reply.

Parts without a module:

- GPU context handles: used for OA streams of a single context, which no client of the
  repository opens (`per_ctx_mode` is always false). Its hazards are listed.
- GL interposer: `src/server/meson.build` does not list it and nothing defines
  `SUPPORT_GL`.
- The client's CPU statistics and log: two bounded lists that are drawn. Reading shows
  two edges at their limits: `add_cpu_stats()` with a maximum of 0 (a visible time shorter
  than the sampling period) reuses the first entry of an empty list, and a full client log
  writes one slot past its oldest entry.
- The libuv and browser networks of the user interface: the calls of the libsoup one over
  other libraries.
- Device topology: copies of masks made once per features message.
- Metric sets: XML and what is generated from it.
- Drawing, argument parsing, reading of procfs, sysfs and debugfs: I/O.

Edges of the code that the models leave out, from reading: a recorder stream without any
record computes its fill notification from an offset that was never written, and one that is
not to be overwritten divides by 0 there (`gputop-server.c:494`); a machine whose present CPUs read `0` has `n_cpus` 0, and a CPU
stream with a period of 0 divides by it (`gputop-cpu.c:52`, `gputop-perf.c:779`; the
clients keep the period within 1 to 1000); a client whose OA stream is refused still takes
itself for sampling (`gputop-client-context.c:1407`); a third connection begun while two
are being set up leaves one that is never closed (`gputop-ui-main.cpp:317`); what wslay makes
of the bytes left in the wrapper's buffer when a read error is taken for a length
(`gputop-uv-network.c:195`).

Most lines of the repository are vendored or declarative: ImGui with its demo, fonts and
image loaders, the kernel's and Mesa's headers and hash tables, and the drawing code that
calls ImGui. The models cover most of the code that keeps state.

## 6. Plan

1. done: `StreamServer` with its proofs, `PerfRing` with `SampleFifo`, `HeaderBuf`,
   `CpuStats`, `ServerLog`.
2. done: the client: `OaTimeline`, `ClientContext`, `TracepointData`, and `Wrapper`.
3. done: proofs about `PerfRing` with the refinement, `HeaderBuf`, `ServerLog`,
   `OaTimeline`, `ClientContext`, `TracepointData` and `Wrapper`.
4. Open: a proof of `FlushSendsNewest`, with the start of the flush given in closed form.
5. Open: a composition of `ClientContext` with an abstract server that promises ACK and
   CLOSE_NOTIFY, the promise `StreamServer` is checked against.
