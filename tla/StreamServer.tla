---------------------------- MODULE StreamServer ----------------------------
(***************************************************************************)
(* The metric-stream server of server/gputop-server.c together with the    *)
(* stream open/close/unref functions of server/gputop-perf.c.              *)
(*                                                                         *)
(* Everything runs on one libuv thread.  What interleaves are callbacks,   *)
(* and libuv runs them in phases: timers, pending (completions of writes), *)
(* idle (update_cb), poll (accepts, requests, disconnects, readable        *)
(* streams) and closing (callbacks of uv_close).  "update" is the part of  *)
(* the idle phase inside update_cb.                                        *)
(*                                                                         *)
(* Queued websocket messages are sent lazily: wslay_event_send() pushes as *)
(* much as the socket takes, and a fragmented sample message pulls its     *)
(* bytes out of the stream object at that moment, possibly long after it   *)
(* was queued.  `sending' is the connection whose wslay_event_send() is on *)
(* the stack; nothing else runs until it would block.                      *)
(*                                                                         *)
(* The lists `streams' and `closing_streams' are modelled as sets: their   *)
(* order is not.  So are the boolean fields of struct gputop_perf_stream   *)
(* (flushing is the set of streams whose user.flushing is true).           *)
(***************************************************************************)
EXTENDS Naturals, Sequences

CONSTANTS
    Streams,    \* stream objects; a freed one may be allocated again
    Conns,      \* websocket connections; a closed one may be opened again
    Ids,        \* the stream ids clients choose; 0 is reserved for closed
    NoConn,     \* NULL for a connection pointer
    NoStream,   \* NULL for a stream pointer
    MaxQueue    \* bound: nothing is asked of the server beyond this queue length

ASSUME ServerAssumption ==
    /\ NoConn \notin Conns
    /\ NoStream \notin Streams
    /\ Ids \subseteq Nat \ {0}
    /\ MaxQueue \in Nat

VARIABLES
    phase,           \* the phase of the libuv loop
    update_idle,     \* the idle handle is started
    timer,           \* the 200ms timer is started
    todo,            \* streams update_streams() has still to visit
    closeBatch,      \* streams whose uv_close callback this closing phase runs
    h2o_conn,        \* the connection samples are forwarded to
    open,            \* connections that are up
    queue,           \* per connection: the wslay send queue
    sending,         \* the connection inside wslay_event_send(), or NoConn
    streams,         \* the list of streams
    closing_streams, \* the list of streams whose close was requested
    info,            \* per stream: type, user.id and (history) who opened it
    live,            \* live_updates
    flushing,        \* user.flushing
    pending_close,   \* pending_close
    user_data,       \* user.data keeps the uuid of a close request
    uv_closing,      \* n_closing_uv_handles = 1
    notify,          \* on_close_cb = stream_closed_notify_cb
    fault            \* what ended the process, or "none"

loopVars == <<update_idle, timer, todo, closeBatch>>
connVars == <<h2o_conn, open>>
listVars == <<streams, closing_streams, info, live, pending_close, user_data>>
closeVars == <<uv_closing, notify>>

vars == <<phase, loopVars, connVars, queue, sending, listVars, flushing,
          closeVars, fault>>

Types == {"perf", "i915", "cpu"}

\* What a freed object holds does not matter.
NoInfo == [type |-> "cpu", id |-> 0, owner |-> NoConn]

\* Stream objects that are allocated: the server lists every one it opens.
Allocated == streams \cup closing_streams

\* A protobuf message about something of connection c.
Pb(c) == [src |-> NoStream, owner |-> c]

\* A fragmented message whose read callback reads from stream s.
Fragmented(s) == [src |-> s, owner |-> info[s].owner]

Init ==
    /\ phase = "timers"
    /\ update_idle = FALSE
    /\ timer = FALSE
    /\ todo = {}
    /\ closeBatch = {}
    /\ h2o_conn = NoConn
    /\ open = {}
    /\ queue = [c \in Conns |-> <<>>]
    /\ sending = NoConn
    /\ streams = {}
    /\ closing_streams = {}
    /\ info = [s \in Streams |-> NoInfo]
    /\ live = {}
    /\ flushing = {}
    /\ pending_close = {}
    /\ user_data = {}
    /\ uv_closing = {}
    /\ notify = {}
    /\ fault = "none"

-----------------------------------------------------------------------------
(***************************************************************************)
(* Helpers shared by the handlers.                                         *)
(***************************************************************************)

\* The thread is in phase p with nothing on the stack.
At(p) == phase = p /\ sending = NoConn /\ fault = "none"

Room(c) == Len(queue[c]) <= MaxQueue

\* send_pb_message() of the messages ms, in order; NULL connections are skipped.
send_pb_message(c, ms) ==
    IF c = NoConn
    THEN UNCHANGED <<queue, sending>>
    ELSE /\ queue' = [queue EXCEPT ![c] = @ \o ms]
         /\ sending' = c

\* gputop_perf_stream_close() of the streams ss.  A second uv_close() of a
\* handle that is closing fails an assertion of libuv.
gputop_perf_stream_close(ss, notified) ==
    IF ss \cap uv_closing # {}
    THEN fault' = "uv_close" /\ UNCHANGED closeVars
    ELSE /\ uv_closing' = uv_closing \cup ss
         /\ notify' = IF notified THEN notify \cup ss ELSE notify \ ss
         /\ UNCHANGED fault

-----------------------------------------------------------------------------
(***************************************************************************)
(* wslay_event_send() on connection `sending'.                             *)
(***************************************************************************)

\* wslay_event_send() is running and has a message to send.
Sends == sending # NoConn /\ fault = "none" /\ queue[sending] # <<>>

\* The stream the first message reads from.
Source == Head(queue[sending]).src

\* A protobuf message leaves the queue.
send_message ==
    /\ Sends
    /\ Source = NoStream
    /\ queue' = [queue EXCEPT ![sending] = Tail(@)]
    /\ UNCHANGED <<phase, loopVars, connVars, sending, listVars, flushing,
                   closeVars, fault>>

\* Mutation: the deferred close at the end of a flush is forgotten.
read_eof_forgets_close ==
    /\ Sends
    /\ Source \in Allocated
    /\ queue' = [queue EXCEPT ![sending] = Tail(@)]
    /\ flushing' = flushing \ {Source}
    /\ UNCHANGED <<phase, loopVars, connVars, sending, listVars, closeVars,
                   fault>>

\* The read callback of a sample message finds no more samples: the message
\* ends, and a close that waited for the flush is started.  A fragment that
\* does not end the message changes nothing that is modelled.
fragmented_read_cb_eof ==
    /\ Sends
    /\ Source \in Allocated
    /\ queue' = [queue EXCEPT ![sending] = Tail(@)]
    /\ flushing' = flushing \ {Source}
    /\ IF Source \in pending_close
       THEN gputop_perf_stream_close({Source}, TRUE)
       ELSE UNCHANGED <<closeVars, fault>>
    /\ UNCHANGED <<phase, loopVars, connVars, sending, listVars>>

\* The read callback runs on a stream object that was freed.
read_freed_stream ==
    /\ Sends
    /\ Source \in Streams \ Allocated
    /\ fault' = "use_after_free"
    /\ UNCHANGED <<phase, loopVars, connVars, queue, sending, listVars,
                   flushing, closeVars>>

\* The socket takes no more, or the queue is empty.
send_would_block ==
    /\ sending # NoConn /\ fault = "none"
    /\ sending' = NoConn
    /\ UNCHANGED <<phase, loopVars, connVars, queue, listVars, flushing,
                   closeVars, fault>>

\* h2o_websocket_proceed(): a write completed (pending) or data was read (poll).
proceed(c) ==
    /\ At("pending") \/ At("poll")
    /\ c \in open
    /\ queue[c] # <<>>
    /\ sending' = c
    /\ UNCHANGED <<phase, loopVars, connVars, queue, listVars, flushing,
                   closeVars, fault>>

-----------------------------------------------------------------------------
(***************************************************************************)
(* Timers, and the update they ask for.                                    *)
(***************************************************************************)

\* queue_update() from a callback; bounded by the queue's length.
queue_update ==
    /\ h2o_conn # NoConn => Room(h2o_conn)
    /\ update_idle' = TRUE

periodic_update_cb ==
    /\ At("timers")
    /\ timer
    /\ queue_update
    /\ phase' = "pending"
    /\ UNCHANGED <<timer, todo, closeBatch, connVars, queue, sending, listVars,
                   flushing, closeVars, fault>>

\* What a change of phase leaves alone.
phaseOnly == UNCHANGED <<loopVars, connVars, queue, sending, listVars, flushing,
                         closeVars, fault>>

timers_done == At("timers") /\ phase' = "pending" /\ phaseOnly

pending_done == At("pending") /\ phase' = "idle" /\ phaseOnly

\* i915_perf_ready_cb(): a live OA stream became readable (in fake mode its
\* timer fired, which libuv runs in the timers phase).
i915_perf_ready_cb(s) ==
    /\ At("poll") \/ At("timers")
    /\ s \in (Allocated \cap live) \ uv_closing
    /\ info[s].type = "i915"
    /\ queue_update
    /\ UNCHANGED <<phase, timer, todo, closeBatch, connVars, queue, sending,
                   listVars, flushing, closeVars, fault>>

idle_nothing == At("idle") /\ ~update_idle /\ phase' = "poll" /\ phaseOnly

\* Mutation: update_streams() walks closing_streams too.
update_cb_all_lists ==
    /\ At("idle")
    /\ update_idle
    /\ update_idle' = FALSE
    /\ phase' = "update"
    /\ todo' = Allocated
    /\ UNCHANGED <<timer, closeBatch, connVars, queue, sending, listVars,
                   flushing, closeVars, fault>>

\* update_cb() stops the idle handle and starts to walk the list of streams.
update_cb ==
    /\ At("idle")
    /\ update_idle
    /\ update_idle' = FALSE
    /\ phase' = "update"
    /\ todo' = streams
    /\ UNCHANGED <<timer, closeBatch, connVars, queue, sending, listVars,
                   flushing, closeVars, fault>>

\* update_streams() finds nothing to send for s: a flush is in progress
\* ("Throttling websocket forwarding"), no data is pending, or the stream is
\* not live (a perf stream's fill notification stops once its buffer is full).
visit_nothing(s) ==
    /\ At("update")
    /\ s \in todo
    /\ s \in live \ flushing => s \notin pending_close
    /\ todo' = todo \ {s}
    /\ UNCHANGED <<phase, update_idle, timer, closeBatch, connVars, queue,
                   sending, listVars, flushing, closeVars, fault>>

\* flush_stream_samples() of a live stream: assert(!pending_close), then
\* flush_perf_stream_samples() or flush_i915_perf_stream_samples() queue one
\* fragmented message on h2o_conn, which they dereference unchecked, and
\* flush_cpu_stats() sends protobuf messages (one stands for them all).
\* (assert(!closed) can only be reached by a stream that is listed: the
\* callback that sets closed, stream_handle_closed_cb(), unlists and frees it)
flush_stream_samples(s) ==
    /\ At("update")
    /\ s \in todo
    /\ s \in live \ flushing
    /\ todo' = todo \ {s}
    /\ IF s \in pending_close
       THEN /\ fault' = "assert_pending_close"
            /\ UNCHANGED <<queue, sending, flushing>>
       ELSE IF info[s].type = "cpu"
       THEN /\ send_pb_message(h2o_conn, <<Pb(info[s].owner)>>)
            /\ UNCHANGED <<flushing, fault>>
       ELSE IF h2o_conn = NoConn
       THEN /\ fault' = "null_conn"
            /\ UNCHANGED <<queue, sending, flushing>>
       ELSE /\ queue' = [queue EXCEPT ![h2o_conn] = Append(@, Fragmented(s))]
            /\ sending' = h2o_conn
            /\ flushing' = flushing \cup {s}
            /\ UNCHANGED fault
    /\ UNCHANGED <<phase, update_idle, timer, closeBatch, connVars, listVars,
                   closeVars>>

\* update_perf_head_pointers() of a stream that is not live: its fill
\* notification.
update_perf_head_pointers(s) ==
    /\ At("update")
    /\ s \in todo \ live
    /\ info[s].type = "perf"
    /\ send_pb_message(h2o_conn, <<Pb(info[s].owner)>>)
    /\ todo' = todo \ {s}
    /\ UNCHANGED <<phase, update_idle, timer, closeBatch, connVars, listVars,
                   flushing, closeVars, fault>>

\* forward_logs(), the last call of update_cb(); the log may be empty.
forward_logs ==
    /\ At("update")
    /\ todo = {}
    /\ \/ send_pb_message(h2o_conn, <<Pb(h2o_conn)>>)
       \/ UNCHANGED <<queue, sending>>
    /\ phase' = "poll"
    /\ UNCHANGED <<loopVars, connVars, listVars, flushing, closeVars, fault>>

-----------------------------------------------------------------------------
(***************************************************************************)
(* Connections and requests, in the poll phase.                            *)
(***************************************************************************)

\* on_connect() starts the timer, on_req() upgrades to a websocket.
on_req(c) ==
    /\ At("poll")
    /\ c \notin open
    /\ open' = open \cup {c}
    /\ h2o_conn' = c
    /\ timer' = TRUE
    /\ UNCHANGED <<phase, update_idle, todo, closeBatch, queue, sending,
                   listVars, flushing, closeVars, fault>>

\* A request of client c that only gets a reply: features, process and
\* tracepoint info, and an open that fails (an ACK for all but OA streams).
handle_get(c) ==
    /\ At("poll")
    /\ c \in open /\ Room(c)
    /\ send_pb_message(c, <<Pb(c)>>)
    /\ UNCHANGED <<phase, loopVars, connVars, listVars, flushing, closeVars,
                   fault>>

\* handle_open_stream(): the stream is listed and the client gets an ACK.  A
\* client never uses the id of a stream it has not seen closed.
handle_open_stream(c, i, t, l) ==
    /\ At("poll")
    /\ c \in open /\ Room(c)
    /\ \A s \in Allocated : info[s].owner = c => info[s].id # i
    /\ \E s \in Streams \ Allocated :
         /\ streams' = streams \cup {s}
         /\ info' = [info EXCEPT ![s] = [type |-> t, id |-> i, owner |-> c]]
         /\ live' = IF l THEN live \cup {s} ELSE live
    /\ send_pb_message(c, <<Pb(c)>>)
    /\ UNCHANGED <<phase, loopVars, connVars, closing_streams, pending_close,
                   user_data, flushing, closeVars, fault>>

\* Mutation: a stream is closed although a flush reads from it.
close_stream_eager(s) ==
    /\ streams' = streams \ {s}
    /\ closing_streams' = closing_streams \cup {s}
    /\ pending_close' = pending_close \cup {s}
    /\ gputop_perf_stream_close({s}, TRUE)

\* close_stream(): the close is deferred to the end of a flush in progress.
close_stream(s) ==
    /\ streams' = streams \ {s}
    /\ closing_streams' = closing_streams \cup {s}
    /\ pending_close' = pending_close \cup {s}
    /\ IF s \in flushing
       THEN UNCHANGED <<closeVars, fault>>
       ELSE gputop_perf_stream_close({s}, TRUE)

\* handle_close_stream(): assert(user.data == NULL), then keep the uuid and
\* close.  An id that is not listed gets no reply at all.
handle_close_stream(c, i) ==
    /\ At("poll")
    /\ c \in open
    /\ h2o_conn # NoConn => Room(h2o_conn)
    /\ \E s \in streams :
         /\ info[s].id = i
         /\ IF s \in user_data
            THEN /\ fault' = "assert_user_data"
                 /\ UNCHANGED <<streams, closing_streams, pending_close,
                                user_data, closeVars>>
            ELSE /\ user_data' = user_data \cup {s}
                 /\ close_stream(s)
    /\ UNCHANGED <<phase, loopVars, connVars, queue, sending, info, live,
                   flushing>>

\* Mutation: a disconnect answers the closes as if the client had asked.
terminate_all_streams_notify == gputop_perf_stream_close(Allocated, TRUE)

\* Mutation: the streams whose close waits for a flush are left out.
terminate_listed_streams == gputop_perf_stream_close(streams, FALSE)

\* Mutation: the walk runs into the list's head and takes it for a stream.
terminate_all_streams_past_end ==
    gputop_perf_stream_close(Allocated \cup {NoStream}, FALSE)

\* terminate_all_streams(): every stream of both lists, whoever opened it,
\* and without waiting for a flush.
terminate_all_streams == gputop_perf_stream_close(Allocated, FALSE)

\* Mutation: h2o_conn keeps pointing at the connection that went away.
on_disconnect_keeps_conn(c) ==
    /\ At("pending") \/ At("poll")
    /\ c \in open
    /\ terminate_all_streams
    /\ open' = open \ {c}
    /\ queue' = [queue EXCEPT ![c] = <<>>]
    /\ info' = [s \in Streams |-> [info[s] EXCEPT !.owner = NoConn]]
    /\ UNCHANGED <<phase, loopVars, h2o_conn, sending, streams,
                   closing_streams, live, pending_close, user_data, flushing>>

\* on_ws_message(conn, NULL): a read failed or the client closed (poll), or a
\* write failed or the close handshake's last write completed (pending).
on_disconnect(c) ==
    /\ At("pending") \/ At("poll")
    /\ c \in open
    /\ h2o_conn' = NoConn
    /\ terminate_all_streams
    /\ open' = open \ {c}
    /\ queue' = [queue EXCEPT ![c] = <<>>]
    /\ info' = [s \in Streams |-> [info[s] EXCEPT !.owner = NoConn]]
    /\ UNCHANGED <<phase, loopVars, sending, streams, closing_streams, live,
                   pending_close, user_data, flushing>>

-----------------------------------------------------------------------------
(***************************************************************************)
(* The closing phase.                                                      *)
(***************************************************************************)

\* libuv takes the handles closed so far; handles closed by a callback of
\* this phase wait for the next iteration.
poll_done ==
    /\ At("poll")
    /\ phase' = "closing"
    /\ closeBatch' = uv_closing
    /\ UNCHANGED <<update_idle, timer, todo, connVars, queue, sending,
                   listVars, flushing, closeVars, fault>>

\* stream_handle_closed_cb() and finish_stream_close(): stream_closed_cb()
\* unlists and frees the stream, stream_closed_notify_cb() first sends the
\* ACK (if a uuid is kept) and the CLOSE_NOTIFY.
stream_handle_closed_cb(s) ==
    /\ At("closing")
    /\ s \in closeBatch
    /\ closeBatch' = closeBatch \ {s}
    /\ LET about == Pb(info[s].owner) IN
         IF s \in notify
         THEN send_pb_message(h2o_conn, IF s \in user_data
                                        THEN <<about, about>> ELSE <<about>>)
         ELSE UNCHANGED <<queue, sending>>
    /\ streams' = streams \ {s}
    /\ closing_streams' = closing_streams \ {s}
    /\ info' = [info EXCEPT ![s] = NoInfo]
    /\ live' = live \ {s}
    /\ flushing' = flushing \ {s}
    /\ pending_close' = pending_close \ {s}
    /\ user_data' = user_data \ {s}
    /\ uv_closing' = uv_closing \ {s}
    /\ notify' = notify \ {s}
    /\ UNCHANGED <<phase, update_idle, timer, todo, connVars, fault>>

closing_done ==
    /\ At("closing")
    /\ closeBatch = {}
    /\ phase' = "timers"
    /\ phaseOnly

-----------------------------------------------------------------------------
wslay_event_send ==
    \/ send_message
    \/ fragmented_read_cb_eof
    \/ read_freed_stream
    \/ send_would_block

loop_phases ==
    \/ periodic_update_cb
    \/ timers_done
    \/ pending_done
    \/ idle_nothing
    \/ update_cb
    \/ forward_logs
    \/ poll_done
    \/ closing_done

stream_callbacks ==
    \E s \in Streams :
       \/ i915_perf_ready_cb(s)
       \/ visit_nothing(s)
       \/ flush_stream_samples(s)
       \/ update_perf_head_pointers(s)
       \/ stream_handle_closed_cb(s)

conn_callbacks ==
    \E c \in Conns :
       \/ proceed(c)
       \/ on_req(c)
       \/ handle_get(c)
       \/ on_disconnect(c)
       \/ \E i \in Ids : handle_close_stream(c, i)
       \/ \E i \in Ids, t \in Types, l \in BOOLEAN :
             handle_open_stream(c, i, t, l)

Next == wslay_event_send \/ loop_phases \/ stream_callbacks \/ conn_callbacks

Spec == Init /\ [][Next]_vars

\* The loop keeps running and handles a bounded number of events per phase,
\* the client keeps reading from its socket, and the samples of a stream are
\* read faster than the kernel produces them (a flush ends).
Fairness ==
    /\ WF_vars(wslay_event_send \/ loop_phases \/ stream_callbacks)
    /\ SF_vars(pending_done)
    /\ SF_vars(poll_done)
    /\ \A c \in Conns : SF_vars(proceed(c))
    /\ SF_vars(send_message)
    /\ SF_vars(fragmented_read_cb_eof)

FairSpec == Spec /\ Fairness

-----------------------------------------------------------------------------
(***************************************************************************)
(* Properties.                                                             *)
(***************************************************************************)

Phases == {"timers", "pending", "idle", "update", "poll", "closing"}

Faults == {"none", "uv_close", "null_conn", "use_after_free",
           "assert_pending_close", "assert_user_data"}

StreamInfo == [type : Types, id : Ids \cup {0}, owner : Conns \cup {NoConn}]

MessageType == [src : Streams \cup {NoStream}, owner : Conns \cup {NoConn}]

\* Every variable has its type.
TypeOK ==
    /\ phase \in Phases
    /\ update_idle \in BOOLEAN
    /\ timer \in BOOLEAN
    /\ todo \subseteq Streams
    /\ closeBatch \subseteq Streams
    /\ h2o_conn \in Conns \cup {NoConn}
    /\ open \subseteq Conns
    /\ queue \in [Conns -> Seq(MessageType)]
    /\ sending \in Conns \cup {NoConn}
    /\ streams \subseteq Streams
    /\ closing_streams \subseteq Streams
    /\ info \in [Streams -> StreamInfo]
    /\ live \subseteq Streams
    /\ flushing \subseteq Streams
    /\ pending_close \subseteq Streams
    /\ user_data \subseteq Streams
    /\ uv_closing \subseteq Streams
    /\ notify \subseteq Streams
    /\ fault \in Faults

\* The assertions of flush_stream_samples() and handle_close_stream() never
\* fail, however many clients open and close streams, come and go: no stream
\* that waits for its close is visited by an update or closed again.
AssertionsHold == fault \notin {"assert_pending_close", "assert_user_data"}

\* h2o_conn never points to a connection that h2o_websocket_close() freed.
ForwardConnIsUp == h2o_conn # NoConn => h2o_conn \in open

\* A read callback is never left with a dangling source: as long as a queued
\* message reads from a stream, the stream is listed, marked as flushing, and
\* nothing has begun to close it (the comment in close_stream()).
FlushReadsLiveStream ==
    \A c \in Conns : \A k \in 1..Len(queue[c]) :
       queue[c][k].src # NoStream =>
          queue[c][k].src \in (Allocated \cap flushing) \ uv_closing

\* No stream is stuck in flushing: unless it is being torn down, a message
\* whose end will clear the flag is queued on a connection that is up.  A
\* stream without one would never be forwarded, or closed, again.
FlushHasMessage ==
    \A s \in flushing \ uv_closing :
       fault = "none" =>
         \E c \in open : \E k \in 1..Len(queue[c]) : queue[c][k].src = s

\* What a connection is sent is about its own requests and streams, also when
\* a client reconnects while the streams of the previous connection close.
MessagesReachOwner ==
    \A c \in Conns : \A k \in 1..Len(queue[c]) : queue[c][k].owner = c

\* A close request is carried out, even if it had to wait for a flush (or the
\* process died): close_stream() and the end of the read callbacks.
CloseCompletes ==
    \A s \in Streams :
       s \in pending_close ~> (s \notin Allocated \/ fault # "none")

\* The comment in close_stream(): being moved away from `streams', a stream
\* that is being closed is not forwarded any more.
UpdateSkipsClosing == todo \cap uv_closing = {}

\* The comments of gputop_perf_stream_close() and finish_stream_close(): the
\* libuv handles are closed, by uv_close(), and then the stream is finished;
\* no handle is closed a second time.  The model refutes it (README, section 3).
UvHandlesClosedOnce == fault # "uv_close"

-----------------------------------------------------------------------------
(***************************************************************************)
(* Inductive invariants: what makes the properties above true.             *)
(***************************************************************************)

\* A stream is in one list at a time; only those in closing_streams were asked
\* to close; an update visits listed streams only.
ListInv ==
    /\ streams \cap closing_streams = {}
    /\ pending_close \cup user_data \subseteq closing_streams
    /\ todo \subseteq streams
    /\ todo # {} => phase = "update"
    /\ AssertionsHold

\* With one client, what is queued or being sent is for the connection that
\* samples are forwarded to.
ConnInv ==
    /\ ForwardConnIsUp
    /\ open \subseteq {h2o_conn}
    /\ \A c \in Conns : queue[c] # <<>> => c \in open
    /\ sending # NoConn => sending \in open

\* A stream that closes while it is still in `streams' was terminated by a
\* disconnect, and its object is gone before the next iteration.
CloseInv ==
    /\ uv_closing \cup flushing \subseteq Allocated
    /\ closeBatch \subseteq uv_closing
    /\ \A s \in streams \cap uv_closing :
          /\ phase # "timers"
          /\ phase \in {"pending", "idle", "update"} => h2o_conn = NoConn
          /\ phase = "closing" => s \in closeBatch

\* The streams that are not closing, and those whose close will be answered,
\* belong to the connection that is up.
OwnerInv ==
    /\ \A s \in (Allocated \ uv_closing) \cup (notify \cap uv_closing) :
          info[s].owner = h2o_conn
    /\ h2o_conn = NoConn /\ fault = "none" =>
          Allocated \subseteq uv_closing \ notify

\* At most one queued message reads from a stream.
OneReader ==
    \A c \in Conns : \A j, k \in 1..Len(queue[c]) :
       queue[c][j].src # NoStream /\ queue[c][j].src = queue[c][k].src => j = k

QueueInv ==
    OneReader /\ FlushReadsLiveStream /\ FlushHasMessage /\ MessagesReachOwner

\* The inductive invariant of a server with one client: a disconnect may leave
\* closing streams in `streams', and every message queued afterwards, by an
\* update, the end of a flush or a close, still finds its stream and its owner.
OneClientInv == ListInv /\ ConnInv /\ CloseInv /\ OwnerInv /\ QueueInv
=============================================================================
