---------------------------- MODULE ClientContext ----------------------------
(***************************************************************************)
(* The streams and tracepoints a client keeps: lib/gputop-client-          *)
(* context.c, driven by the user interface (ui/gputop-ui-main.cpp) over    *)
(* the connections of ui/gputop-soup-network.c.                            *)
(*                                                                         *)
(* A client has one context and at most one connection it sends to, but a  *)
(* connection it has left lives on until its closed callback, and its      *)
(* messages still reach the context.  Streams are nodes of an intrusive    *)
(* doubly linked list, modelled by its pointers; a tracepoint is its       *)
(* address, which is also the uuid of its requests.                        *)
(*                                                                         *)
(* Callbacks and the user's clicks run one at a time in the main loop: each *)
(* is one action.  The server is external: per connection it answers       *)
(* requests in order and sends data for the streams that are open.         *)
(***************************************************************************)
EXTENDS Integers, Sequences, FiniteSets, SequencesExt

CONSTANTS
    Names,      \* names of tracepoints
    Addrs,      \* addresses calloc() returns for tracepoints
    NCpus,      \* features->n_cpus
    None,       \* NULL
    NConns,     \* bound: connections made
    MaxId,      \* bound: stream ids used in a session
    MaxClicks,  \* bound: what the user does, reconnecting apart
    MaxDown     \* bound: messages on their way before the server sends data

ASSUME ClientAssumption ==
    /\ None \notin Names \cup Addrs \cup Nat
    /\ {NCpus, NConns, MaxId, MaxClicks, MaxDown} \subseteq Nat
    /\ IsFiniteSet(Addrs) /\ {"streams", "oa_stream", "cpu_stats_stream"} \cap Addrs = {}
    /\ None \notin Addrs \X Nat /\ None \notin {"streams", "oa_stream", "cpu_stats_stream"} \X Nat
    /\ None \notin [name : Names, has_fields : BOOLEAN]

Conns == 1..NConns

ListHead == <<"streams", 0>>
Oa == <<"oa_stream", 0>>
Cpu == <<"cpu_stats_stream", 0>>
TpStreams == Addrs \X (0..NCpus - 1)
Streams == {Oa, Cpu} \cup TpStreams
Nodes == {ListHead} \cup Streams

VARIABLES
    ctx,        \* struct gputop_client_context, and what it sends
    connection, \* ctx->connection
    session,    \* the UI's context.connection: the last one that was ready
    status,     \* per connection
    up, down,   \* per connection: requests and messages on their way
    server,     \* per connection: the streams the server has
    fate,       \* "runs", or how the client ended
    clicks,     \* (bound) what the user did
    past        \* (history) what happened in this session

vars == <<ctx, connection, session, status, up, down, server, fate, clicks, past>>

-----------------------------------------------------------------------------
(* Requests and the list of streams *)

\* send_pb_message(): what a handler sends is put on the connection when the
\* handler is done (Sends)
send(c, m) == [c EXCEPT !.out = Append(@, m)]

list_inithead(c) == [c EXCEPT !.next[ListHead] = ListHead, !.prev[ListHead] = ListHead]

list_add(c, s) ==
    LET first == c.next[ListHead] IN
    [c EXCEPT !.prev = [[@ EXCEPT ![s] = ListHead] EXCEPT ![first] = s],
              !.next = [[@ EXCEPT ![s] = first] EXCEPT ![ListHead] = s]]

list_del(c, s) ==
    LET p == c.prev[s]
        n == c.next[s]
    IN  [c EXCEPT !.next = [[@ EXCEPT ![p] = n] EXCEPT ![s] = None],
                  !.prev = [[@ EXCEPT ![n] = p] EXCEPT ![s] = None]]

is_stream_opened(c, s) == c.id[s] # 0

\* (mutant) The next id is not counted
open_stream_same_id(c, s) ==
    send(list_add([c EXCEPT !.id[s] = c.stream_id], s),
         [req |-> "open", id |-> c.stream_id, stream |-> s])

open_stream(c, s) ==
    send(list_add([c EXCEPT !.id[s] = c.stream_id, !.stream_id = @ + 1], s),
         [req |-> "open", id |-> c.stream_id, stream |-> s])

\* (mutant) The request is not sent
close_stream_silent(c, s) ==
    IF ~is_stream_opened(c, s) THEN c ELSE [list_del(c, s) EXCEPT !.id[s] = 0]

close_stream(c, s) ==
    IF ~is_stream_opened(c, s) THEN c
    ELSE [list_del(send(c, [req |-> "close", id |-> c.id[s]]), s)
            EXCEPT !.id[s] = 0]

\* The nodes list_for_each_entry() meets, in order, as far as it takes to
\* return to the head or to be in a loop
Walk(c) ==
    LET at[k \in 0..Cardinality(Nodes)] ==
            IF k = 0 THEN c.next[ListHead]
            ELSE IF at[k - 1] \in {ListHead, None} THEN at[k - 1]
            ELSE c.next[at[k - 1]]
    IN  at

WalkEnds(c) == Walk(c)[Cardinality(Nodes)] = ListHead

\* find_stream(): NULL and found are alike to what is modelled; it may also
\* never return
FindReturns(c, id) ==
    \/ WalkEnds(c)
    \/ \E k \in DOMAIN Walk(c) :
          /\ \A j \in 0..k : Walk(c)[j] \notin {ListHead, None}
          /\ c.id[Walk(c)[k]] = id

-----------------------------------------------------------------------------
(* Tracepoints *)

Live(c, a) == c.tps[a] # None

OpenTpStreams(c) == {s \in TpStreams : is_stream_opened(c, s)}

\* (mutant) The ids stay in the table
close_perf_tracepoint_only(c, a) ==
    FoldLeft(LAMBDA d, i : close_stream(d, <<a, NCpus - i>>), c,
             [i \in 1..NCpus |-> i])

\* The loop of close_perf_tracepoint() for one stream
close_cpu_stream(c, s) ==
    IF ~is_stream_opened(c, s) THEN c
    ELSE close_stream([c EXCEPT !.table[c.id[s]] = None], s)

\* list_add() puts the stream of the last CPU first in tp->streams
close_perf_tracepoint(c, a) ==
    LET closed[i \in 0..NCpus] ==
            IF i = 0 THEN c ELSE close_cpu_stream(closed[i - 1], <<a, NCpus - i>>)
    IN  closed[NCpus]

\* The loop of open_perf_tracepoint() for one CPU
open_cpu_stream(c, s) == [open_stream(c, s) EXCEPT !.table[c.stream_id] = s]

open_perf_tracepoint(c, a) ==
    LET opened[i \in 0..NCpus] ==
            IF i = 0 THEN close_perf_tracepoint(c, a)
            ELSE open_cpu_stream(opened[i - 1], <<a, i - 1>>)
    IN  opened[NCpus]

close_perf_tracepoints_streams(c) ==
    LET closed[i \in 0..Len(c.perf_tracepoints)] ==
            IF i = 0 THEN c ELSE close_perf_tracepoint(closed[i - 1], c.perf_tracepoints[i])
    IN  closed[Len(c.perf_tracepoints)]

open_perf_tracepoints_streams(c) ==
    LET opened[i \in 0..Len(c.perf_tracepoints)] ==
            IF i = 0 THEN c ELSE open_perf_tracepoint(opened[i - 1], c.perf_tracepoints[i])
    IN  opened[Len(c.perf_tracepoints)]

\* gputop_client_context_remove_tracepoint(): the tables keep their entries,
\* and the tracepoint's data stays in perf_tracepoints_data
remove_tracepoint(c, a) ==
    LET d == close_perf_tracepoint(c, a)
        at == CHOOSE i \in DOMAIN d.perf_tracepoints : d.perf_tracepoints[i] = a
    IN  [d EXCEPT !.tps[a] = None, !.perf_tracepoints = RemoveAt(@, at)]

\* ... for every tracepoint
remove_tracepoints(c) ==
    LET removed[i \in 0..Len(c.perf_tracepoints)] ==
            IF i = 0 THEN c ELSE remove_tracepoint(removed[i - 1], c.perf_tracepoints[i])
    IN  removed[Len(c.perf_tracepoints)]

\* data->tp_link is unlinked from tp->data: of a freed tracepoint if one was
\* removed while it had data
clear_perf_tracepoints_data(c) == [c EXCEPT !.data = {}]

DanglingData(c) == {a \in c.data : ~Live(c, a)}

-----------------------------------------------------------------------------
(* Sampling *)

stop_sampling(c) ==
    IF ~c.is_sampling THEN c
    ELSE [close_perf_tracepoints_streams(close_stream(c, Oa))
            EXCEPT !.is_sampling = FALSE]

start_sampling(c) ==
    LET d == clear_perf_tracepoints_data(open_stream(stop_sampling(c), Oa))
    IN  [open_perf_tracepoints_streams(d) EXCEPT !.is_sampling = TRUE]

open_cpu_stats_stream(c) == open_stream(c, Cpu)

\* (mutant) The stream that is open is not closed
update_cpu_stream_again(c) == open_cpu_stats_stream(c)

\* gputop_client_context_update_cpu_stream()
update_cpu_stream(c) == open_cpu_stats_stream(close_stream(c, Cpu))

\* gputop_client_context_reset(): oa_stream and is_sampling stay as they are
EmptyStreams(c) == IF is_stream_opened(c, Cpu) THEN list_inithead(c) ELSE c

StreamsEmptied(c) == EmptyStreams(c).next[ListHead] = ListHead

\* (mutant) The data of the tracepoints is kept
reset_keeps_data(c) ==
    LET d == [EmptyStreams(c)
                EXCEPT !.features = FALSE, !.metric_set = FALSE,
                       !.names = [n \in Names |-> None], !.uuids = {}]
    IN  remove_tracepoints(d)

\* ... up to ctx->connection = connection, and from there
reset_tracepoints(c) ==
    LET d == [clear_perf_tracepoints_data(EmptyStreams(c))
                EXCEPT !.features = FALSE, !.metric_set = FALSE,
                       !.names = [n \in Names |-> None], !.uuids = {}]
    IN  remove_tracepoints(d)

reset_connection(c) ==
    open_cpu_stats_stream(
        send([c EXCEPT !.stream_id = 1], [req |-> "features"]))

-----------------------------------------------------------------------------
(* The connections of gputop-soup-network.c *)

\* gputop_connection_send() drops what is sent before the connection is
\* ready; a connection that is lost or closing delivers nothing more
Deliver(q, k, msgs) ==
    IF k # None /\ status[k] = "open" THEN [q EXCEPT ![k] = @ \o msgs] ELSE q

\* The handler left the context as c
Becomes(c) ==
    /\ ctx' = [c EXCEPT !.out = <<>>]
    /\ up' = Deliver(up, connection, c.out)

\* gputop_connection_close(), a no-op on a connection that is lost
Closed(st, k) ==
    [st EXCEPT ![k] = CASE @ = "connecting" -> "cancelled"
                        [] @ = "open" -> "closing"
                        [] OTHER -> @]

\* reconnect() of the UI; gputop_connect() returns a connection at once
reconnect ==
    \E k \in Conns :
        /\ status[k] = "none" /\ \A j \in 1..k - 1 : status[j] # "none"
        /\ status' = [IF connection # None THEN Closed(status, connection)
                      ELSE status EXCEPT ![k] = "connecting"]
        /\ connection' = k
        /\ UNCHANGED <<ctx, session, up, down, server, fate, clicks, past>>

\* on_websocket_ready() without an error, and on_connection_ready() with
\* the whole of gputop_client_context_reset()
on_connection_ready ==
    \E k \in Conns :
        /\ status[k] = "connecting"
        /\ status' = [status EXCEPT ![k] = "open"]
        /\ session' = k
        /\ UNCHANGED <<down, server, clicks>>
        /\ IF ~StreamsEmptied(ctx) \/ ~WalkEnds(EmptyStreams(ctx))
           THEN /\ fate' = IF WalkEnds(EmptyStreams(ctx)) THEN "aborted" ELSE "hangs"
                /\ UNCHANGED <<ctx, connection, up, past>>
           ELSE LET c == reset_tracepoints(ctx)
                    d == reset_connection([c EXCEPT !.out = <<>>])
                    closes == IF connection # None /\ status'[connection] = "open"
                              THEN [up EXCEPT ![connection] = @ \o c.out] ELSE up
                IN  /\ fate' \in IF DanglingData(ctx) = {} THEN {"runs"}
                                 ELSE {"runs", "corrupt"}
                    /\ ctx' = [d EXCEPT !.out = <<>>]
                    /\ up' = [closes EXCEPT ![k] = @ \o d.out]
                    /\ connection' = k
                    /\ past' =
                         (IF fate' = "corrupt" THEN past ELSE {})
                         \cup (IF is_stream_opened(ctx, Oa) THEN {"stale"} ELSE {})
                         \cup (IF \/ OpenTpStreams(ctx) # {}
                                  \/ "nuked" \in past /\ is_stream_opened(ctx, Oa)
                               THEN {"nuked"} ELSE {})

\* on_connection_closed(): of any connection, also one left before.  The
\* callback of a connection that failed or was cancelled comes from
\* on_websocket_ready(); then the connection is freed
on_connection_closed ==
    \E k \in Conns :
        /\ status[k] \in {"connecting", "cancelled", "closing", "lost"}
        /\ status' = [status EXCEPT ![k] = "gone"]
        /\ connection' = None
        /\ up' = [up EXCEPT ![k] = <<>>]
        /\ down' = [down EXCEPT ![k] = <<>>]
        /\ server' = [server EXCEPT ![k] = {}]
        /\ past' = IF session # None /\ status'[session] = "open"
                   THEN past \cup {"cut"} ELSE past
        /\ UNCHANGED <<ctx, session, fate, clicks>>

-----------------------------------------------------------------------------
(* on_connection_data(), whatever the connection: one action per message *)

Receive(k, m) ==
    /\ status[k] \in {"open", "closing"}
    /\ down[k] # <<>>
    /\ m = down[k][1]
    /\ down' = [down EXCEPT ![k] = Tail(@)]
    /\ past' = IF k = session THEN past ELSE past \cup {"mixed"}
    /\ UNCHANGED <<connection, session, status, server, clicks>>

HandleFeatures(k) ==
    /\ Receive(k, [msg |-> "features"])
    /\ Becomes([ctx EXCEPT !.features = TRUE])
    /\ UNCHANGED fate

\* update_tracepoint() of the tracepoint the uuid table has; it asserts that
\* the tracepoint has no fields yet, and it has none if its format does not parse
HandleTracepointInfo(k, a) ==
    /\ Receive(k, [msg |-> "info", uuid |-> a])
    /\ UNCHANGED up
    /\ CASE a \notin ctx.uuids -> UNCHANGED <<ctx, fate>>
         [] a \in ctx.uuids /\ ~Live(ctx, a) ->
                fate' \in {"runs", "corrupt"} /\ UNCHANGED ctx
         [] a \in ctx.uuids /\ Live(ctx, a) ->
                IF ctx.tps[a].has_fields
                THEN fate' = "aborted" /\ UNCHANGED ctx
                ELSE /\ \E parses \in BOOLEAN :
                          ctx' = [ctx EXCEPT !.tps[a].has_fields = parses]
                     /\ UNCHANGED fate

\* handle_perf_data(): the tracepoint's data is kept, and data out of the
\* window is dropped
HandlePerfData(k, id) ==
    /\ Receive(k, [msg |-> "data", id |-> id])
    /\ UNCHANGED up
    /\ IF ctx.table[id] = None THEN UNCHANGED <<ctx, fate>>
       ELSE \E kept \in SUBSET ctx.data :
              /\ ctx' = [ctx EXCEPT !.data = kept \cup {ctx.table[id][1]}]
              /\ fate' \in IF DanglingData(ctx) \subseteq kept THEN {"runs"}
                           ELSE {"runs", "corrupt"}

\* CLOSE_NOTIFY and FILL_NOTIFY look for their stream
HandleNotify(k, id) ==
    /\ Receive(k, [msg |-> "notify", id |-> id])
    /\ fate' = IF FindReturns(ctx, id) THEN "runs" ELSE "hangs"
    /\ UNCHANGED <<ctx, up>>

-----------------------------------------------------------------------------
(* The user *)

Clicks ==
    /\ clicks < MaxClicks
    /\ clicks' = clicks + 1
    /\ UNCHANGED <<connection, session, status, down, server>>

Room(n) == ctx.stream_id + n <= MaxId + 1

\* StartStopSamplingButton() and toggle_start_stop_sampling()
toggle_start_stop_sampling ==
    /\ ctx.metric_set
    /\ IF ctx.is_sampling THEN Becomes(stop_sampling(ctx))
       ELSE Room(1 + NCpus * Len(ctx.perf_tracepoints)) /\ Becomes(start_sampling(ctx))
    /\ fate' \in IF ctx.is_sampling \/ DanglingData(ctx) = {} THEN {"runs"}
                 ELSE {"runs", "corrupt"}
    /\ Clicks /\ UNCHANGED past

\* A metric set is picked, and maybe_restart_sampling() runs
select_metric_set ==
    /\ ctx.features
    /\ LET c == [ctx EXCEPT !.metric_set = TRUE] IN
       IF c.is_sampling
       THEN /\ Room(1 + NCpus * Len(ctx.perf_tracepoints))
            /\ Becomes(start_sampling(stop_sampling(c)))
       ELSE Becomes(c)
    /\ fate' \in IF ~ctx.is_sampling \/ DanglingData(ctx) = {} THEN {"runs"}
                 ELSE {"runs", "corrupt"}
    /\ Clicks /\ UNCHANGED past

\* "CPU sampling period (ms)" is changed
select_cpu_period ==
    /\ Room(1)
    /\ Becomes(update_cpu_stream(ctx))
    /\ past' = IF session = None THEN past \cup {"early"} ELSE past
    /\ Clicks /\ UNCHANGED fate

\* gputop_client_context_add_tracepoint(): the key of the name table is
\* the tracepoint's own name, read from freed memory if it was removed
add_tracepoint(n) ==
    /\ ctx.features \/ connection # None
    /\ \A a \in Addrs : ctx.names[n] = a /\ Live(ctx, a) => ctx.tps[a].name # n
    /\ \E a \in Addrs :
         /\ ~Live(ctx, a)
         /\ Becomes(send([ctx EXCEPT !.tps[a] = [name |-> n, has_fields |-> FALSE],
                                     !.perf_tracepoints = Append(@, a),
                                     !.names[n] = a,
                                     !.uuids = @ \cup {a}],
                         [req |-> "info", uuid |-> a]))
    /\ Clicks /\ UNCHANGED <<fate, past>>

\* A selected tracepoint is clicked on
select_remove_tracepoint ==
    \E a \in Addrs :
        /\ Live(ctx, a)
        /\ Becomes(remove_tracepoint(ctx, a))
        /\ past' = past \cup {"removed"}
        /\ Clicks /\ UNCHANGED fate

-----------------------------------------------------------------------------
(* The server, as the client uses it *)

Answer(k, m) == down' = [down EXCEPT ![k] = Append(@, m)]

ServerStep(k) ==
    /\ status[k] \in {"open", "closing"}
    /\ UNCHANGED <<ctx, connection, session, status, fate, clicks, past>>

ServerRequest(k) ==
    /\ ServerStep(k)
    /\ up[k] # <<>>
    /\ up' = [up EXCEPT ![k] = Tail(@)]
    /\ LET r == up[k][1] IN
       CASE r.req = "features" ->
                Answer(k, [msg |-> "features"]) /\ UNCHANGED server
         [] r.req = "info" ->
                Answer(k, [msg |-> "info", uuid |-> r.uuid]) /\ UNCHANGED server
         [] r.req = "open" ->
                /\ server' = [server EXCEPT ![k] =
                                 @ \cup {[id |-> r.id, stream |-> r.stream]}]
                /\ UNCHANGED down
         [] r.req = "close" ->
                LET closed == {s \in server[k] : s.id = r.id} IN
                /\ server' = [server EXCEPT ![k] = @ \ closed]
                /\ IF closed = {} THEN UNCHANGED down
                   ELSE Answer(k, [msg |-> "notify", id |-> r.id])

ServerData(k) ==
    /\ ServerStep(k)
    /\ Len(down[k]) < MaxDown
    /\ \E s \in server[k] :
         /\ s.stream \in TpStreams
         /\ Answer(k, [msg |-> "data", id |-> s.id])
    /\ UNCHANGED <<up, server>>

ConnectionLost(k) ==
    /\ status[k] = "open"
    /\ status' = [status EXCEPT ![k] = "lost"]
    /\ up' = [up EXCEPT ![k] = <<>>]
    /\ down' = [down EXCEPT ![k] = <<>>]
    /\ server' = [server EXCEPT ![k] = {}]
    /\ UNCHANGED <<ctx, connection, session, fate, clicks, past>>

-----------------------------------------------------------------------------
\* gputop_client_context_init(), of a context that is all zero
Init ==
    /\ ctx = [stream_id |-> 0,
              id |-> [s \in Streams |-> 0],
              next |-> [s \in Nodes |-> IF s = ListHead THEN ListHead ELSE None],
              prev |-> [s \in Nodes |-> IF s = ListHead THEN ListHead ELSE None],
              is_sampling |-> FALSE,
              features |-> FALSE,
              metric_set |-> FALSE,
              perf_tracepoints |-> <<>>,
              tps |-> [a \in Addrs |-> None],
              names |-> [n \in Names |-> None],
              uuids |-> {},
              table |-> [i \in 1..MaxId |-> None],
              data |-> {},
              out |-> <<>>]
    /\ connection = None
    /\ session = None
    /\ status = [k \in Conns |-> "none"]
    /\ up = [k \in Conns |-> <<>>]
    /\ down = [k \in Conns |-> <<>>]
    /\ server = [k \in Conns |-> {}]
    /\ fate = "runs"
    /\ clicks = 0
    /\ past = {}

Next ==
    /\ fate = "runs"
    /\ \/ reconnect
       \/ on_connection_ready
       \/ on_connection_closed
       \/ \E k \in Conns : HandleFeatures(k)
       \/ \E k \in Conns, a \in Addrs : HandleTracepointInfo(k, a)
       \/ \E k \in Conns, i \in 1..MaxId : HandlePerfData(k, i)
       \/ \E k \in Conns, i \in 1..MaxId : HandleNotify(k, i)
       \/ toggle_start_stop_sampling
       \/ select_metric_set
       \/ select_cpu_period
       \/ \E n \in Names : add_tracepoint(n)
       \/ select_remove_tracepoint
       \/ \E k \in Conns : ServerRequest(k)
       \/ \E k \in Conns : ServerData(k)
       \/ \E k \in Conns : ConnectionLost(k)

Spec == Init /\ [][Next]_vars

-----------------------------------------------------------------------------
(* Properties *)

Kinds == {"early", "stale", "nuked", "cut", "mixed", "removed"}

Requests ==
    {[req |-> "features"]}
    \cup [req : {"open"}, id : 0..MaxId, stream : Streams]
    \cup [req : {"close"}, id : 1..MaxId]
    \cup [req : {"info"}, uuid : Addrs]

Messages ==
    {[msg |-> "features"]}
    \cup [msg : {"info"}, uuid : Addrs]
    \cup [msg : {"data", "notify"}, id : 1..MaxId]

\* The context and the connections have the types of their declarations, and
\* a stream that is open has both its links set: list_del() never follows NULL
TypeOK ==
    /\ ctx.stream_id \in 0..MaxId + 1
    /\ ctx.id \in [Streams -> 0..MaxId]
    /\ ctx.next \in [Nodes -> Nodes \cup {None}]
    /\ ctx.prev \in [Nodes -> Nodes \cup {None}]
    /\ ctx.tps \in [Addrs -> [name : Names, has_fields : BOOLEAN] \cup {None}]
    /\ ctx.names \in [Names -> Addrs \cup {None}]
    /\ ctx.uuids \subseteq Addrs /\ ctx.data \subseteq Addrs
    /\ ctx.table \in [1..MaxId -> TpStreams \cup {None}]
    /\ {ctx.is_sampling, ctx.features, ctx.metric_set} \subseteq BOOLEAN
    /\ {connection, session} \subseteq Conns \cup {None}
    /\ \A k \in Conns :
         /\ status[k] \in {"none", "connecting", "cancelled", "open",
                           "closing", "lost", "gone"}
         /\ Range(up[k]) \subseteq Requests
         /\ Range(down[k]) \subseteq Messages
         /\ server[k] \subseteq [id : 0..MaxId, stream : Streams]
    /\ fate \in {"runs", "aborted", "hangs", "corrupt"}
    /\ past \subseteq Kinds
    /\ clicks \in 0..MaxClicks
    /\ \A s \in Streams : is_stream_opened(ctx, s) =>
          ctx.next[s] # None /\ ctx.prev[s] # None

\* What a request makes of the streams that are open, and some requests
Handled(open, r) ==
    IF r.req = "open" THEN open \cup {[id |-> r.id, stream |-> r.stream]}
    ELSE IF r.req = "close" THEN {s \in open : s.id # r.id}
    ELSE open

HandledAll(open, requests) ==
    LET after[i \in 0..Len(requests)] ==
            IF i = 0 THEN open ELSE Handled(after[i - 1], requests[i])
    IN  after[Len(requests)]

\* The streams of this session's connection once the server has handled what
\* is on its way
Settled == HandledAll(server[session], up[session])

Listed == {[id |-> ctx.id[s], stream |-> s] : s \in {t \in Streams : is_stream_opened(ctx, t)}}

InSession == session # None /\ status[session] = "open" /\ fate = "runs"

\* No stream runs on the server that the client has forgotten: what it opened
\* on its connection it lists, or it has sent the close, unless the closing of
\* an older connection took ctx->connection away (on_connection_closed())
NoOrphans == InSession /\ "cut" \notin past => Settled \subseteq Listed

\* A stream the client lists is open on the server or about to be, unless
\* the session began while an OA stream was open: gputop_client_context_reset()
\* keeps its id, and closing it may name a stream of this session
ListedStreamsOpen ==
    InSession /\ past \cap {"cut", "stale"} = {} => Listed \subseteq Settled

\* find_stream() returns for every id a notification can have, unless the
\* session began with streams of tracepoints open: these are then unlinked
\* from a list that has been emptied already
FindStreamEnds == "nuked" \notin past /\ "early" \notin past => WalkEnds(ctx)

\* The table handle_perf_data() looks an id up in has the streams of the
\* tracepoints the client has, all of them and under their ids
TableInStep ==
    {<<i, ctx.table[i]>> : i \in {j \in 1..MaxId : ctx.table[j] # None}} =
    {<<ctx.id[s], s>> : s \in {t \in OpenTpStreams(ctx) : Live(ctx, t[1])}}

\* What ends the process has a cause in this session.  An assertion fails only
\* after a CPU period was chosen before the first connection (a stream with
\* id 0), or when a reply met a reused address: a tracepoint was removed, or
\* the reply came from a connection left before.  Freed memory is used only
\* after a tracepoint was removed; gputop_client_context_reset() frees them
\* safely
EndsOnlyAfter ==
    /\ fate = "aborted" => past \cap {"early", "removed", "mixed"} # {}
    /\ fate = "corrupt" => "removed" \in past
    /\ fate = "hangs" => past \cap {"early", "nuked"} # {}

\* (violated) The assertion of gputop_client_context_reset() on ctx->streams,
\* for every reset that can happen next
ResetFindsNoStream ==
    (\E k \in Conns : status[k] = "connecting") /\ fate = "runs" => StreamsEmptied(ctx)

=============================================================================
