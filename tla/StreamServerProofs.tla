------------------------- MODULE StreamServerProofs -------------------------
(***************************************************************************)
(* Proofs about StreamServer, for any sets of streams, connections and ids *)
(* and any queue bound.                                                    *)
(***************************************************************************)
EXTENDS StreamServer, TLAPS

-----------------------------------------------------------------------------
(***************************************************************************)
(* Records and queues.                                                     *)
(***************************************************************************)

\* The values the handlers build have their types.
LEMMA ValueTypes ==
    /\ NoInfo \in StreamInfo
    /\ \A c \in Conns \cup {NoConn} :
          /\ Pb(c) \in MessageType
          /\ <<Pb(c)>> \in Seq(MessageType)
          /\ <<Pb(c), Pb(c)>> \in Seq(MessageType)
BY DEF NoInfo, Pb, StreamInfo, MessageType, Types

\* A message about stream s is typed, whether sent or pulled from the stream.
LEMMA AboutTypes ==
    ASSUME TypeOK, NEW s \in Streams
    PROVE  /\ info[s].owner \in Conns \cup {NoConn}
           /\ Fragmented(s) \in MessageType
BY DEF TypeOK, StreamInfo, Fragmented, MessageType

\* send_pb_message() keeps the types of what it changes.
LEMMA SendTypes ==
    ASSUME TypeOK, NEW c \in Conns \cup {NoConn},
           NEW ms \in Seq(MessageType), send_pb_message(c, ms)
    PROVE  /\ queue' \in [Conns -> Seq(MessageType)]
           /\ sending' \in Conns \cup {NoConn}
<1>1. CASE c = NoConn
  BY <1>1 DEF send_pb_message, TypeOK
<1>2. CASE c # NoConn
  <2>1. c \in Conns
    BY <1>2
  <2>2. queue[c] \o ms \in Seq(MessageType)
    BY <2>1 DEF TypeOK
  <2>3. queue' = [queue EXCEPT ![c] = queue[c] \o ms] /\ sending' = c
    BY <1>2 DEF send_pb_message
  <2> QED
    BY <2>1, <2>2, <2>3 DEF TypeOK
<1> QED
  BY <1>1, <1>2

\* gputop_perf_stream_close() keeps the types of what it changes.
LEMMA CloseTypes ==
    ASSUME TypeOK, NEW ss \in SUBSET Streams, NEW b \in BOOLEAN,
           gputop_perf_stream_close(ss, b)
    PROVE  /\ uv_closing' \subseteq Streams
           /\ notify' \subseteq Streams
           /\ fault' \in Faults
BY DEF gputop_perf_stream_close, TypeOK, Faults, closeVars

\* Inside wslay_event_send() the first message is well formed.
LEMMA SendsTypes ==
    ASSUME TypeOK, Sends
    PROVE  /\ sending \in Conns
           /\ queue[sending] \in Seq(MessageType)
           /\ Tail(queue[sending]) \in Seq(MessageType)
           /\ Source \in Streams \cup {NoStream}
<1>1. sending \in Conns /\ queue[sending] # <<>>
  BY DEF TypeOK, Sends
<1>2. queue[sending] \in Seq(MessageType)
  BY <1>1 DEF TypeOK
<1>3. Head(queue[sending]) \in MessageType /\ Tail(queue[sending]) \in Seq(MessageType)
  BY <1>1, <1>2
<1> QED
  BY <1>1, <1>2, <1>3 DEF Source, MessageType

-----------------------------------------------------------------------------
(***************************************************************************)
(* Type correctness.                                                       *)
(***************************************************************************)

\* The variables of the server keep their types under every callback.
THEOREM TypeCorrect == Spec => []TypeOK
<1>1. Init => TypeOK
  <2> SUFFICES ASSUME Init PROVE TypeOK
    OBVIOUS
  <2>1. queue \in [Conns -> Seq(MessageType)] /\ info \in [Streams -> StreamInfo]
    BY ValueTypes DEF Init
  <2> QED
    BY <2>1 DEF Init, TypeOK, Phases, Faults
<1>2. TypeOK /\ [Next]_vars => TypeOK'
  <2> SUFFICES ASSUME TypeOK, [Next]_vars PROVE TypeOK'
    OBVIOUS
  <2> USE DEF loopVars, connVars, listVars, closeVars
  <2>1. CASE send_message
    BY <2>1, SendsTypes DEF send_message, TypeOK
  <2>2. CASE fragmented_read_cb_eof
    <3>1. Sends /\ {Source} \subseteq Streams
      BY <2>2, SendsTypes DEF fragmented_read_cb_eof, Allocated, TypeOK
    <3>2. /\ uv_closing' \subseteq Streams
          /\ notify' \subseteq Streams
          /\ fault' \in Faults
      BY <2>2, <3>1, CloseTypes DEF fragmented_read_cb_eof, TypeOK
    <3>3. queue' \in [Conns -> Seq(MessageType)]
      BY <2>2, <3>1, SendsTypes DEF fragmented_read_cb_eof, TypeOK
    <3> QED
      BY <2>2, <3>2, <3>3 DEF fragmented_read_cb_eof, TypeOK
  <2>3. CASE read_freed_stream \/ send_would_block
    BY <2>3 DEF read_freed_stream, send_would_block, TypeOK, Faults
  <2>4. CASE periodic_update_cb \/ timers_done \/ pending_done \/ idle_nothing
             \/ update_cb \/ poll_done \/ closing_done
    BY <2>4 DEF periodic_update_cb, queue_update, timers_done, pending_done,
                idle_nothing, update_cb, poll_done, closing_done, phaseOnly,
                TypeOK, Phases
  <2>5. CASE forward_logs
    <3>1. /\ queue' \in [Conns -> Seq(MessageType)]
          /\ sending' \in Conns \cup {NoConn}
      BY <2>5, ValueTypes, SendTypes DEF forward_logs, TypeOK
    <3> QED
      BY <2>5, <3>1 DEF forward_logs, TypeOK, Phases
  <2>6. ASSUME NEW s \in Streams, i915_perf_ready_cb(s) \/ visit_nothing(s)
        PROVE  TypeOK'
    BY <2>6 DEF i915_perf_ready_cb, queue_update, visit_nothing, TypeOK
  <2>7. ASSUME NEW s \in Streams, flush_stream_samples(s)
        PROVE  TypeOK'
    <3>1. /\ queue' \in [Conns -> Seq(MessageType)]
          /\ sending' \in Conns \cup {NoConn}
      <4>1. CASE UNCHANGED <<queue, sending>>
        BY <4>1 DEF TypeOK
      <4>2. CASE send_pb_message(h2o_conn, <<Pb(info[s].owner)>>)
        <5>1. <<Pb(info[s].owner)>> \in Seq(MessageType)
          BY AboutTypes, ValueTypes
        <5> QED
          BY <4>2, <5>1, SendTypes DEF TypeOK
      <4>3. CASE /\ h2o_conn # NoConn
                 /\ queue' = [queue EXCEPT ![h2o_conn] = Append(@, Fragmented(s))]
                 /\ sending' = h2o_conn
        <5>1. h2o_conn \in Conns
          BY <4>3 DEF TypeOK
        <5>2. Append(queue[h2o_conn], Fragmented(s)) \in Seq(MessageType)
          BY <5>1, AboutTypes DEF TypeOK
        <5> QED
          BY <4>3, <5>1, <5>2 DEF TypeOK
      <4> QED
        BY <2>7, <4>1, <4>2, <4>3 DEF flush_stream_samples
    <3> QED
      BY <2>7, <3>1 DEF flush_stream_samples, TypeOK, Faults
  <2>8. ASSUME NEW s \in Streams, update_perf_head_pointers(s)
        PROVE  TypeOK'
    <3>1. /\ queue' \in [Conns -> Seq(MessageType)]
          /\ sending' \in Conns \cup {NoConn}
      BY <2>8, AboutTypes, ValueTypes, SendTypes
         DEF update_perf_head_pointers, TypeOK
    <3> QED
      BY <2>8, <3>1 DEF update_perf_head_pointers, TypeOK
  <2>9. ASSUME NEW s \in Streams, stream_handle_closed_cb(s)
        PROVE  TypeOK'
    <3> DEFINE about == Pb(info[s].owner)
    <3>1. /\ queue' \in [Conns -> Seq(MessageType)]
          /\ sending' \in Conns \cup {NoConn}
      <4>1. <<about>> \in Seq(MessageType) /\ <<about, about>> \in Seq(MessageType)
        BY AboutTypes, ValueTypes
      <4> HIDE DEF about
      <4> QED
        BY <2>9, <4>1, SendTypes DEF stream_handle_closed_cb, TypeOK, about
    <3>2. info' \in [Streams -> StreamInfo]
      BY <2>9, ValueTypes DEF stream_handle_closed_cb, TypeOK
    <3> QED
      BY <2>9, <3>1, <3>2 DEF stream_handle_closed_cb, TypeOK
  <2>10. ASSUME NEW c \in Conns, proceed(c) \/ on_req(c)
         PROVE  TypeOK'
    BY <2>10 DEF proceed, on_req, TypeOK
  <2>11. ASSUME NEW c \in Conns, handle_get(c)
         PROVE  TypeOK'
    <3>1. /\ queue' \in [Conns -> Seq(MessageType)]
          /\ sending' \in Conns \cup {NoConn}
      BY <2>11, ValueTypes, SendTypes DEF handle_get
    <3> QED
      BY <2>11, <3>1 DEF handle_get, TypeOK
  <2>12. ASSUME NEW c \in Conns, on_disconnect(c)
         PROVE  TypeOK'
    <3>1. /\ uv_closing' \subseteq Streams
          /\ notify' \subseteq Streams
          /\ fault' \in Faults
      BY <2>12, CloseTypes DEF on_disconnect, terminate_all_streams, Allocated,
                               TypeOK
    <3>2. info' \in [Streams -> StreamInfo]
      BY <2>12 DEF on_disconnect, TypeOK, StreamInfo
    <3>3. queue' \in [Conns -> Seq(MessageType)]
      BY <2>12 DEF on_disconnect, TypeOK
    <3> QED
      BY <2>12, <3>1, <3>2, <3>3 DEF on_disconnect, TypeOK
  <2>13. ASSUME NEW c \in Conns, NEW i \in Ids, handle_close_stream(c, i)
         PROVE  TypeOK'
    <3>1. PICK s \in streams :
            IF s \in user_data
            THEN /\ fault' = "assert_user_data"
                 /\ UNCHANGED <<streams, closing_streams, pending_close,
                                user_data, closeVars>>
            ELSE /\ user_data' = user_data \cup {s}
                 /\ close_stream(s)
      BY <2>13 DEF handle_close_stream
    <3>2. {s} \subseteq Streams
      BY DEF TypeOK
    <3>3. /\ uv_closing' \subseteq Streams
          /\ notify' \subseteq Streams
          /\ fault' \in Faults
      BY <3>1, <3>2, CloseTypes DEF close_stream, TypeOK, Faults
    <3> QED
      BY <2>13, <3>1, <3>2, <3>3 DEF handle_close_stream, close_stream, TypeOK
  <2>14. ASSUME NEW c \in Conns, NEW i \in Ids, NEW t \in Types,
                NEW l \in BOOLEAN, handle_open_stream(c, i, t, l)
         PROVE  TypeOK'
    <3>1. /\ queue' \in [Conns -> Seq(MessageType)]
          /\ sending' \in Conns \cup {NoConn}
      BY <2>14, ValueTypes, SendTypes DEF handle_open_stream
    <3>2. [type |-> t, id |-> i, owner |-> c] \in StreamInfo
      BY DEF StreamInfo
    <3>3. /\ info' \in [Streams -> StreamInfo]
          /\ streams' \subseteq Streams
          /\ live' \subseteq Streams
      BY <2>14, <3>2 DEF handle_open_stream, TypeOK
    <3> QED
      BY <2>14, <3>1, <3>3 DEF handle_open_stream, TypeOK
  <2>15. CASE UNCHANGED vars
    BY <2>15 DEF vars, TypeOK
  <2> QED
    BY <2>1, <2>2, <2>3, <2>4, <2>5, <2>6, <2>7, <2>8, <2>9, <2>10, <2>11,
       <2>12, <2>13, <2>14, <2>15
       DEF Next, wslay_event_send, loop_phases, stream_callbacks,
           conn_callbacks
<1> QED
  BY <1>1, <1>2, PTL DEF Spec

-----------------------------------------------------------------------------
(***************************************************************************)
(* Any number of clients.                                                  *)
(***************************************************************************)

\* The two lists stay disjoint, hold what the close flags say they hold, and
\* updates visit `streams' only, whatever clients and connections do.
THEOREM ListsConsistent == Spec => []ListInv
<1>1. Init => ListInv
  BY DEF Init, ListInv, AssertionsHold
<1>2. ListInv /\ [Next]_vars => ListInv'
  <2> SUFFICES ASSUME ListInv, [Next]_vars PROVE ListInv'
    OBVIOUS
  <2> USE DEF loopVars, connVars, listVars, closeVars, ListInv, AssertionsHold
  <2>1. CASE send_message \/ read_freed_stream \/ send_would_block
    BY <2>1 DEF send_message, read_freed_stream, send_would_block
  <2>2. CASE fragmented_read_cb_eof
    BY <2>2 DEF fragmented_read_cb_eof, gputop_perf_stream_close
  <2>3. CASE periodic_update_cb \/ timers_done \/ pending_done \/ idle_nothing
             \/ update_cb \/ poll_done \/ closing_done
    BY <2>3 DEF periodic_update_cb, queue_update, timers_done, pending_done,
                idle_nothing, update_cb, poll_done, closing_done, phaseOnly, At
  <2>4. CASE forward_logs
    BY <2>4 DEF forward_logs
  <2>5. ASSUME NEW s \in Streams,
               i915_perf_ready_cb(s) \/ visit_nothing(s)
                 \/ update_perf_head_pointers(s)
        PROVE  ListInv'
    BY <2>5 DEF i915_perf_ready_cb, visit_nothing, update_perf_head_pointers
  <2>6. ASSUME NEW s \in Streams, flush_stream_samples(s)
        PROVE  ListInv'
    <3>1. s \notin pending_close
      BY <2>6 DEF flush_stream_samples
    <3> QED
      BY <2>6, <3>1 DEF flush_stream_samples, At
  <2>7. ASSUME NEW s \in Streams, stream_handle_closed_cb(s)
        PROVE  ListInv'
    BY <2>7 DEF stream_handle_closed_cb, At
  <2>8. ASSUME NEW c \in Conns, proceed(c) \/ on_req(c) \/ handle_get(c)
        PROVE  ListInv'
    BY <2>8 DEF proceed, on_req, handle_get
  <2>9. ASSUME NEW c \in Conns, on_disconnect(c)
        PROVE  ListInv'
    BY <2>9 DEF on_disconnect, terminate_all_streams, gputop_perf_stream_close
  <2>10. ASSUME NEW c \in Conns, NEW i \in Ids, handle_close_stream(c, i)
         PROVE  ListInv'
    <3>1. todo = {}
      BY <2>10 DEF handle_close_stream, At
    <3>2. PICK s \in streams :
            IF s \in user_data
            THEN /\ fault' = "assert_user_data"
                 /\ UNCHANGED <<streams, closing_streams, pending_close,
                                user_data, closeVars>>
            ELSE /\ user_data' = user_data \cup {s}
                 /\ close_stream(s)
      BY <2>10 DEF handle_close_stream
    <3>3. s \notin user_data
      BY <3>2
    <3> QED
      BY <2>10, <3>1, <3>2, <3>3
         DEF handle_close_stream, close_stream, gputop_perf_stream_close
  <2>11. ASSUME NEW c \in Conns, NEW i \in Ids, NEW t \in Types,
                NEW l \in BOOLEAN, handle_open_stream(c, i, t, l)
         PROVE  ListInv'
    BY <2>11 DEF handle_open_stream, Allocated, At
  <2>12. CASE UNCHANGED vars
    BY <2>12 DEF vars
  <2> QED
    BY <2>1, <2>2, <2>3, <2>4, <2>5, <2>6, <2>7, <2>8, <2>9, <2>10, <2>11,
       <2>12
       DEF Next, wslay_event_send, loop_phases, stream_callbacks,
           conn_callbacks
<1> QED
  BY <1>1, <1>2, PTL DEF Spec

\* assert(!stream->pending_close) in flush_stream_samples() and
\* assert(stream->user.data == NULL) in handle_close_stream() never fail.
THEOREM AssertionsNeverFail == Spec => []AssertionsHold
<1>1. ListInv => AssertionsHold
  BY DEF ListInv
<1> QED
  BY <1>1, ListsConsistent, PTL

\* Only the connection of the latest client is forwarded to, and h2o_conn is
\* cleared before any connection is freed.
THEOREM ForwardConnUp == Spec => []ForwardConnIsUp
<1>1. Init => ForwardConnIsUp
  BY DEF Init, ForwardConnIsUp
<1>2. ForwardConnIsUp /\ [Next]_vars => ForwardConnIsUp'
  <2> SUFFICES ASSUME ForwardConnIsUp, [Next]_vars PROVE ForwardConnIsUp'
    OBVIOUS
  <2> USE DEF connVars, ForwardConnIsUp
  <2>1. CASE wslay_event_send
    <3>1. UNCHANGED connVars
      BY <2>1, Zenon DEF wslay_event_send, send_message, fragmented_read_cb_eof,
                         read_freed_stream, send_would_block
    <3> QED
      BY <3>1
  <2>2. CASE loop_phases
    BY <2>2 DEF loop_phases, periodic_update_cb, timers_done, pending_done,
                idle_nothing, update_cb, forward_logs, poll_done, closing_done,
                phaseOnly
  <2>3. CASE stream_callbacks
    BY <2>3 DEF stream_callbacks, i915_perf_ready_cb, visit_nothing,
                flush_stream_samples, update_perf_head_pointers,
                stream_handle_closed_cb
  <2>4. CASE conn_callbacks
    <3>1. ASSUME NEW c \in Conns, proceed(c) \/ handle_get(c)
          PROVE  ForwardConnIsUp'
      BY <3>1 DEF proceed, handle_get
    <3>2. ASSUME NEW c \in Conns, on_req(c) \/ on_disconnect(c)
          PROVE  ForwardConnIsUp'
      BY <3>2 DEF on_req, on_disconnect
    <3>3. ASSUME NEW c \in Conns, NEW i \in Ids, handle_close_stream(c, i)
          PROVE  ForwardConnIsUp'
      BY <3>3 DEF handle_close_stream
    <3>4. ASSUME NEW c \in Conns, NEW i \in Ids, NEW t \in Types,
                 NEW l \in BOOLEAN, handle_open_stream(c, i, t, l)
          PROVE  ForwardConnIsUp'
      BY <3>4 DEF handle_open_stream
    <3> QED
      BY <2>4, <3>1, <3>2, <3>3, <3>4 DEF conn_callbacks
  <2>5. CASE UNCHANGED vars
    BY <2>5 DEF vars
  <2> QED
    BY <2>1, <2>2, <2>3, <2>4, <2>5 DEF Next
<1> QED
  BY <1>1, <1>2, PTL DEF Spec

\* A stream that closes while it is still listed in `streams' cannot be
\* forwarded: either the server has no connection, or the stream is gone
\* before the next update.
THEOREM ClosesConsistent == Spec => []CloseInv
<1>1. Init => CloseInv
  BY DEF Init, CloseInv, Allocated
<1>2. ListInv /\ CloseInv /\ [Next]_vars => CloseInv'
  <2> SUFFICES ASSUME ListInv, CloseInv, [Next]_vars PROVE CloseInv'
    OBVIOUS
  <2> USE DEF loopVars, connVars, listVars, closeVars, Allocated, CloseInv
  <2>1. CASE send_message \/ read_freed_stream \/ send_would_block
    BY <2>1 DEF send_message, read_freed_stream, send_would_block
  <2>2. CASE fragmented_read_cb_eof
    <3>1. CASE Source \in pending_close
      <4>1. Source \notin streams
        BY <3>1 DEF ListInv
      <4> QED
        BY <2>2, <3>1, <4>1 DEF fragmented_read_cb_eof, gputop_perf_stream_close
    <3>2. CASE Source \notin pending_close
      BY <2>2, <3>2 DEF fragmented_read_cb_eof
    <3> QED
      BY <3>1, <3>2
  <2>3. CASE periodic_update_cb \/ timers_done \/ pending_done \/ idle_nothing
             \/ update_cb
    BY <2>3 DEF periodic_update_cb, queue_update, timers_done, pending_done,
                idle_nothing, update_cb, phaseOnly, At
  <2>4. CASE forward_logs \/ poll_done \/ closing_done
    BY <2>4 DEF forward_logs, poll_done, closing_done, phaseOnly, At
  <2>5. ASSUME NEW s \in Streams,
               i915_perf_ready_cb(s) \/ visit_nothing(s)
                 \/ update_perf_head_pointers(s)
        PROVE  CloseInv'
    BY <2>5 DEF i915_perf_ready_cb, visit_nothing, update_perf_head_pointers
  <2>6. ASSUME NEW s \in Streams, flush_stream_samples(s)
        PROVE  CloseInv'
    <3>1. s \in streams /\ flushing' \subseteq flushing \cup {s}
      BY <2>6 DEF flush_stream_samples, ListInv
    <3> QED
      BY <2>6, <3>1 DEF flush_stream_samples
  <2>7. ASSUME NEW s \in Streams, stream_handle_closed_cb(s)
        PROVE  CloseInv'
    BY <2>7 DEF stream_handle_closed_cb
  <2>8. ASSUME NEW c \in Conns, proceed(c) \/ on_req(c) \/ handle_get(c)
        PROVE  CloseInv'
    BY <2>8 DEF proceed, on_req, handle_get, At
  <2>9. ASSUME NEW c \in Conns, on_disconnect(c)
        PROVE  CloseInv'
    BY <2>9 DEF on_disconnect, terminate_all_streams, gputop_perf_stream_close,
                At
  <2>10. ASSUME NEW c \in Conns, NEW i \in Ids, handle_close_stream(c, i)
         PROVE  CloseInv'
    <3>1. phase = "poll" /\ phase' = "poll" /\ UNCHANGED <<closeBatch, flushing>>
      BY <2>10 DEF handle_close_stream, At
    <3>2. PICK s \in streams :
            IF s \in user_data
            THEN /\ fault' = "assert_user_data"
                 /\ UNCHANGED <<streams, closing_streams, pending_close,
                                user_data, closeVars>>
            ELSE /\ user_data' = user_data \cup {s}
                 /\ close_stream(s)
      BY <2>10 DEF handle_close_stream
    <3>3. /\ Allocated' = Allocated
          /\ uv_closing \subseteq uv_closing'
          /\ uv_closing' \subseteq uv_closing \cup {s}
      BY <3>2 DEF close_stream, gputop_perf_stream_close
    <3> QED
      BY <3>1, <3>3
  <2>11. ASSUME NEW c \in Conns, NEW i \in Ids, NEW t \in Types,
                NEW l \in BOOLEAN, handle_open_stream(c, i, t, l)
         PROVE  CloseInv'
    BY <2>11 DEF handle_open_stream, At
  <2>12. CASE UNCHANGED vars
    BY <2>12 DEF vars
  <2> QED
    BY <2>1, <2>2, <2>3, <2>4, <2>5, <2>6, <2>7, <2>8, <2>9, <2>10, <2>11,
       <2>12
       DEF Next, wslay_event_send, loop_phases, stream_callbacks,
           conn_callbacks
<1> QED
  BY <1>1, <1>2, ListsConsistent, PTL DEF Spec

-----------------------------------------------------------------------------
(***************************************************************************)
(* One client, which may disconnect and connect again.                     *)
(***************************************************************************)

SingleClient == \A c, d \in Conns : c = d

\* send_pb_message() to a connection that is up, or to none, queues nothing
\* for a connection that is down.
LEMMA SendConn ==
    ASSUME TypeOK, ConnInv, NEW c \in open \cup {NoConn},
           NEW ms \in Seq(MessageType), send_pb_message(c, ms)
    PROVE  /\ \A d \in Conns : queue'[d] # <<>> => d \in open
           /\ sending' # NoConn => sending' \in open
BY DEF send_pb_message, TypeOK, ConnInv

\* With one client, messages are queued only for the connection that is up,
\* which is the one h2o_conn points to.
THEOREM ConnConsistent == ASSUME SingleClient PROVE Spec => []ConnInv
<1>1. Init => ConnInv
  BY DEF Init, ConnInv, ForwardConnIsUp
<1>2. TypeOK /\ ConnInv /\ [Next]_vars => ConnInv'
  <2> SUFFICES ASSUME TypeOK, ConnInv, [Next]_vars PROVE ConnInv'
    OBVIOUS
  <2> USE DEF loopVars, connVars
  <2>0. h2o_conn \in open \cup {NoConn}
    BY DEF ConnInv, ForwardConnIsUp
  <2>a. ASSUME UNCHANGED connVars,
               \A d \in Conns : queue'[d] # <<>> => d \in open,
               sending' # NoConn => sending' \in open
        PROVE  ConnInv'
    BY <2>a DEF ConnInv, ForwardConnIsUp
  <2>b. ASSUME UNCHANGED <<connVars, queue>>,
               sending' \in open \cup {NoConn, sending}
        PROVE  ConnInv'
    BY <2>b DEF ConnInv, ForwardConnIsUp
  <2>1. CASE send_message
    <3>1. UNCHANGED <<connVars, sending>>
          /\ queue' = [queue EXCEPT ![sending] = Tail(@)]
          /\ sending \in Conns /\ sending \in open
      BY <2>1, SendsTypes DEF send_message, Sends, ConnInv
    <3> QED
      BY <3>1, <2>a DEF TypeOK, ConnInv
  <2>2. CASE fragmented_read_cb_eof
    <3>1. UNCHANGED <<connVars, sending>>
          /\ queue' = [queue EXCEPT ![sending] = Tail(@)]
          /\ sending \in Conns /\ sending \in open
      BY <2>2, SendsTypes DEF fragmented_read_cb_eof, Sends, ConnInv
    <3> QED
      BY <3>1, <2>a DEF TypeOK, ConnInv
  <2>3. CASE read_freed_stream \/ send_would_block
    BY <2>3, <2>b DEF read_freed_stream, send_would_block
  <2>4. CASE periodic_update_cb \/ timers_done \/ pending_done \/ idle_nothing
             \/ update_cb \/ poll_done \/ closing_done
    BY <2>4, <2>b DEF periodic_update_cb, timers_done, pending_done,
                      idle_nothing, update_cb, poll_done, closing_done, phaseOnly
  <2>5. CASE forward_logs
    <3>1. <<Pb(h2o_conn)>> \in Seq(MessageType)
      BY ValueTypes DEF TypeOK
    <3>2. UNCHANGED connVars /\ (send_pb_message(h2o_conn, <<Pb(h2o_conn)>>)
                                 \/ UNCHANGED <<queue, sending>>)
      BY <2>5 DEF forward_logs
    <3> QED
      BY <3>1, <3>2, <2>0, <2>a, <2>b, SendConn
  <2>6. ASSUME NEW s \in Streams, i915_perf_ready_cb(s) \/ visit_nothing(s)
        PROVE  ConnInv'
    BY <2>6, <2>b DEF i915_perf_ready_cb, visit_nothing
  <2>7. ASSUME NEW s \in Streams, flush_stream_samples(s)
        PROVE  ConnInv'
    <3>1. UNCHANGED connVars
      BY <2>7 DEF flush_stream_samples
    <3>2. CASE UNCHANGED <<queue, sending>>
      BY <3>1, <3>2, <2>b
    <3>3. CASE send_pb_message(h2o_conn, <<Pb(info[s].owner)>>)
      <4>1. <<Pb(info[s].owner)>> \in Seq(MessageType)
        BY AboutTypes, ValueTypes
      <4> QED
        BY <3>1, <3>3, <4>1, <2>0, <2>a, SendConn
    <3>4. CASE /\ h2o_conn # NoConn
               /\ queue' = [queue EXCEPT ![h2o_conn] = Append(@, Fragmented(s))]
               /\ sending' = h2o_conn
      BY <3>1, <3>4, <2>0, <2>a DEF ConnInv, TypeOK
    <3> QED
      BY <2>7, <3>2, <3>3, <3>4 DEF flush_stream_samples
  <2>8. ASSUME NEW s \in Streams, update_perf_head_pointers(s)
        PROVE  ConnInv'
    <3>1. <<Pb(info[s].owner)>> \in Seq(MessageType)
      BY AboutTypes, ValueTypes
    <3> QED
      BY <2>8, <3>1, <2>0, <2>a, SendConn DEF update_perf_head_pointers
  <2>9. ASSUME NEW s \in Streams, stream_handle_closed_cb(s)
        PROVE  ConnInv'
    <3> DEFINE about == Pb(info[s].owner)
    <3>1. <<about>> \in Seq(MessageType) /\ <<about, about>> \in Seq(MessageType)
      BY AboutTypes, ValueTypes
    <3>2. /\ UNCHANGED connVars
          /\ \/ send_pb_message(h2o_conn, <<about>>)
             \/ send_pb_message(h2o_conn, <<about, about>>)
             \/ UNCHANGED <<queue, sending>>
      BY <2>9 DEF stream_handle_closed_cb
    <3> HIDE DEF about
    <3> QED
      BY <3>1, <3>2, <2>0, <2>a, <2>b, SendConn
  <2>10. ASSUME NEW c \in Conns, proceed(c)
         PROVE  ConnInv'
    BY <2>10, <2>b DEF proceed
  <2>11. ASSUME NEW c \in Conns, on_req(c) \/ on_disconnect(c)
         PROVE  ConnInv'
    <3>1. \A d \in Conns : d = c
      BY SingleClient DEF SingleClient
    <3>2. open \subseteq {c} /\ sending = NoConn /\ sending' = NoConn
      BY <2>11, <3>1 DEF on_req, on_disconnect, At, TypeOK
    <3>3. CASE on_req(c)
      BY <3>1, <3>2, <3>3 DEF on_req, ConnInv, ForwardConnIsUp
    <3>4. CASE on_disconnect(c)
      <4>1. /\ queue' = [queue EXCEPT ![c] = <<>>]
            /\ h2o_conn' = NoConn
            /\ open' = open \ {c}
        BY <3>4 DEF on_disconnect
      <4>2. queue'[c] = <<>> /\ open' = {}
        BY <4>1, <3>2 DEF TypeOK
      <4> QED
        BY <3>1, <3>2, <4>1, <4>2 DEF ConnInv, ForwardConnIsUp
    <3> QED
      BY <2>11, <3>3, <3>4
  <2>12. ASSUME NEW c \in Conns, handle_get(c)
         PROVE  ConnInv'
    BY <2>12, <2>a, ValueTypes, SendConn DEF handle_get
  <2>13. ASSUME NEW c \in Conns, NEW i \in Ids, handle_close_stream(c, i)
         PROVE  ConnInv'
    BY <2>13, <2>b DEF handle_close_stream
  <2>14. ASSUME NEW c \in Conns, NEW i \in Ids, NEW t \in Types,
                NEW l \in BOOLEAN, handle_open_stream(c, i, t, l)
         PROVE  ConnInv'
    <3>1. UNCHANGED connVars /\ send_pb_message(c, <<Pb(c)>>) /\ c \in open
      BY <2>14 DEF handle_open_stream
    <3> QED
      BY <3>1, <2>a, ValueTypes, SendConn
  <2>15. CASE UNCHANGED vars
    BY <2>15, <2>b DEF vars
  <2> QED
    BY <2>1, <2>2, <2>3, <2>4, <2>5, <2>6, <2>7, <2>8, <2>9, <2>10, <2>11,
       <2>12, <2>13, <2>14, <2>15
       DEF Next, wslay_event_send, loop_phases, stream_callbacks,
           conn_callbacks
<1> QED
  BY <1>1, <1>2, TypeCorrect, PTL DEF Spec

\* With one client, a stream that is not closing, or whose close will be
\* answered, was opened on the connection that is up now.
THEOREM OwnersConsistent == ASSUME SingleClient PROVE Spec => []OwnerInv
<1>1. Init => OwnerInv
  BY DEF Init, OwnerInv, Allocated
<1>2. TypeOK /\ CloseInv /\ ConnInv /\ OwnerInv /\ [Next]_vars
      => OwnerInv'
  <2> SUFFICES ASSUME TypeOK, CloseInv, ConnInv, OwnerInv, [Next]_vars
               PROVE  OwnerInv'
    OBVIOUS
  <2> USE DEF loopVars, connVars, listVars, closeVars
  <2>a. ASSUME UNCHANGED <<h2o_conn, streams, closing_streams, info, uv_closing,
                           notify>>,
               fault' = "none" => fault = "none"
        PROVE  OwnerInv'
    BY <2>a DEF OwnerInv, Allocated
  <2>b. ASSUME NEW s \in Allocated \ uv_closing,
               UNCHANGED <<h2o_conn, info>>, Allocated' = Allocated,
               fault = "none", h2o_conn # NoConn,
               \/ UNCHANGED closeVars
               \/ gputop_perf_stream_close({s}, TRUE)
        PROVE  OwnerInv'
    BY <2>b DEF OwnerInv, gputop_perf_stream_close
  <2>1. CASE send_message \/ read_freed_stream \/ send_would_block
    BY <2>1, <2>a DEF send_message, read_freed_stream, send_would_block
  <2>2. CASE fragmented_read_cb_eof
    <3>1. CASE Source \in pending_close /\ Source \in uv_closing
      BY <2>2, <2>a, <3>1 DEF fragmented_read_cb_eof, gputop_perf_stream_close
    <3>2. CASE Source \notin pending_close
      BY <2>2, <2>a, <3>2 DEF fragmented_read_cb_eof
    <3>3. CASE Source \in pending_close /\ Source \notin uv_closing
      <4>1. /\ fault = "none" /\ h2o_conn # NoConn
            /\ Source \in Allocated \ uv_closing
            /\ UNCHANGED <<h2o_conn, info>> /\ Allocated' = Allocated
            /\ gputop_perf_stream_close({Source}, TRUE)
        BY <2>2, <3>3 DEF fragmented_read_cb_eof, Sends, ConnInv, Allocated, TypeOK
      <4> QED
        BY <4>1, <2>b
    <3> QED
      BY <3>1, <3>2, <3>3
  <2>3. CASE loop_phases
    BY <2>3, <2>a DEF loop_phases, periodic_update_cb, timers_done,
                      pending_done, idle_nothing, update_cb, forward_logs,
                      poll_done, closing_done, phaseOnly
  <2>4. ASSUME NEW s \in Streams,
               i915_perf_ready_cb(s) \/ visit_nothing(s)
                 \/ update_perf_head_pointers(s)
        PROVE  OwnerInv'
    BY <2>4, <2>a DEF i915_perf_ready_cb, visit_nothing, update_perf_head_pointers
  <2>5. ASSUME NEW s \in Streams, flush_stream_samples(s)
        PROVE  OwnerInv'
    BY <2>5, <2>a DEF flush_stream_samples, At
  <2>6. ASSUME NEW s \in Streams, stream_handle_closed_cb(s)
        PROVE  OwnerInv'
    <3>1. /\ UNCHANGED <<h2o_conn, fault>>
          /\ Allocated' = Allocated \ {s}
          /\ uv_closing' = uv_closing \ {s}
          /\ notify' = notify \ {s}
          /\ \A r \in Streams \ {s} : info'[r] = info[r]
      BY <2>6 DEF stream_handle_closed_cb, Allocated, TypeOK
    <3> QED
      BY <3>1 DEF OwnerInv, Allocated, TypeOK
  <2>7. ASSUME NEW c \in Conns, proceed(c) \/ handle_get(c)
        PROVE  OwnerInv'
    BY <2>7, <2>a DEF proceed, handle_get
  <2>8. ASSUME NEW c \in Conns, on_req(c)
        PROVE  OwnerInv'
    <3>1. h2o_conn = NoConn /\ fault = "none"
      <4>1. c \notin open /\ fault = "none"
        BY <2>8 DEF on_req, At
      <4>2. h2o_conn # NoConn => h2o_conn = c
        BY SingleClient DEF SingleClient, TypeOK
      <4> QED
        BY <4>1, <4>2 DEF ConnInv, ForwardConnIsUp
    <3>2. UNCHANGED <<streams, closing_streams, info, uv_closing, notify>>
          /\ h2o_conn' = c
      BY <2>8 DEF on_req
    <3>3. Allocated' = Allocated
      BY <3>2 DEF Allocated
    <3>4. Allocated \ uv_closing = {} /\ notify \cap uv_closing = {}
      BY <3>1 DEF OwnerInv, CloseInv
    <3>5. c # NoConn
      BY ServerAssumption
    <3> QED
      BY <3>2, <3>3, <3>4, <3>5 DEF OwnerInv
  <2>9. ASSUME NEW c \in Conns, on_disconnect(c)
        PROVE  OwnerInv'
    <3>1. /\ h2o_conn' = NoConn
          /\ info' = [s \in Streams |-> [info[s] EXCEPT !.owner = NoConn]]
          /\ UNCHANGED <<streams, closing_streams>>
          /\ gputop_perf_stream_close(Allocated, FALSE)
      BY <2>9 DEF on_disconnect, terminate_all_streams
    <3>2. \A s \in Streams : info'[s].owner = h2o_conn'
      <4> SUFFICES ASSUME NEW s \in Streams PROVE info'[s].owner = NoConn
        BY <3>1
      <4>1. info'[s] = [info[s] EXCEPT !.owner = NoConn]
        BY <3>1
      <4>2. info[s] \in StreamInfo
        BY DEF TypeOK
      <4> QED
        BY <4>1, <4>2 DEF StreamInfo
    <3>3. Allocated' = Allocated /\ Allocated \subseteq Streams
      BY <3>1 DEF Allocated, TypeOK
    <3>4. fault' = "none" => Allocated \subseteq uv_closing' \ notify'
      BY <3>1 DEF gputop_perf_stream_close
    <3>5. uv_closing' \subseteq Streams
      BY <3>1, <3>3 DEF gputop_perf_stream_close, TypeOK
    <3> QED
      BY <3>2, <3>3, <3>4, <3>5 DEF OwnerInv
  <2>10. ASSUME NEW c \in Conns, NEW i \in Ids, handle_close_stream(c, i)
         PROVE  OwnerInv'
    <3>1. /\ fault = "none" /\ UNCHANGED <<h2o_conn, info>>
          /\ h2o_conn # NoConn
      BY <2>10, ServerAssumption DEF handle_close_stream, At, ConnInv
    <3>2. PICK s \in streams :
            IF s \in user_data
            THEN /\ fault' = "assert_user_data"
                 /\ UNCHANGED <<streams, closing_streams, pending_close,
                                user_data, closeVars>>
            ELSE /\ user_data' = user_data \cup {s}
                 /\ close_stream(s)
      BY <2>10 DEF handle_close_stream
    <3>3. Allocated' = Allocated /\ s \in Allocated
      BY <3>2 DEF close_stream, Allocated
    <3>4. CASE s \notin uv_closing
      <4>1. UNCHANGED closeVars \/ gputop_perf_stream_close({s}, TRUE)
        BY <3>2 DEF close_stream
      <4> QED
        BY <3>1, <3>3, <3>4, <4>1, <2>b
    <3>5. CASE s \in uv_closing
      <4>1. UNCHANGED closeVars
        BY <3>2, <3>5 DEF close_stream, gputop_perf_stream_close
      <4> QED
        BY <3>1, <3>3, <4>1 DEF OwnerInv
    <3> QED
      BY <3>4, <3>5
  <2>11. ASSUME NEW c \in Conns, NEW i \in Ids, NEW t \in Types,
                NEW l \in BOOLEAN, handle_open_stream(c, i, t, l)
         PROVE  OwnerInv'
    <3>1. h2o_conn = c /\ c # NoConn /\ UNCHANGED <<h2o_conn, uv_closing, notify>>
      BY <2>11, ServerAssumption DEF handle_open_stream, ConnInv
    <3>2. PICK s \in Streams \ Allocated :
            /\ streams' = streams \cup {s}
            /\ info' = [info EXCEPT ![s] = [type |-> t, id |-> i, owner |-> c]]
      BY <2>11 DEF handle_open_stream
    <3>3. Allocated' = Allocated \cup {s}
      BY <2>11, <3>2 DEF handle_open_stream, Allocated
    <3>4. /\ info'[s].owner = c
          /\ \A r \in Streams \ {s} : info'[r] = info[r]
      BY <3>2 DEF TypeOK
    <3>5. Allocated \subseteq Streams /\ uv_closing \subseteq Streams
      BY DEF Allocated, TypeOK
    <3> QED
      BY <3>1, <3>3, <3>4, <3>5 DEF OwnerInv
  <2>12. CASE UNCHANGED vars
    BY <2>12, <2>a DEF vars
  <2> QED
    BY <2>1, <2>2, <2>3, <2>4, <2>5, <2>6, <2>7, <2>8, <2>9, <2>10, <2>11,
       <2>12
       DEF Next, wslay_event_send, stream_callbacks, conn_callbacks
<1> QED
  BY <1>1, <1>2, TypeCorrect, ClosesConsistent, ConnConsistent, PTL DEF Spec

-----------------------------------------------------------------------------
(***************************************************************************)
(* The send queues of a server with one client.                            *)
(***************************************************************************)

\* The streams queued messages may read from.
Readable == (Allocated \cap flushing) \ uv_closing

\* The queues keep their messages, and those added are protobuf messages about
\* the connection they are queued on.
QueuePbs ==
    \A d \in Conns :
       /\ \A k \in 1..Len(queue[d]) :
             k \in 1..Len(queue'[d]) /\ queue'[d][k] = queue[d][k]
       /\ \A k \in 1..Len(queue'[d]) :
             k \in 1..Len(queue[d]) \/ queue'[d][k] = Pb(d)

\* The first message of connection c is gone.
QueueTail(c) ==
    /\ \A d \in Conns \ {c} : queue'[d] = queue[d]
    /\ Len(queue'[c]) + 1 = Len(queue[c])
    /\ \A k \in 1..Len(queue'[c]) : queue'[c][k] = queue[c][k + 1]

\* send_pb_message() of protobuf messages about the connection itself.
LEMMA SendPbs ==
    ASSUME TypeOK, NEW c \in Conns \cup {NoConn},
           \/ UNCHANGED queue
           \/ send_pb_message(c, <<Pb(c)>>)
           \/ send_pb_message(c, <<Pb(c), Pb(c)>>)
    PROVE  QueuePbs
<1>1. CASE UNCHANGED queue
  BY <1>1 DEF QueuePbs
<1>2. ASSUME NEW ms \in Seq(MessageType), send_pb_message(c, ms),
             \A j \in 1..Len(ms) : ms[j] = Pb(c)
      PROVE  QueuePbs
  <2>1. CASE c = NoConn
    BY <1>1, <1>2, <2>1 DEF send_pb_message
  <2>2. CASE c \in Conns
    <3>1. queue' = [queue EXCEPT ![c] = queue[c] \o ms]
      BY <1>2, <2>2, ServerAssumption DEF send_pb_message
    <3>2. queue[c] \in Seq(MessageType)
      BY <2>2 DEF TypeOK
    <3>3. /\ queue'[c] = queue[c] \o ms
          /\ \A d \in Conns \ {c} : queue'[d] = queue[d]
      BY <2>2, <3>1 DEF TypeOK
    <3>4. /\ Len(queue[c] \o ms) = Len(queue[c]) + Len(ms)
          /\ \A k \in 1..(Len(queue[c]) + Len(ms)) :
                (queue[c] \o ms)[k] =
                   IF k <= Len(queue[c]) THEN queue[c][k] ELSE ms[k - Len(queue[c])]
      BY <3>2
    <3>5. Len(queue[c]) \in Nat /\ Len(ms) \in Nat
      BY <3>2
    <3> DEFINE q == queue[c] \o ms
    <3>6. \A k \in 1..Len(queue[c]) : k \in 1..Len(q) /\ q[k] = queue[c][k]
      BY <3>4, <3>5
    <3>7. ASSUME NEW k \in 1..Len(q), k \notin 1..Len(queue[c])
          PROVE  q[k] = Pb(c)
      <4>1. k - Len(queue[c]) \in 1..Len(ms) /\ ~(k <= Len(queue[c]))
        BY <3>4, <3>5, <3>7
      <4> QED
        BY <3>4, <3>5, <4>1, <1>2
    <3> QED
      BY <3>3, <3>6, <3>7 DEF QueuePbs
  <2> QED
    BY <2>1, <2>2
<1>3. /\ <<Pb(c)>> \in Seq(MessageType) /\ <<Pb(c), Pb(c)>> \in Seq(MessageType)
      /\ \A j \in 1..Len(<<Pb(c)>>) : <<Pb(c)>>[j] = Pb(c)
      /\ \A j \in 1..Len(<<Pb(c), Pb(c)>>) : <<Pb(c), Pb(c)>>[j] = Pb(c)
  BY ValueTypes
<1> QED
  BY <1>1, <1>2, <1>3

\* Adding protobuf messages keeps the queue invariant, when the streams being
\* read stay readable and no stream starts to flush.
LEMMA PbsKeepQueueInv ==
    ASSUME TypeOK, QueueInv, QueuePbs, open \subseteq open',
           Readable \subseteq Readable',
           flushing' \ uv_closing' \subseteq flushing \ uv_closing,
           fault' = "none" => fault = "none"
    PROVE  QueueInv'
<1>0. ASSUME NEW c \in Conns, NEW k \in 1..Len(queue'[c]),
             queue'[c][k].src # NoStream
      PROVE  k \in 1..Len(queue[c]) /\ queue'[c][k] = queue[c][k]
  <2>1. queue'[c][k] # Pb(c)
    BY <1>0 DEF Pb
  <2> QED
    BY <2>1 DEF QueuePbs
<1>1. OneReader'
  <2> SUFFICES ASSUME NEW c \in Conns, NEW j \in 1..Len(queue'[c]),
                      NEW k \in 1..Len(queue'[c]), queue'[c][j].src # NoStream,
                      queue'[c][j].src = queue'[c][k].src
               PROVE  j = k
    BY DEF OneReader
  <2>1. /\ j \in 1..Len(queue[c]) /\ queue'[c][j] = queue[c][j]
        /\ k \in 1..Len(queue[c]) /\ queue'[c][k] = queue[c][k]
    BY <1>0
  <2> QED
    BY <2>1 DEF QueueInv, OneReader
<1>2. FlushReadsLiveStream'
  <2> SUFFICES ASSUME NEW c \in Conns, NEW k \in 1..Len(queue'[c]),
                      queue'[c][k].src # NoStream
               PROVE  queue'[c][k].src \in Readable'
    BY DEF FlushReadsLiveStream, Readable
  <2>1. k \in 1..Len(queue[c]) /\ queue'[c][k] = queue[c][k]
    BY <1>0
  <2> QED
    BY <2>1 DEF QueueInv, FlushReadsLiveStream, Readable
<1>3. FlushHasMessage'
  <2> SUFFICES ASSUME NEW s \in flushing' \ uv_closing', fault' = "none"
               PROVE  \E c \in open' : \E k \in 1..Len(queue'[c]) :
                         queue'[c][k].src = s
    BY DEF FlushHasMessage
  <2>1. PICK c \in open : \E k \in 1..Len(queue[c]) : queue[c][k].src = s
    BY DEF FlushHasMessage, QueueInv
  <2>2. c \in Conns
    BY DEF TypeOK
  <2> QED
    BY <2>1, <2>2 DEF QueuePbs
<1>4. MessagesReachOwner'
  <2> SUFFICES ASSUME NEW c \in Conns, NEW k \in 1..Len(queue'[c])
               PROVE  queue'[c][k].owner = c
    BY DEF MessagesReachOwner
  <2>1. CASE k \in 1..Len(queue[c])
    BY <2>1 DEF QueueInv, MessagesReachOwner, QueuePbs
  <2>2. CASE queue'[c][k] = Pb(c)
    BY <2>2 DEF Pb
  <2> QED
    BY <2>1, <2>2 DEF QueuePbs
<1> QED
  BY <1>1, <1>2, <1>3, <1>4 DEF QueueInv

\* What wslay_event_send() leaves of the queue when a message is done.
LEMMA SendTail ==
    ASSUME TypeOK, Sends, queue' = [queue EXCEPT ![sending] = Tail(@)]
    PROVE  QueueTail(sending)
<1>1. sending \in Conns /\ queue[sending] \in Seq(MessageType)
      /\ queue[sending] # <<>>
  BY SendsTypes DEF Sends
<1>2. /\ queue'[sending] = Tail(queue[sending])
      /\ \A d \in Conns \ {sending} : queue'[d] = queue[d]
  BY <1>1 DEF TypeOK
<1> DEFINE q == queue[sending]
<1>3. /\ Len(Tail(q)) + 1 = Len(q)
      /\ \A k \in 1..Len(Tail(q)) : Tail(q)[k] = q[k + 1]
  <2> HIDE DEF q
  <2>1. q \in Seq(MessageType) /\ q # <<>>
    BY <1>1 DEF q
  <2> QED
    BY <2>1
<1> QED
  BY <1>2, <1>3 DEF QueueTail

\* Taking the first message keeps the queue invariant, when the streams read
\* by the others stay readable and only its own source stops to flush.
LEMMA TailKeepsQueueInv ==
    ASSUME SingleClient, TypeOK, QueueInv, Sends, QueueTail(sending),
           open' = open, Readable \ {Source} \subseteq Readable',
           flushing' \ uv_closing' \subseteq (flushing \ uv_closing) \ {Source},
           fault' = "none" => fault = "none"
    PROVE  QueueInv'
<1>0. /\ sending \in Conns /\ Len(queue[sending]) \in Nat
      /\ Source = queue[sending][1].src /\ 1 \in 1..Len(queue[sending])
  BY SendsTypes DEF Sends, Source
<1>1. ASSUME NEW c \in Conns, NEW k \in 1..Len(queue'[c])
      PROVE  \E j \in 1..Len(queue[c]) :
                /\ queue'[c][k] = queue[c][j]
                /\ c = sending => j = k + 1
                /\ c # sending => j = k
  <2>1. c = sending
    BY <1>0, SingleClient DEF SingleClient
  <2>2. /\ Len(queue'[c]) + 1 = Len(queue[c])
        /\ queue'[c][k] = queue[c][k + 1]
    BY <1>1, <2>1 DEF QueueTail
  <2>3. k + 1 \in 1..Len(queue[c])
    BY <1>0, <2>1, <2>2
  <2> QED
    BY <2>1, <2>2, <2>3
<1>2. OneReader'
  <2> SUFFICES ASSUME NEW c \in Conns, NEW j \in 1..Len(queue'[c]),
                      NEW k \in 1..Len(queue'[c]), queue'[c][j].src # NoStream,
                      queue'[c][j].src = queue'[c][k].src
               PROVE  j = k
    BY DEF OneReader
  <2>1. PICK m \in 1..Len(queue[c]) : /\ queue'[c][j] = queue[c][m]
                                      /\ c = sending => m = j + 1
                                      /\ c # sending => m = j
    BY <1>1
  <2>2. PICK n \in 1..Len(queue[c]) : /\ queue'[c][k] = queue[c][n]
                                      /\ c = sending => n = k + 1
                                      /\ c # sending => n = k
    BY <1>1
  <2>3. m = n
    BY <2>1, <2>2 DEF QueueInv, OneReader
  <2> QED
    BY <2>1, <2>2, <2>3
<1>3. FlushReadsLiveStream'
  <2> SUFFICES ASSUME NEW c \in Conns, NEW k \in 1..Len(queue'[c]),
                      queue'[c][k].src # NoStream
               PROVE  queue'[c][k].src \in Readable'
    BY DEF FlushReadsLiveStream, Readable
  <2>1. PICK j \in 1..Len(queue[c]) : /\ queue'[c][k] = queue[c][j]
                                      /\ c = sending => j = k + 1
    BY <1>1
  <2>2. queue[c][j].src \in Readable
    BY <2>1 DEF QueueInv, FlushReadsLiveStream, Readable
  <2>3. queue[c][j].src # Source
    <3>1. c = sending
      BY <1>0, SingleClient DEF SingleClient
    <3> QED
      BY <1>0, <2>1, <3>1 DEF QueueInv, OneReader
  <2> QED
    BY <2>1, <2>2, <2>3
<1>4. FlushHasMessage'
  <2> SUFFICES ASSUME NEW s \in flushing' \ uv_closing', fault' = "none"
               PROVE  \E c \in open : \E k \in 1..Len(queue'[c]) :
                         queue'[c][k].src = s
    BY DEF FlushHasMessage
  <2>1. PICK c \in open : \E k \in 1..Len(queue[c]) : queue[c][k].src = s
    BY DEF FlushHasMessage, QueueInv
  <2>2. PICK j \in 1..Len(queue[c]) : queue[c][j].src = s
    BY <2>1
  <2>3. c \in Conns
    BY DEF TypeOK
  <2>4. CASE c # sending
    BY <2>2, <2>3, <2>4 DEF QueueTail
  <2>5. CASE c = sending
    <3>1. j # 1
      BY <1>0, <2>2, <2>5
    <3>2. j - 1 \in 1..Len(queue'[c]) /\ queue'[c][j - 1] = queue[c][j]
      BY <1>0, <2>2, <2>5, <3>1 DEF QueueTail
    <3> QED
      BY <2>2, <3>2
  <2> QED
    BY <2>4, <2>5
<1>5. MessagesReachOwner'
  BY <1>1 DEF MessagesReachOwner, QueueInv
<1> QED
  BY <1>2, <1>3, <1>4, <1>5 DEF QueueInv

\* Queueing the samples of a stream that is not flushing, not closing and owned
\* by the connection keeps the queue invariant.
LEMMA FlushKeepsQueueInv ==
    ASSUME SingleClient, TypeOK, QueueInv, NEW s \in Streams, NEW c \in open,
           queue' = [queue EXCEPT ![c] = Append(@, Fragmented(s))],
           s \in Allocated, s \notin flushing, s \notin uv_closing,
           info[s].owner = c, flushing' = flushing \cup {s},
           UNCHANGED <<open, streams, closing_streams, uv_closing, fault>>
    PROVE  QueueInv'
<1> DEFINE q == queue[c]
<1>0. c \in Conns /\ q \in Seq(MessageType) /\ Fragmented(s) \in MessageType
  BY AboutTypes DEF TypeOK
<1>1. \A d \in Conns : d = c
  BY <1>0, SingleClient DEF SingleClient
<1>2. queue'[c] = Append(q, Fragmented(s))
  BY <1>0 DEF TypeOK
<1>3. /\ Len(q) \in Nat /\ Len(queue'[c]) = Len(q) + 1
      /\ \A k \in 1..Len(q) : queue'[c][k] = q[k]
      /\ queue'[c][Len(q) + 1] = Fragmented(s)
  <2> HIDE DEF q
  <2> QED
    BY <1>0, <1>2
<1>4. \A k \in 1..Len(q) : q[k].src # s
  BY <1>0, ServerAssumption DEF QueueInv, FlushReadsLiveStream
<1>5. Fragmented(s).src = s /\ Fragmented(s).owner = c
  BY DEF Fragmented
<1>6. Allocated' = Allocated
  BY DEF Allocated
<1> HIDE DEF q
<1>7. \A k \in 1..Len(queue'[c]) :
         \/ k \in 1..Len(q) /\ queue'[c][k] = q[k]
         \/ k = Len(q) + 1 /\ queue'[c][k] = Fragmented(s)
  BY <1>3
<1>8. OneReader'
  <2>1. \A j, k \in 1..Len(q) : q[j].src # NoStream /\ q[j].src = q[k].src => j = k
    BY <1>0 DEF QueueInv, OneReader, q
  <2>2. \A j, k \in 1..Len(queue'[c]) :
           queue'[c][j].src # NoStream /\ queue'[c][j].src = queue'[c][k].src
             => j = k
    BY <2>1, <1>4, <1>5, <1>7
  <2> QED
    BY <2>2, <1>1 DEF OneReader
<1>9. FlushReadsLiveStream'
  <2>1. \A k \in 1..Len(q) : q[k].src # NoStream => q[k].src \in Readable
    BY <1>0 DEF QueueInv, FlushReadsLiveStream, Readable, q
  <2>2. Readable' = Readable \cup {s}
    BY <1>6 DEF Readable
  <2>3. \A k \in 1..Len(queue'[c]) :
           queue'[c][k].src # NoStream => queue'[c][k].src \in Readable'
    BY <2>1, <2>2, <1>5, <1>7
  <2> QED
    BY <2>3, <1>1 DEF FlushReadsLiveStream, Readable
<1>10. FlushHasMessage'
  <2> SUFFICES ASSUME NEW r \in flushing' \ uv_closing', fault' = "none"
               PROVE  \E k \in 1..Len(queue'[c]) : queue'[c][k].src = r
    BY DEF FlushHasMessage
  <2>1. CASE r = s
    BY <2>1, <1>3, <1>5
  <2>2. CASE r # s
    <3>1. \E d \in open : \E k \in 1..Len(queue[d]) : queue[d][k].src = r
      BY <2>2 DEF QueueInv, FlushHasMessage
    <3>2. \E k \in 1..Len(q) : q[k].src = r
      BY <3>1, <1>1 DEF q, TypeOK
    <3> QED
      BY <3>2, <1>3
  <2> QED
    BY <2>1, <2>2
<1>11. MessagesReachOwner'
  <2>1. \A k \in 1..Len(q) : q[k].owner = c
    BY <1>0 DEF QueueInv, MessagesReachOwner, q
  <2>2. \A k \in 1..Len(queue'[c]) : queue'[c][k].owner = c
    BY <2>1, <1>5, <1>7
  <2> QED
    BY <2>2, <1>1 DEF MessagesReachOwner
<1> QED
  BY <1>8, <1>9, <1>10, <1>11 DEF QueueInv

\* With one client: as long as samples are queued, the stream they are read
\* from is alive and flushing; no stream is left flushing without a message;
\* and what the client is sent is about its own connection.
THEOREM QueuesConsistent == ASSUME SingleClient PROVE Spec => []QueueInv
<1>1. Init => QueueInv
  BY DEF Init, QueueInv, OneReader, FlushReadsLiveStream, FlushHasMessage,
         MessagesReachOwner
<1> DEFINE Known == TypeOK /\ ListInv /\ CloseInv /\ ConnInv /\ OwnerInv
<1>2. Known /\ QueueInv /\ [Next]_vars => QueueInv'
  <2> SUFFICES ASSUME TypeOK, ListInv, CloseInv, ConnInv, OwnerInv, QueueInv,
                      [Next]_vars
               PROVE  QueueInv'
    OBVIOUS
  <2> USE DEF loopVars, connVars, listVars, closeVars
  <2>0. h2o_conn \in Conns \cup {NoConn} /\ (h2o_conn # NoConn => h2o_conn \in open)
    BY DEF TypeOK, ConnInv, ForwardConnIsUp
  <2>a. ASSUME QueuePbs,
               UNCHANGED <<open, streams, closing_streams, flushing, uv_closing>>,
               fault' = "none" => fault = "none"
        PROVE  QueueInv'
    <3>1. Readable' = Readable
      BY <2>a DEF Readable, Allocated
    <3> QED
      BY <2>a, <3>1, PbsKeepQueueInv
  <2>b. ASSUME UNCHANGED <<open, queue, streams, closing_streams, flushing,
                           uv_closing>>,
               fault' = "none" => fault = "none"
        PROVE  QueueInv'
    BY <2>a, <2>b DEF QueuePbs
  <2>1. CASE send_message
    <3>1. /\ Sends /\ QueueTail(sending) /\ Source = NoStream
          /\ UNCHANGED <<open, streams, closing_streams, flushing, uv_closing,
                         fault>>
      BY <2>1, SendTail DEF send_message
    <3>2. NoStream \notin flushing /\ Readable' = Readable
      BY <3>1, ServerAssumption DEF Readable, Allocated, TypeOK
    <3> QED
      BY <3>1, <3>2, TailKeepsQueueInv
  <2>2. CASE fragmented_read_cb_eof
    <3>1. /\ Sends /\ QueueTail(sending)
          /\ UNCHANGED <<open, streams, closing_streams>>
          /\ flushing' = flushing \ {Source}
      BY <2>2, SendTail DEF fragmented_read_cb_eof
    <3>2. /\ uv_closing \subseteq uv_closing'
          /\ uv_closing' \subseteq uv_closing \cup {Source}
          /\ fault' = "none" => fault = "none"
      BY <2>2 DEF fragmented_read_cb_eof, gputop_perf_stream_close, Sends
    <3>3. Readable \ {Source} \subseteq Readable'
      BY <3>1, <3>2 DEF Readable, Allocated
    <3> QED
      BY <3>1, <3>2, <3>3, TailKeepsQueueInv
  <2>3. CASE read_freed_stream \/ send_would_block
    BY <2>3, <2>b DEF read_freed_stream, send_would_block
  <2>4. CASE periodic_update_cb \/ timers_done \/ pending_done \/ idle_nothing
             \/ update_cb \/ poll_done \/ closing_done
    BY <2>4, <2>b DEF periodic_update_cb, timers_done, pending_done,
                      idle_nothing, update_cb, poll_done, closing_done, phaseOnly
  <2>5. CASE forward_logs
    <3>1. QueuePbs
      BY <2>5, <2>0, SendPbs DEF forward_logs
    <3> QED
      BY <2>5, <2>a, <3>1 DEF forward_logs
  <2>6. ASSUME NEW s \in Streams, i915_perf_ready_cb(s) \/ visit_nothing(s)
        PROVE  QueueInv'
    BY <2>6, <2>b DEF i915_perf_ready_cb, visit_nothing
  <2>7. ASSUME NEW s \in Streams, s \in todo, phase = "update",
               h2o_conn # NoConn
        PROVE  /\ s \in Allocated /\ s \notin uv_closing
               /\ info[s].owner = h2o_conn
    <3>1. s \in streams
      BY <2>7 DEF ListInv
    <3>2. s \notin uv_closing
      BY <2>7, <3>1 DEF CloseInv
    <3> QED
      BY <3>1, <3>2 DEF OwnerInv, Allocated
  <2>8. ASSUME NEW s \in Streams, flush_stream_samples(s)
        PROVE  QueueInv'
    <3>1. /\ s \in todo /\ phase = "update" /\ fault = "none"
          /\ s \notin flushing
          /\ UNCHANGED <<open, streams, closing_streams, uv_closing>>
      BY <2>8 DEF flush_stream_samples, At
    <3>2. CASE UNCHANGED <<queue, flushing>>
      BY <2>b, <3>1, <3>2
    <3>3. CASE /\ send_pb_message(h2o_conn, <<Pb(info[s].owner)>>)
               /\ UNCHANGED flushing
      <4>1. CASE h2o_conn = NoConn
        BY <3>1, <3>3, <4>1, <2>b DEF send_pb_message
      <4>2. CASE h2o_conn # NoConn
        <5>1. send_pb_message(h2o_conn, <<Pb(h2o_conn)>>)
          BY <3>1, <3>3, <4>2, <2>7
        <5>2. QueuePbs
          BY <5>1, <2>0, SendPbs
        <5> QED
          BY <3>1, <3>3, <5>2, <2>a
      <4> QED
        BY <4>1, <4>2
    <3>4. CASE /\ h2o_conn # NoConn
               /\ queue' = [queue EXCEPT ![h2o_conn] = Append(@, Fragmented(s))]
               /\ flushing' = flushing \cup {s}
               /\ UNCHANGED fault
      BY <3>1, <3>4, <2>0, <2>7, FlushKeepsQueueInv
    <3> QED
      BY <2>8, <3>2, <3>3, <3>4 DEF flush_stream_samples
  <2>9. ASSUME NEW s \in Streams, update_perf_head_pointers(s)
        PROVE  QueueInv'
    <3>1. /\ s \in todo /\ phase = "update"
          /\ send_pb_message(h2o_conn, <<Pb(info[s].owner)>>)
          /\ UNCHANGED <<open, streams, closing_streams, flushing, uv_closing,
                         fault>>
      BY <2>9 DEF update_perf_head_pointers, At
    <3>2. CASE h2o_conn = NoConn
      BY <3>1, <3>2, <2>b DEF send_pb_message
    <3>3. CASE h2o_conn # NoConn
      <4>1. send_pb_message(h2o_conn, <<Pb(h2o_conn)>>)
        BY <3>1, <3>3, <2>7
      <4> QED
        BY <3>1, <4>1, <2>0, <2>a, SendPbs
    <3> QED
      BY <3>2, <3>3
  <2>10. ASSUME NEW s \in Streams, stream_handle_closed_cb(s)
         PROVE  QueueInv'
    <3> DEFINE about == Pb(info[s].owner)
    <3>1. /\ s \in uv_closing
          /\ streams' = streams \ {s}
          /\ closing_streams' = closing_streams \ {s}
          /\ flushing' = flushing \ {s}
          /\ uv_closing' = uv_closing \ {s}
          /\ UNCHANGED <<open, fault>>
      BY <2>10 DEF stream_handle_closed_cb, CloseInv
    <3>2. QueuePbs
      <4>1. CASE s \in notify
        <5>1. info[s].owner = h2o_conn
          BY <3>1, <4>1 DEF OwnerInv
        <5>2. \/ send_pb_message(h2o_conn, <<Pb(h2o_conn)>>)
              \/ send_pb_message(h2o_conn, <<Pb(h2o_conn), Pb(h2o_conn)>>)
          BY <2>10, <4>1, <5>1 DEF stream_handle_closed_cb
        <5> QED
          BY <5>2, <2>0, SendPbs
      <4>2. CASE s \notin notify
        BY <2>10, <4>2 DEF stream_handle_closed_cb, QueuePbs
      <4> QED
        BY <4>1, <4>2
    <3>3. /\ Readable \subseteq Readable'
          /\ flushing' \ uv_closing' \subseteq flushing \ uv_closing
      BY <3>1 DEF Readable, Allocated
    <3> QED
      BY <3>1, <3>2, <3>3, PbsKeepQueueInv
  <2>11. ASSUME NEW c \in Conns, proceed(c)
         PROVE  QueueInv'
    BY <2>11, <2>b DEF proceed
  <2>12. ASSUME NEW c \in Conns, on_req(c)
         PROVE  QueueInv'
    <3>1. /\ UNCHANGED <<queue, streams, closing_streams, flushing, uv_closing,
                         fault>>
          /\ open \subseteq open'
      BY <2>12 DEF on_req
    <3>2. QueuePbs /\ Readable' = Readable
      BY <3>1 DEF QueuePbs, Readable, Allocated
    <3> QED
      BY <3>1, <3>2, PbsKeepQueueInv
  <2>13. ASSUME NEW c \in Conns, handle_get(c)
         PROVE  QueueInv'
    BY <2>13, <2>a, SendPbs DEF handle_get
  <2>14. ASSUME NEW c \in Conns, on_disconnect(c)
         PROVE  QueueInv'
    <3>1. \A d \in Conns : queue'[d] = <<>>
      <4>1. queue' = [queue EXCEPT ![c] = <<>>]
        BY <2>14 DEF on_disconnect
      <4>2. \A d \in Conns : d = c
        BY SingleClient DEF SingleClient
      <4> QED
        BY <4>1, <4>2 DEF TypeOK
    <3>2. \A d \in Conns : 1..Len(queue'[d]) = {}
      BY <3>1
    <3>3. fault' = "none" => flushing' \ uv_closing' = {}
      BY <2>14 DEF on_disconnect, terminate_all_streams,
                   gputop_perf_stream_close, CloseInv
    <3>4. OneReader'
      BY <3>2 DEF OneReader
    <3>5. FlushReadsLiveStream'
      BY <3>2 DEF FlushReadsLiveStream
    <3>6. FlushHasMessage'
      BY <3>3 DEF FlushHasMessage
    <3>7. MessagesReachOwner'
      BY <3>2 DEF MessagesReachOwner
    <3> QED
      BY <3>4, <3>5, <3>6, <3>7 DEF QueueInv
  <2>15. ASSUME NEW c \in Conns, NEW i \in Ids, handle_close_stream(c, i)
         PROVE  QueueInv'
    <3>1. UNCHANGED <<open, queue, flushing>> /\ fault = "none"
      BY <2>15 DEF handle_close_stream, At
    <3>2. PICK s \in streams :
            IF s \in user_data
            THEN /\ fault' = "assert_user_data"
                 /\ UNCHANGED <<streams, closing_streams, pending_close,
                                user_data, closeVars>>
            ELSE /\ user_data' = user_data \cup {s}
                 /\ close_stream(s)
      BY <2>15 DEF handle_close_stream
    <3>3. /\ Allocated' = Allocated
          /\ uv_closing \subseteq uv_closing'
          /\ uv_closing' \subseteq uv_closing \cup ({s} \ flushing)
      BY <3>2 DEF close_stream, gputop_perf_stream_close, Allocated
    <3>4. /\ QueuePbs /\ Readable \subseteq Readable'
          /\ flushing' \ uv_closing' \subseteq flushing \ uv_closing
      BY <3>1, <3>3 DEF QueuePbs, Readable
    <3> QED
      BY <3>1, <3>4, PbsKeepQueueInv
  <2>16. ASSUME NEW c \in Conns, NEW i \in Ids, NEW t \in Types,
                NEW l \in BOOLEAN, handle_open_stream(c, i, t, l)
         PROVE  QueueInv'
    <3>1. /\ send_pb_message(c, <<Pb(c)>>)
          /\ streams \subseteq streams'
          /\ UNCHANGED <<open, closing_streams, flushing, uv_closing, fault>>
      BY <2>16 DEF handle_open_stream
    <3>2. QueuePbs /\ Readable \subseteq Readable'
      BY <3>1, SendPbs DEF Readable, Allocated
    <3> QED
      BY <3>1, <3>2, PbsKeepQueueInv
  <2>17. CASE UNCHANGED vars
    BY <2>17, <2>b DEF vars
  <2> QED
    BY <2>1, <2>2, <2>3, <2>4, <2>5, <2>6, <2>8, <2>9, <2>10, <2>11, <2>12,
       <2>13, <2>14, <2>15, <2>16, <2>17
       DEF Next, wslay_event_send, loop_phases, stream_callbacks,
           conn_callbacks
<1> QED
  BY <1>1, <1>2, TypeCorrect, ListsConsistent, ClosesConsistent,
     ConnConsistent, OwnersConsistent, PTL DEF Spec

\* The inductive invariant of a server with one client holds.
THEOREM OneClient == ASSUME SingleClient PROVE Spec => []OneClientInv
<1>1. ListInv /\ ConnInv /\ CloseInv /\ OwnerInv /\ QueueInv => OneClientInv
  BY DEF OneClientInv
<1> QED
  BY <1>1, ListsConsistent, ConnConsistent, ClosesConsistent, OwnersConsistent,
     QueuesConsistent, PTL

\* A read callback of a server with one client never runs on a stream that was
\* freed or is being closed.
THEOREM OneClientFlush == ASSUME SingleClient PROVE Spec => []FlushReadsLiveStream
<1>1. QueueInv => FlushReadsLiveStream
  BY DEF QueueInv
<1> QED
  BY <1>1, QueuesConsistent, PTL

\* No stream of a server with one client is left flushing for ever.
THEOREM OneClientFlushEnds == ASSUME SingleClient PROVE Spec => []FlushHasMessage
<1>1. QueueInv => FlushHasMessage
  BY DEF QueueInv
<1> QED
  BY <1>1, QueuesConsistent, PTL

\* A client that connects again is never sent what concerns its previous
\* connection.
THEOREM OneClientOwner == ASSUME SingleClient PROVE Spec => []MessagesReachOwner
<1>1. QueueInv => MessagesReachOwner
  BY DEF QueueInv
<1> QED
  BY <1>1, QueuesConsistent, PTL
=============================================================================
