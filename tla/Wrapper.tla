------------------------------- MODULE Wrapper -------------------------------
(***************************************************************************)
(* gputop-wrapper (wrapper/gputop-wrapper-main.c) and its connection       *)
(* (wrapper/gputop-uv-network.c): it connects, waits for the features and   *)
(* for the id of a tracepoint, opens its streams, starts the program to be *)
(* observed, prints, and quits when the program has ended.                 *)
(*                                                                         *)
(* Everything happens in callbacks of one libuv loop: reads, two one-shot  *)
(* signals and a timer; each callback is one action.  uv_stop() ends the   *)
(* loop after the events of the same poll, so a signal may still be        *)
(* handled.  The server, wslay and the program are external; to the wrapper *)
(* acknowledgements, errors, logs, CPU statistics and notifications are    *)
(* alike: on_data() only counts them.                                      *)
(***************************************************************************)
EXTENDS Integers, Sequences, SequencesExt

CONSTANTS
    MaxDown     \* bound: messages on their way when the server sends unasked

ASSUME WrapperAssumption == MaxDown \in Nat \ {0}

VARIABLES
    args,       \* what the command line asks for, and the device the server has
    w,          \* the wrapper's context, its client context and what it sends
    conn,       \* the connection; "deaf": open, but nothing is read any more
    sigint, sigchld,    \* the one-shot signals
    program,    \* the program that is observed
    loop,       \* the loop; "stopping": uv_stop() was called
    up, down,   \* requests and messages on their way
    server      \* what became of the streams on the server, and whether it is gone

vars == <<args, w, conn, sigint, sigchld, program, loop, up, down, server>>

-----------------------------------------------------------------------------
(* Of the client context *)

\* send_pb_message(), gputop_connection_send(): wslay takes no message once
\* a close is queued
Sent(s) == s.connection /\ ~s.closing

send(s, m) == IF Sent(s) THEN [s EXCEPT !.out = Append(@, m)] ELSE s

Opened(s) == IF Sent(s) THEN "requested" ELSE "dropped"

open_oa(s) ==
    IF ~s.metric_set THEN s ELSE [send(s, "open oa") EXCEPT !.oa = Opened(s)]

open_tp(s) ==
    IF s.tracepoint = "none" THEN s
    ELSE [send(s, "open tp") EXCEPT !.tp = Opened(s)]

close_oa(s) ==
    IF s.oa = "closed" THEN s ELSE [send(s, "close oa") EXCEPT !.oa = "closed"]

close_tp(s) ==
    IF s.tp = "closed" THEN s ELSE [send(s, "close tp") EXCEPT !.tp = "closed"]

\* (mutant) The tracepoint's streams are not opened
start_sampling_oa(s) == [open_oa(s) EXCEPT !.is_sampling = TRUE]

stop_sampling(s) ==
    IF ~s.is_sampling THEN s
    ELSE [close_tp(close_oa(s)) EXCEPT !.is_sampling = FALSE]

start_sampling(s) ==
    [open_tp(open_oa(stop_sampling(s))) EXCEPT !.is_sampling = TRUE]

-----------------------------------------------------------------------------
(* The wrapper's functions *)

\* gputop_connection_close() asserts that there is a connection
close_connection(s) ==
    IF ~s.connection THEN [s EXCEPT !.fate = "aborted"]
    ELSE [send(s, "CLOSE") EXCEPT !.closing = TRUE]

\* (mutant) The connection is closed before the streams
quit_closes_first(s) == stop_sampling(close_connection(s))

quit(s) == close_connection(stop_sampling(s))

\* start_child_process(): before the features arrive, devinfo.gen is 0 and so
\* too old.  fork() may fail.  In the forked process the output
\* file may not open (it exits), and execvp() may fail: then it returns
\* from here and goes on as a second wrapper on the same connection
start_child_process(s) ==
    IF ~(args.gen8 /\ s.features) THEN {quit(s)}
    ELSE {quit(s),
          [s EXCEPT !.pid = 1, !.fate = "shared"],
          [s EXCEPT !.pid = 1]}

\* print_columns(): once the program has exited, quit at the next sample
\* that is its own; a sample need not be
print_columns(s) ==
    {s} \cup IF s.child_exited THEN {quit(s)} ELSE {}

\* gputop_client_context_handle_data().  Samples are accumulated of the OA
\* stream that is open only; the server knows no other than the first
handle_data(s, m) ==
    CASE m = "features" -> {[s EXCEPT !.features = TRUE]}
      [] m = "info" -> {[s EXCEPT !.tracepoint = "known"]}
      [] m = "oa" /\ s.oa = "requested" -> print_columns(s)
      [] OTHER -> {s}

\* handle_features() returns TRUE to quit: lists are printed, or a name is
\* unknown
first_features(s) ==
    LET t == [s EXCEPT !.features_handled = TRUE, !.metric_set = args.metric]
    IN  CASE args.lists -> quit(t)
          [] ~args.lists /\ t.pid # 0 ->
                [send(t, "info") EXCEPT !.tracepoint = "asked"]
          [] ~args.lists /\ t.pid = 0 -> start_sampling(t)

\* (mutant) The program is started for pid 0
on_data_zero(s) ==
    CASE ~s.features_handled /\ s.features -> {first_features(s)}
      [] (s.features_handled \/ ~s.features) /\ ~s.is_sampling ->
            {IF s.tracepoint # "asked" THEN start_sampling(s) ELSE s}
      [] (s.features_handled \/ ~s.features) /\ s.is_sampling ->
            IF args.program /\ s.pid = 0 THEN start_child_process(s) ELSE {s}

\* The rest of on_data()
on_data(s) ==
    CASE ~s.features_handled /\ s.features -> {first_features(s)}
      [] (s.features_handled \/ ~s.features) /\ ~s.is_sampling ->
            {IF s.tracepoint # "asked" THEN start_sampling(s) ELSE s}
      [] (s.features_handled \/ ~s.features) /\ s.is_sampling ->
            IF args.program /\ s.pid = -1 THEN start_child_process(s) ELSE {s}

\* on_ready(): gputop_client_context_reset() with the connection
on_ready(s) == send(send([s EXCEPT !.connection = TRUE], "features"), "open cpu")

-----------------------------------------------------------------------------
(* The loop's callbacks *)

Running == loop = "running" /\ w.fate = "runs"

\* Signals that were there at the last poll are still handled
InIteration == loop \in {"running", "stopping"} /\ w.fate = "runs"

Becomes(s) ==
    /\ w' = [s EXCEPT !.out = <<>>]
    /\ up' = up \o s.out

\* (mutant) uv_stop() is not called
connection_end_runs ==
    /\ conn' = "ended"
    /\ w' = [w EXCEPT !.connection = FALSE]
    /\ UNCHANGED <<args, sigint, sigchld, program, loop, up, down, server>>

\* gputop_connection_end() with on_close()
connection_end ==
    /\ conn' = "ended"
    /\ w' = [w EXCEPT !.connection = FALSE]
    /\ loop' = "stopping"
    /\ UNCHANGED <<args, sigint, sigchld, program, up, down, server>>

on_uv_connect ==
    /\ Running /\ conn = "connecting"
    /\ \/ connection_end
       \/ /\ conn' = "handshake"
          /\ UNCHANGED <<args, w, sigint, sigchld, program, loop, up, down, server>>

\* The first read, whatever it brings, makes the connection ready: also the
\* end of the file or an error, after which libuv reads no more
on_uv_read_first ==
    /\ Running /\ conn = "handshake"
    /\ conn' = IF server.gone THEN "deaf" ELSE "open"
    /\ Becomes(on_ready(w))
    /\ UNCHANGED <<args, sigint, sigchld, program, loop, down, server>>

\* (history) Whether something else came before the features
Early(s, m) == [s EXCEPT !.early = @ \/ (~s.features /\ m # "features")]

on_uv_read ==
    /\ Running /\ conn = "open" /\ down # <<>>
    /\ down[1] # "CLOSE"
    /\ \E s \in handle_data(Early(w, down[1]), down[1]) :
         IF s.fate # "runs" THEN Becomes(s) /\ UNCHANGED program
         ELSE \E t \in on_data(s) :
                /\ Becomes(t)
                /\ program' = IF w.pid # 1 /\ t.pid = 1 THEN "runs" ELSE program
    /\ down' = Tail(down)
    /\ UNCHANGED <<args, conn, sigint, sigchld, loop, server>>

\* The server's close frame, or the end of the file
on_uv_read_end ==
    /\ Running /\ conn = "open"
    /\ \/ down # <<>> /\ down[1] = "CLOSE"
       \/ server.gone /\ down = <<>>
    /\ connection_end

\* An error is not the end of the file: its number is taken for a length, and
\* libuv reads no more.  (What wslay makes of the bytes left in the buffer is
\* left out)
on_uv_read_error ==
    /\ Running /\ conn = "open" /\ server.gone
    /\ conn' = "deaf"
    /\ UNCHANGED <<args, w, sigint, sigchld, program, loop, up, down, server>>

on_ctrl_c ==
    /\ InIteration /\ sigint = "raised"
    /\ sigint' = "handled"
    /\ Becomes(quit(w))
    /\ UNCHANGED <<args, conn, sigchld, program, loop, down, server>>

\* (mutant) The timer is not started
on_child_process_exit_waits ==
    /\ InIteration /\ sigchld = "raised"
    /\ sigchld' = "handled"
    /\ w' = [w EXCEPT !.child_exited = TRUE]
    /\ UNCHANGED <<args, conn, sigint, program, loop, up, down, server>>

on_child_process_exit ==
    /\ InIteration /\ sigchld = "raised"
    /\ sigchld' = "handled"
    /\ w' = [w EXCEPT !.child_exited = TRUE, !.timer = "armed"]
    /\ UNCHANGED <<args, conn, sigint, program, loop, up, down, server>>

\* Timers run before the poll: not in an iteration that is stopping
on_child_timer ==
    /\ Running /\ w.timer = "armed"
    /\ Becomes(quit([w EXCEPT !.timer = "fired"]))
    /\ UNCHANGED <<args, conn, sigint, sigchld, program, loop, down, server>>

\* uv_run() returns; gputop_client_context_reset() with NULL
uv_run_returns ==
    /\ w.fate = "runs" /\ loop = "stopping"
    /\ loop' = "stopped"
    /\ UNCHANGED <<args, w, conn, sigint, sigchld, program, up, down, server>>

-----------------------------------------------------------------------------
(* The user, the program and the server *)

CtrlC ==
    /\ Running /\ sigint = "armed"
    /\ sigint' = "raised"
    /\ UNCHANGED <<args, w, conn, sigchld, program, loop, up, down, server>>

ProgramExits ==
    /\ InIteration /\ program = "runs"
    /\ program' = "exited"
    /\ sigchld' = IF sigchld = "armed" THEN "raised" ELSE sigchld
    /\ UNCHANGED <<args, w, conn, sigint, loop, up, down, server>>

Serves == conn = "open" /\ ~server.gone /\ Running

Answer(m) == down' = Append(down, m)

\* The stream cannot be opened: an error, or an acknowledgement all the same
Tried(stream) ==
    /\ \E o \in {"open", "refused"} : server' = [server EXCEPT ![stream] = o]
    /\ Answer("other")

\* The acknowledgement of a close comes later, with ServerSends
Closed(stream) == server' = [server EXCEPT ![stream] = "closed"] /\ UNCHANGED down

ServerRequest ==
    /\ Serves /\ up # <<>>
    /\ up' = Tail(up)
    /\ LET r == up[1] IN
       CASE r = "features" ->
                Answer(IF args.gpu THEN "features" ELSE "other") /\ UNCHANGED server
         [] r = "info" ->
                (Answer("info") \/ Answer("other")) /\ UNCHANGED server
         [] r = "CLOSE" ->
                Answer("CLOSE") /\ server' = [server EXCEPT !.gone = TRUE]
         [] r = "open cpu" -> Answer("other") /\ UNCHANGED server
         [] r = "open oa" -> Tried("oa")
         [] r = "close oa" -> Closed("oa")
         [] r = "open tp" -> Tried("tp")
         [] r = "close tp" -> Closed("tp")
    /\ UNCHANGED <<args, w, conn, sigint, sigchld, program, loop>>

\* Logs, from the start, CPU statistics, notifications
ServerSends ==
    /\ Serves /\ Len(down) < MaxDown
    /\ Answer("other")
    /\ UNCHANGED <<args, w, conn, sigint, sigchld, program, loop, up, server>>

ServerOaData ==
    /\ Serves /\ server.oa = "open" /\ Len(down) < MaxDown
    /\ Answer("oa")
    /\ UNCHANGED <<args, w, conn, sigint, sigchld, program, loop, up, server>>

\* It may never have answered the handshake
ServerGone ==
    /\ Running /\ conn \in {"handshake", "open"} /\ ~server.gone
    /\ server' = [server EXCEPT !.gone = TRUE]
    /\ UNCHANGED <<args, w, conn, sigint, sigchld, program, loop, up, down>>

-----------------------------------------------------------------------------
\* main(), up to uv_run().  Without a metric set there is nothing but lists
Init ==
    /\ args \in [program : BOOLEAN, lists : BOOLEAN, metric : BOOLEAN, gen8 : BOOLEAN,
                gpu : BOOLEAN]
    /\ ~args.metric => args.lists
    /\ w = [connection |-> FALSE, closing |-> FALSE,
            features |-> FALSE, features_handled |-> FALSE, metric_set |-> FALSE,
            is_sampling |-> FALSE, oa |-> "closed", tp |-> "closed",
            tracepoint |-> "none",
            pid |-> IF args.program THEN -1 ELSE 0,
            child_exited |-> FALSE, timer |-> "off", early |-> FALSE,
            fate |-> "runs", out |-> <<>>]
    /\ conn = "connecting"
    /\ sigint = "armed"
    /\ sigchld = "armed"
    /\ program = "none"
    /\ loop = "running"
    /\ up = <<>>
    /\ down = <<>>
    /\ server = [oa |-> "closed", tp |-> "closed", gone |-> FALSE]

Next ==
    \/ on_uv_connect \/ on_uv_read_first \/ on_uv_read \/ on_uv_read_end
    \/ on_uv_read_error \/ on_ctrl_c \/ on_child_process_exit \/ on_child_timer \/ uv_run_returns
    \/ CtrlC \/ ProgramExits
    \/ ServerRequest \/ ServerSends \/ ServerOaData \/ ServerGone

\* The loop dispatches what is ready, the timer fires, and the server answers
\* requests; the user and the program need do nothing
Fairness ==
    /\ WF_vars(on_uv_connect) /\ WF_vars(on_uv_read_first)
    /\ WF_vars(on_uv_read) /\ WF_vars(on_uv_read_end)
    /\ WF_vars(on_ctrl_c) /\ WF_vars(on_child_process_exit)
    /\ WF_vars(on_child_timer) /\ WF_vars(uv_run_returns)
    /\ WF_vars(ServerRequest)

Spec == Init /\ [][Next]_vars /\ Fairness

-----------------------------------------------------------------------------
(* Properties *)

Requests == {"features", "info", "open cpu", "open oa", "open tp",
             "close oa", "close tp", "CLOSE"}

Outcomes == {"closed", "open", "refused"}

\* Every variable has its type, and there is a connection to send to from its
\* first read to its end
TypeOK ==
    /\ {w.connection, w.closing, w.features, w.features_handled, w.metric_set,
        w.is_sampling, w.child_exited, w.early} \subseteq BOOLEAN
    /\ {w.oa, w.tp} \subseteq {"closed", "requested", "dropped"}
    /\ w.tracepoint \in {"none", "asked", "known"}
    /\ w.pid \in {-1, 0, 1}
    /\ w.timer \in {"off", "armed", "fired"}
    /\ w.fate \in {"runs", "aborted", "shared"}
    /\ conn \in {"connecting", "handshake", "open", "deaf", "ended"}
    /\ {sigint, sigchld} \subseteq {"armed", "raised", "handled"}
    /\ program \in {"none", "runs", "exited"}
    /\ loop \in {"running", "stopping", "stopped"}
    /\ Range(up) \subseteq Requests
    /\ Range(down) \subseteq {"features", "info", "other", "oa", "CLOSE"}
    /\ server \in [oa : Outcomes, tp : Outcomes, gone : BOOLEAN]
    /\ w.connection <=> conn \in {"open", "deaf"}

\* When the server has answered the close, the streams are closed on it,
\* whichever callback quit, however often, and whatever on_data() did since:
\* nothing sent after the close arrives
StreamsClosedFirst == Contains(down, "CLOSE") =>
    server.oa # "open" /\ server.tp # "open"

\* While the program runs and the wrapper has not begun to quit, the server has
\* opened, or could not open, the streams that observe it, or is about to be
\* asked (start_child_process() comes after start_sampling(), by way of two
\* messages).  Not so if a message came before the features: on_data() then
\* samples with nothing to open, and starts the program two messages too soon
ProgramObserved ==
    program = "runs" /\ w.fate = "runs" /\ w.connection /\ ~w.closing /\ ~w.early =>
        /\ server.oa # "closed" \/ Contains(up, "open oa")
        /\ server.tp # "closed" \/ Contains(up, "open tp")

Ended == loop = "stopped" \/ w.fate # "runs"

\* A wrapper that quits ends: its close is answered, or the connection ends.
\* Not so if the end came as the first read, or as an error: nothing is read
\* that could tell
QuitEnds == w.closing ~> (Ended \/ conn = "deaf")

\* A program that has exited makes the wrapper quit, also if no sample of
\* it comes any more (on_child_timer())
ChildExitQuits == w.child_exited ~> (w.closing \/ Ended)

\* A program that is to be observed is started, or the wrapper quits, also if
\* the server has no device to sample; unless the server does not tell the id
\* of the tracepoint, or the connection's end was not understood (on_data()
\* needs several messages for it)
ProgramStarts ==
    args.program ~> \/ w.pid = 1 \/ w.closing \/ Ended
                    \/ conn = "deaf" \/ [](w.tracepoint = "asked")

=============================================================================
