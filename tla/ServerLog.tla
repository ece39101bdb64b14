----------------------------- MODULE ServerLog -----------------------------
(***************************************************************************)
(* The log of server/gputop-log.c: any thread of the process adds entries  *)
(* with gputop_log(), the server's thread takes them all with              *)
(* gputop_get_pb_log() and forward_logs() of server/gputop-server.c sends  *)
(* them to the client, if one is connected.                                *)
(*                                                                         *)
(* The lock is a rwlock, but a getter that holds it for reading changes    *)
(* the list: that is safe only because one thread gets.  The length is     *)
(* looked at once without the lock.                                        *)
(***************************************************************************)
EXTENDS Naturals, Sequences, FiniteSets

CONSTANTS
    Threads,    \* threads that log
    Server,     \* the server's thread, one of them
    MaxLog,     \* 10000 in the code
    MaxMsgs     \* bound: messages logged

ASSUME LogAssumption ==
    /\ Server \in Threads
    /\ MaxLog \in Nat
    /\ MaxMsgs \in Nat

VARIABLES
    gputop_log_entries,  \* the list; a message is its serial number
    gputop_log_len,
    writer,              \* the threads that hold the lock for writing
    readers,             \* the threads that hold the lock for reading
    pc,                  \* per thread: what it is doing
    log,                 \* the server's copy: size of the array, entries taken
    connected,           \* h2o_conn is not NULL
    msgs,                \* (history) messages logged
    sent,                \* (history) messages the clients were sent
    dropped,             \* (history) messages removed at the limit
    lost                 \* (history) messages taken while nobody was connected

vars == <<gputop_log_entries, gputop_log_len, writer, readers, pc, log,
          connected, msgs, sent, dropped, lost>>

listVars == <<gputop_log_entries, gputop_log_len>>
histVars == <<msgs, sent, dropped, lost>>

Elements(q) == {q[k] : k \in 1..Len(q)}

NoLog == [n_entries |-> 0, entries |-> <<>>]

Init ==
    /\ gputop_log_entries = <<>>
    /\ gputop_log_len = 0
    /\ writer = {}
    /\ readers = {}
    /\ pc = [t \in Threads |-> "idle"]
    /\ log = NoLog
    /\ connected = FALSE
    /\ msgs = 0
    /\ sent = <<>>
    /\ dropped = {}
    /\ lost = {}

Goto(t, from, to) == pc[t] = from /\ pc' = [pc EXCEPT ![t] = to]

-----------------------------------------------------------------------------
(***************************************************************************)
(* gputop_log()                                                            *)
(***************************************************************************)

log_lock(t) ==
    /\ Goto(t, "idle", "log")
    /\ msgs < MaxMsgs
    /\ writer = {} /\ readers = {}
    /\ writer' = {t}
    /\ UNCHANGED <<listVars, readers, log, connected, histVars>>

\* Mutation: the entry removed at the limit is still counted.
log_entry_miscounts(t) ==
    /\ Goto(t, "log", "added")
    /\ msgs' = msgs + 1
    /\ LET n == Len(gputop_log_entries) IN
       IF gputop_log_len > MaxLog /\ n > 0
       THEN /\ gputop_log_entries' =
                 Append(SubSeq(gputop_log_entries, 1, n - 1), msgs')
            /\ dropped' = dropped \cup {gputop_log_entries[n]}
       ELSE /\ gputop_log_entries' = Append(gputop_log_entries, msgs')
            /\ UNCHANGED dropped
    /\ UNCHANGED <<gputop_log_len, writer, readers, log, connected, sent, lost>>

\* Beyond the limit the last entry is removed before the new one is added.
log_entry(t) ==
    /\ Goto(t, "log", "added")
    /\ msgs' = msgs + 1
    /\ LET n == Len(gputop_log_entries) IN
       IF gputop_log_len > MaxLog
       THEN /\ gputop_log_entries' =
                 Append(SubSeq(gputop_log_entries, 1, n - 1), msgs')
            /\ gputop_log_len' = gputop_log_len - 1
            /\ dropped' = dropped \cup {gputop_log_entries[n]}
       ELSE /\ gputop_log_entries' = Append(gputop_log_entries, msgs')
            /\ UNCHANGED <<gputop_log_len, dropped>>
    /\ UNCHANGED <<writer, readers, log, connected, sent, lost>>

log_unlock(t) ==
    /\ Goto(t, "added", "idle")
    /\ gputop_log_len' = gputop_log_len + 1
    /\ writer' = writer \ {t}
    /\ readers' = readers \ {t}
    /\ UNCHANGED <<gputop_log_entries, log, connected, histVars>>

-----------------------------------------------------------------------------
(***************************************************************************)
(* forward_logs() and gputop_get_pb_log(), in the server's thread.         *)
(***************************************************************************)

\* The length is read without the lock.
get_check ==
    /\ Goto(Server, "idle", "get")
    /\ gputop_log_len # 0
    /\ UNCHANGED <<listVars, writer, readers, log, connected, histVars>>

\* The array gets the length read under the lock.
get_lock ==
    /\ Goto(Server, "get", "getting")
    /\ writer = {}
    /\ readers' = readers \cup {Server}
    /\ log' = [n_entries |-> gputop_log_len, entries |-> <<>>]
    /\ UNCHANGED <<listVars, writer, connected, histVars>>

\* Mutation: entries are taken from the end of the list.
get_entry_last ==
    /\ pc[Server] = "getting"
    /\ gputop_log_entries # <<>>
    /\ LET n == Len(gputop_log_entries) IN
       /\ log' = [log EXCEPT !.entries = Append(@, gputop_log_entries[n])]
       /\ gputop_log_entries' = SubSeq(gputop_log_entries, 1, n - 1)
    /\ UNCHANGED <<gputop_log_len, writer, readers, pc, connected, histVars>>

\* One entry after the other moves to the copy.
get_entry ==
    /\ pc[Server] = "getting"
    /\ gputop_log_entries # <<>>
    /\ log' = [log EXCEPT !.entries = Append(@, Head(gputop_log_entries))]
    /\ gputop_log_entries' = Tail(gputop_log_entries)
    /\ UNCHANGED <<gputop_log_len, writer, readers, pc, connected, histVars>>

\* Mutation: the walk stops before the last entry and the list is emptied.
get_unlock_skips_last ==
    /\ Goto(Server, "getting", "forward")
    /\ Len(gputop_log_entries) <= 1
    /\ gputop_log_entries' = <<>>
    /\ gputop_log_len' = 0
    /\ readers' = readers \ {Server}
    /\ UNCHANGED <<writer, log, connected, histVars>>

get_unlock ==
    /\ Goto(Server, "getting", "forward")
    /\ gputop_log_entries = <<>>
    /\ gputop_log_len' = 0
    /\ readers' = readers \ {Server}
    /\ UNCHANGED <<gputop_log_entries, writer, log, connected, histVars>>

\* send_pb_message(), which does nothing without a connection, then
\* gputop_pb_log_free().
forward_logs ==
    /\ Goto(Server, "forward", "idle")
    /\ IF connected
       THEN sent' = sent \o log.entries /\ UNCHANGED lost
       ELSE lost' = lost \cup Elements(log.entries) /\ UNCHANGED sent
    /\ log' = NoLog
    /\ UNCHANGED <<listVars, writer, readers, connected, msgs, dropped>>

\* A client connects or goes away, while the server's thread does nothing else.
set_connected ==
    /\ pc[Server] = "idle"
    /\ connected' = ~connected
    /\ UNCHANGED <<listVars, writer, readers, pc, log, histVars>>

Next ==
    \/ \E t \in Threads : log_lock(t) \/ log_entry(t) \/ log_unlock(t)
    \/ get_check \/ get_lock \/ get_entry \/ get_unlock \/ forward_logs
    \/ set_connected

Spec == Init /\ [][Next]_vars

-----------------------------------------------------------------------------
(***************************************************************************)
(* Properties.                                                             *)
(***************************************************************************)

\* Every variable has its type, and the list its bound: an entry more than the
\* limit, and one more while it is added.
TypeOK ==
    /\ gputop_log_entries \in Seq(1..MaxMsgs)
    /\ Len(gputop_log_entries) <= MaxLog + 1
    /\ gputop_log_len \in 0..MaxLog + 1
    /\ writer \subseteq Threads /\ readers \subseteq Threads
    /\ pc \in [Threads -> {"idle", "log", "added", "get", "getting", "forward"}]
    /\ connected \in BOOLEAN
    /\ dropped \cup lost \subseteq 1..msgs

\* The array allocated from gputop_log_len is as large as the list that is
\* copied into it, even if threads log between the unlocked look and the lock.
CopyFits == pc[Server] = "getting" =>
               Len(log.entries) + Len(gputop_log_entries) = log.n_entries

\* Clients get messages in the order they were logged, none twice.
SentInOrder == \A i, j \in 1..Len(sent) : i < j => sent[i] < sent[j]

\* Every message is in the list, in the server's copy, with a client, or was
\* given up: removed at the limit, or taken while no client was connected.
NothingVanishes ==
    1..msgs = Elements(gputop_log_entries) \cup Elements(log.entries)
                \cup Elements(sent) \cup dropped \cup lost
=============================================================================
