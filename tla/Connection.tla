----------------------------- MODULE Connection -----------------------------
(***************************************************************************)
(* The connection of a session (telegram_cli/net.c) under the main loop of *)
(* loop.c.  One iteration of net_loop builds the poll array, polls, runs   *)
(* the timers that are due and then handles the poll results, which were   *)
(* gathered BEFORE the timers ran: a result may speak of a socket that the *)
(* ping alarm, or the first half of its own handling, has replaced.        *)
(*                                                                         *)
(* One event_timer serves as ping timer and as fail timer of a connection. *)
(* A socket is named by its descriptor, which the kernel reuses.           *)
(* The kernel, the network and the clock are external.                     *)
(***************************************************************************)
EXTENDS Naturals, Sequences

CONSTANTS
  Fd,           \* descriptors the process may get
  MaxOut,       \* bound: messages and headers in the out buffer
  MaxDeaths,    \* bound: how often an established socket dies
  MaxOutages    \* bound: how often the network goes or the machine sleeps

ASSUME FdAssumption == Fd # {}
ASSUME BoundAssumption == MaxOut \in Nat /\ MaxDeaths \in Nat /\ MaxOutages \in Nat

Live == {"ready", "connecting"}
Port == {443, 80, 25}
Event == {"IN", "HUP", "OUT"}     \* HUP stands for HUP, ERR and RDHUP

\* What stops the model: "misused", c->ev inserted twice or removed when it is not
\* in the tree (an assertion of tree.h fails, or the tree holds one event twice),
\* or "null", the null Connections[fd] used.  What the program does after that is not modelled.
Crash == {"misused", "null"}

VARIABLES
  state,        \* c->state; "none" while S->c is 0
  fd,           \* c->fd
  conns,        \* the descriptors i with Connections[i] = c
  timers,       \* how many nodes of timer_tree point to c->ev
  alarm,        \* c->ev.alarm
  inFail,       \* c->in_fail_timer
  port,         \* c->port
  out,          \* the out buffer: "hdr" is the byte 0xef, "msg" a message
  silence,      \* since last_receive_time: "long" is over 50, "timeout" over 200 seconds
  sameSecond,   \* last_connect_time = time (0)
  phase,        \* where net_loop is, or how it crashed
  polled,       \* the descriptors in the poll array
  revents,      \* the poll result
  failures,     \* history: fail_connection calls of this iteration
  queued,       \* history: a message was written while c was failed
  sock,         \* the socket of c: "closed", "connecting", "up" or "dead"
  stream,       \* the first thing the server got on it, or "nothing"
  netUp, deaths, outages

conn    == <<state, fd, conns, timers, alarm, inFail, port>>
clock   == <<silence, sameSecond>>
loop    == <<phase, polled, revents>>
history == <<failures, queued>>
network == <<netUp, deaths, outages>>
vars    == <<conn, out, clock, loop, history, sock, stream, network>>

\* Every variable has its type (net.h, struct connection).
TypeOK ==
  /\ state \in Live \cup {"none", "failed"}
  /\ fd \in Fd /\ conns \subseteq Fd /\ polled \subseteq Fd
  /\ timers \in 0..2 /\ alarm \in {"ping", "fail"} /\ inFail \in BOOLEAN
  /\ port \in Port
  /\ out \in Seq({"hdr", "msg"})
  /\ silence \in {"short", "long", "timeout"} /\ sameSecond \in BOOLEAN
  /\ phase \in {"build", "poll", "timers", "read", "event"} \cup Crash
  /\ revents \subseteq Event
  /\ failures \in Nat /\ queued \in BOOLEAN
  /\ sock \in {"closed", "connecting", "up", "dead"}
  /\ stream \in {"nothing", "hdr", "msg"}
  /\ netUp \in BOOLEAN /\ deaths \in 0..MaxDeaths /\ outages \in 0..MaxOutages

Init ==
  /\ state = "none" /\ fd \in Fd /\ conns = {} /\ polled = {}
  /\ timers = 0 /\ alarm = "ping" /\ inFail = FALSE
  /\ port = 443
  /\ out = <<>>
  /\ silence = "short" /\ sameSecond = FALSE
  /\ phase = "build" /\ revents = {}
  /\ failures = 0 /\ queued = FALSE
  /\ sock = "closed" /\ stream = "nothing"
  /\ netUp = TRUE /\ deaths = 0 /\ outages = 0

-----------------------------------------------------------------------------
(* Timers.  n is the number of nodes with c->ev before the call, next the  *)
(* phase that follows if no assertion fails.                               *)

InsertTimer(n, which, next) ==
  /\ timers' = n + 1
  /\ alarm' = which
  /\ phase' = IF n = 0 THEN next ELSE "misused"

\* start_fail_timer; i is in_fail_timer before the call.
StartFailTimer(n, i, next) ==
  /\ inFail' = TRUE
  /\ IF i THEN timers' = n /\ phase' = next /\ UNCHANGED alarm
          ELSE InsertTimer(n, "fail", next)

\* stop_ping_timer and start_ping_timer.
RearmPing(next) ==
  IF timers = 0 THEN phase' = "misused" /\ UNCHANGED <<timers, alarm>>
                ELSE InsertTimer(timers - 1, "ping", next)

rotate_port == [p \in Port |-> CASE p = 443 -> 80 [] p = 80 -> 25 [] p = 25 -> 443]

-----------------------------------------------------------------------------
(* Connecting and failing                                                  *)

RestartLater_Forgets(n, i, cs, o, next) ==
  /\ sameSecond \/ ~netUp
  /\ sameSecond' = TRUE
  /\ timers' = n /\ phase' = next /\ UNCHANGED <<alarm, inFail>>
  /\ state' = "failed" /\ conns' = cs /\ out' = o
  /\ sock' = "closed" /\ stream' = "nothing"
  /\ UNCHANGED <<fd, silence>>

\* restart_connection refuses a second attempt in one second, or connect ()
\* fails: the connection waits for its fail timer.
RestartLater(n, i, cs, o, next) ==
  /\ sameSecond \/ ~netUp
  /\ sameSecond' = TRUE
  /\ StartFailTimer(n, i, next)
  /\ state' = "failed" /\ conns' = cs /\ out' = o
  /\ sock' = "closed" /\ stream' = "nothing"
  /\ UNCHANGED <<fd, silence>>

\* Otherwise it opens a socket, and appends the header to the buffer.
RestartNow(n, i, cs, o, next) ==
  /\ ~sameSecond /\ netUp
  /\ sameSecond' = TRUE
  /\ fd' \in Fd
  /\ state' = "connecting"
  /\ silence' = "short"
  /\ InsertTimer(n, "ping", next)
  /\ inFail' = i
  /\ conns' = cs \cup {fd'}
  /\ out' = Append(o, "hdr")
  /\ sock' = "connecting" /\ stream' = "nothing"

\* restart_connection with n nodes of the timer and in_fail_timer i, registered
\* at cs and with buffer o.
Restart(n, i, cs, o, next) ==
  RestartLater(n, i, cs, o, next) \/ RestartNow(n, i, cs, o, next)

\* fail_connection, entered in state s with n nodes: the buffers are dropped
\* and c->fd is closed, whether it still is a socket of c or not.
FailConnection(s, n, next) ==
  IF s \in Live /\ n = 0
  THEN /\ phase' = "misused"
       /\ UNCHANGED <<conn, out, clock, history, sock, stream>>
  ELSE /\ port' = rotate_port[port]
       /\ failures' = failures + 1
       /\ queued' = FALSE
       /\ Restart(IF s \in Live THEN n - 1 ELSE n, inFail, conns \ {fd}, <<>>, next)

\* dc_create_session and create_connection, which waits until the socket is
\* connected.  On a failure S->c stays 0 and the caller tries again.
CreateConnection ==
  /\ state = "none" /\ phase = "build"
  /\ netUp
  /\ fd' \in Fd
  /\ state' = "ready"
  /\ conns' = {fd'}
  /\ out' = <<"hdr">>
  /\ silence' = "short"
  /\ InsertTimer(timers, "ping", "build")
  /\ sock' = "up" /\ stream' = "nothing"
  /\ UNCHANGED <<inFail, port, sameSecond, polled, revents, history, network>>

\* rpc_send_message, from a query, an alarm, a handler or a command of the
\* user: nobody looks at the state of the connection.
SendMessage ==
  /\ state # "none" /\ phase \notin Crash
  /\ Len(out) < MaxOut
  /\ out' = Append(out, "msg")
  /\ queued' = (queued \/ state = "failed")
  /\ UNCHANGED <<conn, clock, loop, failures, sock, stream, network>>

-----------------------------------------------------------------------------
(* One iteration of net_loop                                               *)

MakePollArray ==
  /\ phase = "build"
  /\ phase' = "poll"
  /\ polled' = IF state \in Live THEN conns ELSE {}
  /\ failures' = 0
  /\ UNCHANGED <<conn, out, clock, revents, queued, sock, stream, network>>

\* What poll reports of a socket; OUT is asked for when there is something to
\* write or the connection is still connecting.
PollResult ==
  CASE polled = {} \/ sock = "connecting" -> {{}}
    [] polled # {} /\ sock = "dead" -> {{"HUP"}, {"IN", "HUP"}}
    [] OTHER -> LET o == IF out # <<>> \/ state = "connecting" THEN {"OUT"} ELSE {}
                IN  {o, o \cup {"IN"}}

Poll ==
  /\ phase = "poll"
  /\ phase' = "timers"
  /\ revents' \in PollResult
  /\ UNCHANGED <<conn, out, clock, polled, history, sock, stream, network>>

\* work_timers, when the timer of c is not due.
WorkTimers ==
  /\ phase = "timers"
  /\ phase' = "read"
  /\ UNCHANGED <<conn, out, clock, polled, revents, history, sock, stream, network>>

\* A timer is due ten seconds after it was armed.
Due(which) == phase = "timers" /\ timers > 0 /\ ~sameSecond /\ alarm = which

\* ping_alarm, after work_timers took the timer out of the tree.
PingTimeout_StillLive ==
  /\ Due("ping") /\ silence = "timeout"
  /\ FailConnection(state, timers - 1, "read")
  /\ UNCHANGED <<polled, revents, network>>

PingTimeout ==
  /\ Due("ping") /\ silence = "timeout"
  /\ FailConnection("failed", timers - 1, "read")
  /\ UNCHANGED <<polled, revents, network>>

SendPing ==
  /\ Due("ping") /\ silence = "long" /\ state = "ready"
  /\ Len(out) < MaxOut
  /\ out' = Append(out, "msg")
  /\ InsertTimer(timers - 1, "ping", "read")
  /\ UNCHANGED <<state, fd, conns, inFail, port, clock, polled, revents, history,
                 sock, stream, network>>

NoPing_OneShot ==
  /\ Due("ping")
  /\ silence = "short" \/ (silence = "long" /\ state = "connecting")
  /\ timers' = timers - 1 /\ phase' = "read"
  /\ UNCHANGED <<state, fd, conns, inFail, alarm, port, out, clock, polled, revents,
                 history, sock, stream, network>>

NoPing ==
  /\ Due("ping")
  /\ silence = "short" \/ (silence = "long" /\ state = "connecting")
  /\ InsertTimer(timers - 1, "ping", "read")
  /\ UNCHANGED <<state, fd, conns, inFail, port, out, clock, polled, revents, history,
                 sock, stream, network>>

FailAlarm_KeepsFlag ==
  /\ Due("fail")
  /\ Restart(timers - 1, inFail, conns, out, "read")
  /\ UNCHANGED <<port, polled, revents, history, network>>

FailAlarm ==
  /\ Due("fail")
  /\ Restart(timers - 1, FALSE, conns, out, "read")
  /\ UNCHANGED <<port, polled, revents, history, network>>

\* connections_poll_result: with an event, Connections[fd] is read, and c is
\* used; a null c crashes.
NullConnection ==
  /\ phase = "read" /\ revents # {} /\ ~ polled \subseteq conns
  /\ phase' = "null"
  /\ UNCHANGED <<conn, out, clock, polled, revents, history, sock, stream, network>>

\* No POLLIN, or read () has nothing, which includes the end of the stream.
NothingToRead ==
  /\ phase = "read"
  /\ revents = {} \/ polled \subseteq conns
  /\ "IN" \notin revents \/ sock # "up"
  /\ phase' = "event"
  /\ UNCHANGED <<conn, out, clock, polled, revents, history, sock, stream, network>>

\* try_read gets data, perhaps the last there is.
TryRead ==
  /\ phase = "read" /\ polled \subseteq conns
  /\ "IN" \in revents /\ sock \in {"up", "dead"}
  /\ silence' = "short"
  /\ RearmPing("event")
  /\ UNCHANGED <<state, fd, conns, inFail, port, out, sameSecond, polled, revents,
                 history, sock, stream, network>>

\* try_read gets an error.
TryReadFails ==
  /\ phase = "read" /\ polled \subseteq conns
  /\ "IN" \in revents /\ sock = "dead"
  /\ FailConnection(state, timers, "event")
  /\ UNCHANGED <<polled, revents, network>>

\* The second half, on the same c, whatever try_read has made of it.
HandleHup ==
  /\ phase = "event" /\ "HUP" \in revents
  /\ FailConnection(state, timers, "build")
  /\ UNCHANGED <<polled, revents, network>>

\* POLLOUT: a connecting connection is ready, and try_write moves k elements of
\* the buffer into a socket that takes them.
Readied == IF state = "connecting" THEN "ready" ELSE state
Writable == phase = "event" /\ "HUP" \notin revents /\ "OUT" \in revents
WriteError == sock \in {"dead", "closed"} /\ out # <<>>

HandleOut ==
  /\ Writable /\ ~WriteError
  /\ phase' = "build"
  /\ state' = Readied
  /\ silence' = IF state = "connecting" THEN "short" ELSE silence
  /\ \E k \in 0..Len(out) :
       /\ sock # "up" => k = 0
       /\ out' = SubSeq(out, k + 1, Len(out))
       /\ stream' = IF k > 0 /\ stream = "nothing" THEN Head(out) ELSE stream
  /\ UNCHANGED <<fd, conns, timers, alarm, inFail, port, sameSecond, polled, revents,
                 history, sock, network>>

TryWriteFails ==
  /\ Writable /\ WriteError
  /\ FailConnection(Readied, timers, "build")
  /\ UNCHANGED <<polled, revents, network>>

NothingElse ==
  /\ phase = "event" /\ revents \cap {"HUP", "OUT"} = {}
  /\ phase' = "build"
  /\ UNCHANGED <<conn, out, clock, polled, revents, history, sock, stream, network>>

-----------------------------------------------------------------------------
(* External: the clock, the kernel and the network                         *)

\* An iteration takes milliseconds: the silence grows while poll waits.
Tick ==
  /\ phase \notin Crash
  /\ \/ sameSecond /\ UNCHANGED silence
     \/ phase = "poll" /\ {} \in PollResult /\ silence = "short" /\ silence' = "long"
     \/ phase = "poll" /\ {} \in PollResult /\ silence = "long" /\ silence' = "timeout"
  /\ sameSecond' = FALSE
  /\ UNCHANGED <<conn, out, loop, history, sock, stream, network>>

\* The machine is suspended and resumed, anywhere.
Suspend ==
  /\ phase \notin Crash /\ outages < MaxOutages
  /\ outages' = outages + 1
  /\ silence' = "timeout" /\ sameSecond' = FALSE
  /\ UNCHANGED <<conn, out, loop, history, sock, stream, netUp, deaths>>

SocketConnects ==
  /\ sock = "connecting" /\ netUp
  /\ sock' = "up"
  /\ UNCHANGED <<conn, out, clock, loop, history, stream, network>>

SocketDies ==
  /\ sock \in {"connecting", "up"} /\ deaths < MaxDeaths
  /\ sock' = "dead"
  /\ deaths' = deaths + 1
  /\ UNCHANGED <<conn, out, clock, loop, history, stream, netUp, outages>>

NetworkGoes ==
  /\ netUp /\ outages < MaxOutages
  /\ netUp' = FALSE /\ outages' = outages + 1
  /\ UNCHANGED <<conn, out, clock, loop, history, sock, stream, deaths>>

NetworkComes ==
  /\ ~netUp
  /\ netUp' = TRUE
  /\ UNCHANGED <<conn, out, clock, loop, history, sock, stream, deaths, outages>>

-----------------------------------------------------------------------------

WorkTimer == PingTimeout \/ SendPing \/ NoPing \/ FailAlarm

PollResults ==
  \/ NullConnection \/ NothingToRead \/ TryRead \/ TryReadFails
  \/ HandleHup \/ HandleOut \/ TryWriteFails \/ NothingElse

Environment ==
  Tick \/ Suspend \/ SocketConnects \/ SocketDies \/ NetworkGoes \/ NetworkComes

Next ==
  \/ CreateConnection \/ SendMessage
  \/ MakePollArray \/ Poll \/ WorkTimers \/ WorkTimer \/ PollResults
  \/ Environment

Spec == Init /\ [][Next]_vars

\* The loop goes on, and works a timer in the end (poll waits no longer than
\* next_timer_in); time passes, the network comes back, and of the sockets that
\* begin to connect one does soon: a server that never accepts is not counted on.
Fairness ==
  /\ WF_vars(MakePollArray \/ Poll \/ WorkTimers \/ WorkTimer \/ PollResults)
  /\ SF_vars(WorkTimer)
  /\ SF_vars(Tick) /\ WF_vars(NetworkComes)
  /\ SF_vars(silence = "short" /\ SocketConnects)

FairSpec == Spec /\ Fairness

-----------------------------------------------------------------------------
(* Properties                                                              *)

Running == phase \notin Crash

\* A connection always has its event in the timer tree, and once: with none, a
\* failed connection would never be tried again and a silent one never noticed
\* (start_ping_timer, start_fail_timer, stop_ping_timer).
OneTimer == Running /\ state # "none" => timers = 1

\* The alarm of that event fits the state: ping_alarm asserts a live
\* connection, and in_fail_timer tells start_fail_timer the truth.
AlarmFits ==
  Running /\ state # "none" =>
    /\ alarm = "ping" <=> state \in Live
    /\ inFail <=> state = "failed"

\* Connections[] holds a connection at its own descriptor exactly while it is
\* live: nothing else would route the events of a descriptor (fail_connection,
\* restart_connection).
RegisteredIffLive == conns = IF state \in Live THEN {fd} ELSE {}

\* The server reads the byte 0xef first on every socket, unless something was
\* written while the connection was down; restart_connection appends the byte
\* to what is in the buffer, which fail_connection must have emptied.
HeaderFirst == stream = "msg" => queued

\* The socket, the timer event, the flags, the registration and the buffer of a
\* connection stay in step through every failure, restart, alarm and late poll
\* result: each is set in a function of its own (fail_connection,
\* restart_connection, start_ping_timer, start_fail_timer).
ConnectionRight ==
  TypeOK /\ OneTimer /\ AlarmFits /\ RegisteredIffLive /\ HeaderFirst

\* The main loop meets a null connection, or a misused timer, only if the
\* connection failed in this very iteration: a result gathered before.
CrashNeedsFailure == ~Running => failures > 0

-----------------------------------------------------------------------------
(* What makes the above inductive                                          *)

\* Before the connection is created it has no timer and no events.
Unborn == state = "none" => timers = 0 /\ revents = {} /\ polled = {} /\ ~inFail

\* While it has not failed in this iteration, what was polled is registered;
\* and events are of what was polled.
PolledRegistered ==
  /\ failures = 0 /\ phase \in {"poll", "timers", "read"} => polled \subseteq conns
  /\ polled = {} /\ phase \in {"timers", "read", "event"} => revents = {}

\* The header is at the head of the buffer until something is sent, and a
\* failed connection has nothing to send, unless something was queued.
HeaderAhead ==
  ~queued =>
    /\ state = "failed" => out = <<>>
    /\ state \in Live /\ stream = "nothing" => out # <<>> /\ Head(out) = "hdr"

IInv ==
  /\ TypeOK /\ OneTimer /\ AlarmFits /\ RegisteredIffLive /\ HeaderFirst
  /\ CrashNeedsFailure /\ Unborn /\ PolledRegistered /\ HeaderAhead

-----------------------------------------------------------------------------
(* Liveness                                                                *)

\* Whatever fails, the connection is up again in the end, unless the process
\* crashed, when no socket dies any more and the network comes back.
Reconnects == [](state = "failed" => <>(state = "ready" \/ ~Running))

\* A live connection on which nothing is heard is given up in the end, however
\* often its timer was armed again in between (ping_alarm).
SilenceNoticed ==
  [](state \in Live /\ silence = "timeout" =>
       <>(state = "failed" \/ silence = "short" \/ ~Running))

\* tree_insert asserts that what it inserts is not in the tree (tree.h:74):
\* no event of a connection is inserted twice.
NoTimerTwice == phase # "misused"
=============================================================================
