----------------------------- MODULE RpcQueries -----------------------------
(***************************************************************************)
(* The remote call engine of one session: the query table and its resend   *)
(* timers (telegram_cli/queries.c), the acknowledgement tree of the        *)
(* session (net.c), the dispatch of the server's messages and the server   *)
(* salt (mtproto-client.c) and the quit test of the main loop (loop.c).    *)
(*                                                                         *)
(* A query is identified with the msg_id of its first transmission, which  *)
(* is the key of queries_tree.  A resend travels in a msg_container whose  *)
(* own msg_id is fresh and recorded nowhere: NoQuery stands for all such   *)
(* outer ids.  Salts are numbered in the order the server issues them.     *)
(*                                                                         *)
(* The server and the network are external.  Assumptions made of them: a   *)
(* connection delivers in order (only the order that matters is kept, the  *)
(* one between messages that name the same query); a lost connection loses *)
(* what is in flight both ways; the server answers every query it accepted *)
(* and redelivers, after a lost connection, the answers not acknowledged.  *)
(***************************************************************************)
EXTENDS Integers, FiniteSets

CONSTANTS
  Query,        \* the queries the program ever sends
  NoQuery,      \* an id that is not in the query table
  MaxSalt,      \* bound: how often the server changes its salt
  MaxDrops,     \* bound: how often the connection is lost
  MaxResets,    \* bound: how often the server forgets the session
  MaxInFlight,  \* bound: messages of the server in flight at once
  UserQuits,    \* whether the user may ask for safe_quit
  OutLimit      \* messages in the out buffer that make out_bytes >= 100000

ASSUME QueryAssumption == NoQuery \notin Query /\ IsFiniteSet(Query)
ASSUME BoundAssumption ==
  MaxSalt \in Nat /\ MaxDrops \in Nat /\ MaxResets \in Nat /\ OutLimit \in Nat
  /\ MaxInFlight \in Nat
  /\ UserQuits \in BOOLEAN

Salt == 0..MaxSalt
Answer == {"result", "error"}
Kind == Answer \cup {"ack", "badsalt", "newsession"}

\* The msg_id of a server message.  A redelivered answer keeps its own, named
\* here by its query; NoQuery stands for those of all other messages, which
\* the server does not redeliver.
MsgId == Query \cup {NoQuery}

\* env is the salt of the envelope; new is the payload of bad_server_salt.
ServerMsg == [kind : Kind, id : Query \cup {NoQuery}, env : Salt, new : Salt]

QueryMsg == [kind : {"plain", "container"}, q : Query, salt : Salt]
AcksMsg  == [kind : {"acks"}, ids : SUBSET Query, salt : Salt]

VARIABLES
  tree,         \* queries_tree: the queries sent and not finished
  acked,        \* those with QUERY_ACK_RECEIVED
  timers,       \* those whose event_timer is in timer_tree
  queriesNum,   \* queries_num
  completed,    \* history: how often a method of the query was called
  salt,         \* DC->server_salt
  ackTree,      \* S->ack_tree
  ackTimer,     \* S->ev is in timer_tree
  aborted,      \* an assert failed: the process is gone (NoAssertFails: never)
  quit,         \* safe_quit: "no", "asked", and "exiting" once "All done"
  toServer,     \* written to the connection, not yet read by the server
  toClient,     \* sent by the server, not yet read
  serverSalt, accepted, answer, unacked, redeliver,  \* the server
  drops, resets                                      \* used-up bounds

table   == <<tree, acked, timers, queriesNum, completed>>
session == <<salt, ackTree, ackTimer>>
client  == <<table, session, aborted>>
server  == <<serverSalt, accepted, answer, unacked, redeliver>>
bounds  == <<drops, resets>>
vars    == <<client, quit, toServer, toClient, server, bounds>>

TypeOK ==
  /\ tree \subseteq Query /\ acked \subseteq Query /\ timers \subseteq Query
  /\ queriesNum \in Int
  /\ completed \in [Query -> Nat]
  /\ salt \in Salt /\ serverSalt \in Salt
  /\ ackTree \subseteq MsgId
  /\ ackTimer \in BOOLEAN /\ aborted \in BOOLEAN
  /\ quit \in {"no", "asked", "exiting"}
  /\ toServer \subseteq QueryMsg \cup AcksMsg
  /\ toClient \subseteq ServerMsg
  /\ accepted \subseteq Query
  /\ answer \in [Query -> Answer \cup {"none"}]
  /\ unacked \subseteq Query /\ redeliver \subseteq Query
  /\ drops \in 0..MaxDrops /\ resets \in 0..MaxResets

Idle == {q \in Query : q \notin tree /\ completed[q] = 0}

Init ==
  /\ tree = {} /\ acked = {} /\ timers = {}
  /\ queriesNum = 0
  /\ completed = [q \in Query |-> 0]
  /\ salt = 0 /\ serverSalt = 0
  /\ ackTree = {} /\ ackTimer = FALSE
  /\ aborted = FALSE
  /\ quit = "no"
  /\ toServer = {} /\ toClient = {}
  /\ accepted = {} /\ answer = [q \in Query |-> "none"]
  /\ unacked = {} /\ redeliver = {}
  /\ drops = 0 /\ resets = 0

-----------------------------------------------------------------------------
(* The query table *)

Plain(q, s)     == [kind |-> "plain", q |-> q, salt |-> s]
Container(q, s) == [kind |-> "container", q |-> q, salt |-> s]

Congested == Cardinality(toServer) >= OutLimit

\* What alarm_query writes: the query again, unless the buffer is too full.
Resend(q, s) == IF Congested THEN {} ELSE {Container(q, s)}

\* The queries a method sends before it returns: none or one.
FollowUp(next) == {next} \ {NoQuery}

\* send_query, from user code.
SendQuery(q) ==
  /\ q \in Idle
  /\ tree' = tree \cup {q}
  /\ timers' = timers \cup {q}
  /\ queriesNum' = queriesNum + 1
  /\ toServer' = toServer \cup {Plain(q, salt)}
  /\ UNCHANGED <<acked, completed, session, aborted, quit, toClient, server,
                 bounds>>

\* Slip: alarm_query forgets to arm the timer again.
AlarmQuery_OneShot(q) ==
  /\ q \in timers
  /\ timers' = timers \ {q}
  /\ toServer' = toServer \cup Resend(q, salt)
  /\ UNCHANGED <<tree, acked, queriesNum, completed, session, aborted, quit,
                 toClient, server, bounds>>

\* work_timers finds the timer of q due: removes it, and alarm_query arms it
\* again and resends.
AlarmQuery(q) ==
  /\ q \in timers
  /\ toServer' = toServer \cup Resend(q, salt)
  /\ UNCHANGED <<client, quit, toClient, server, bounds>>

\* remove_event_timer: tree_delete asserts that the timer is there.
RemoveTimer(q) ==
  /\ timers' = timers \ {q}
  /\ aborted' = (q \notin timers)

\* query_restart: the timer is removed and alarm_query arms it again.  s is
\* the salt at the time of the call.
QueryRestart(q, s) ==
  \/ /\ q \in tree
     /\ timers' = timers \cup {q}
     /\ aborted' = (q \notin timers)
     /\ toServer' = toServer \cup Resend(q, s)
  \/ /\ q \notin tree
     /\ UNCHANGED <<timers, aborted, toServer>>

\* Slip: query_ack sets the flag and leaves the timer.
QueryAck_KeepsTimer(q) ==
  /\ acked' = acked \cup ({q} \cap tree)
  /\ UNCHANGED <<timers, aborted>>

QueryAck(q) ==
  \/ /\ q \in tree \ acked
     /\ acked' = acked \cup {q}
     /\ RemoveTimer(q)
  \/ /\ q \notin tree \ acked
     /\ UNCHANGED <<acked, timers, aborted>>

\* Slip: the flag QUERY_ACK_RECEIVED is not looked at.
ArmedStill_Always(q) == TRUE

\* query_ack has removed the timer of the queries it flagged.
ArmedStill(q) == q \notin acked

\* Slip: the query is freed and stays in the tree.
Unlinked_Forgotten(q) == tree

Unlinked(q) == tree \ {q}

\* queries_num --, whether the id was found or not.
CountedOff(q) == queriesNum - 1

\* What query_error and query_result share: unlink q, call its method (which
\* sends the queries of F with salt s) and free it; count it off in any case.
Finish(q, F, s) ==
  /\ \/ /\ q \in tree
        /\ aborted' = (ArmedStill(q) /\ q \notin timers)
        /\ tree' = Unlinked(q) \cup F
        /\ timers' = (IF ArmedStill(q) THEN timers \ {q} ELSE timers) \cup F
        /\ acked' = acked \ {q}
        /\ completed' = [completed EXCEPT ![q] = @ + 1]
     \/ /\ q \notin tree
        /\ F = {}
        /\ UNCHANGED <<aborted, tree, timers, acked, completed>>
  /\ queriesNum' = CountedOff(q) + Cardinality(F)
  /\ toServer' = toServer \cup {Plain(f, s) : f \in F}

QueryError(q, s) == Finish(q, {}, s)

QueryResult(q, next, s) ==
  /\ next \in Idle \cup {NoQuery}
  /\ Finish(q, FollowUp(next), s)

-----------------------------------------------------------------------------
(* Messages of the server: process_rpc_message and what it dispatches to *)

\* A connection delivers in order: what refers to q waits for the earlier
\* bad_server_salt that names q.
InOrder(m) ==
  m.kind \in {"ack"} \cup Answer =>
    ~ \E b \in toClient : b.kind = "badsalt" /\ b.id = m.id

\* insert_msg_id: the first id arms the timer of the session.
InsertMsgId(i) ==
  /\ ackTree' = ackTree \cup {i}
  /\ ackTimer' = (ackTimer \/ ackTree = {})

\* The head of process_rpc_message; all ids of the server are odd.
ReceiveHead(m) ==
  /\ m \in toClient /\ InOrder(m)
  /\ toClient' = toClient \ {m}
  /\ InsertMsgId(IF m.kind \in Answer THEN m.id ELSE NoQuery)

WorkMsgsAck(m) ==
  /\ m.kind = "ack"
  /\ ReceiveHead(m)
  /\ salt' = m.env
  /\ QueryAck(m.id)
  /\ UNCHANGED <<tree, queriesNum, completed, quit, toServer, server, bounds>>

WorkRpcError(m) ==
  /\ m.kind = "error"
  /\ ReceiveHead(m)
  /\ salt' = m.env
  /\ QueryError(m.id, m.env)
  /\ UNCHANGED <<quit, server, bounds>>

WorkRpcResult(m) ==
  /\ m.kind = "result"
  /\ ReceiveHead(m)
  /\ salt' = m.env
  /\ \E next \in Query \cup {NoQuery} : QueryResult(m.id, next, m.env)
  /\ UNCHANGED <<quit, server, bounds>>

\* Slip: the new salt is read and dropped.
WorkBadServerSalt_Dropped(m) ==
  /\ m.kind = "badsalt"
  /\ ReceiveHead(m)
  /\ QueryRestart(m.id, m.env)
  /\ salt' = m.env
  /\ UNCHANGED <<tree, acked, queriesNum, completed, quit, server, bounds>>

\* The resend uses the envelope's salt: the new one is assigned after it.
WorkBadServerSalt(m) ==
  /\ m.kind = "badsalt"
  /\ ReceiveHead(m)
  /\ QueryRestart(m.id, m.env)
  /\ salt' = m.new
  /\ UNCHANGED <<tree, acked, queriesNum, completed, quit, server, bounds>>

\* first_msg_id is skipped: nothing is sent again.
WorkNewSessionCreated(m) ==
  /\ m.kind = "newsession"
  /\ ReceiveHead(m)
  /\ salt' = m.new
  /\ UNCHANGED <<table, aborted, quit, toServer, server, bounds>>

Receive(m) ==
  \/ WorkMsgsAck(m) \/ WorkRpcError(m) \/ WorkRpcResult(m)
  \/ WorkBadServerSalt(m) \/ WorkNewSessionCreated(m)

\* The message of send_all_acks; ids that mean nothing to the server are left
\* out, and with them a message that has no others.
Acks(ids, s) ==
  IF ids \subseteq {NoQuery} THEN {}
  ELSE {[kind |-> "acks", ids |-> ids \ {NoQuery}, salt |-> s]}

\* Slip: the ids stay in the tree once they are written.
SendAllAcks_KeepsTree ==
  /\ ackTimer
  /\ ackTimer' = FALSE
  /\ toServer' = toServer \cup Acks(ackTree, salt)
  /\ UNCHANGED <<table, salt, ackTree, aborted, quit, toClient, server, bounds>>

\* The alarm of the session: one message with all the ids.
SendAllAcks ==
  /\ ackTimer
  /\ ackTimer' = FALSE
  /\ ackTree' = {}
  /\ toServer' = toServer \cup Acks(ackTree, salt)
  /\ UNCHANGED <<table, salt, aborted, quit, toClient, server, bounds>>

-----------------------------------------------------------------------------
(* The user and the main loop *)

AskSafeQuit ==
  /\ UserQuits /\ quit = "no"
  /\ quit' = "asked"
  /\ UNCHANGED <<client, toServer, toClient, server, bounds>>

\* The end of an iteration of net_loop.
QuitWhenDone ==
  /\ quit = "asked" /\ queriesNum = 0
  /\ quit' = "exiting"
  /\ UNCHANGED <<client, toServer, toClient, server, bounds>>

-----------------------------------------------------------------------------
(* External: the server and the connection *)

Room == Cardinality(toClient) < MaxInFlight

Reply(kind, id, env) ==
  [kind |-> kind, id |-> id, env |-> env, new |-> serverSalt]

ServerRejects(m) ==
  /\ Room
  /\ m \in toServer /\ m.salt # serverSalt
  /\ toServer' = toServer \ {m}
  /\ \E env \in {m.salt, serverSalt} :
       toClient' = toClient \cup
         {Reply("badsalt", IF m.kind = "plain" THEN m.q ELSE NoQuery, env)}
  /\ UNCHANGED <<client, quit, server, bounds>>

\* A query already answered is answered again.
ServerAccepts(m) ==
  /\ Room
  /\ m \in toServer /\ m.salt = serverSalt /\ m.kind # "acks"
  /\ m.kind = "container" =>
       ~ \E p \in toServer : p.kind = "plain" /\ p.q = m.q
  /\ toServer' = toServer \ {m}
  /\ accepted' = accepted \cup {m.q}
  /\ redeliver' = IF answer[m.q] = "none" THEN redeliver
                                          ELSE redeliver \cup {m.q}
  /\ \E acks \in {{}, {Reply("ack", m.q, serverSalt)}} :
       toClient' = toClient \cup acks
  /\ UNCHANGED <<client, quit, serverSalt, answer, unacked, bounds>>

ServerReadsAcks(m) ==
  /\ m \in toServer /\ m.salt = serverSalt /\ m.kind = "acks"
  /\ toServer' = toServer \ {m}
  /\ unacked' = unacked \ m.ids
  /\ UNCHANGED <<client, quit, toClient, serverSalt, accepted, answer,
                 redeliver, bounds>>

ServerAnswers(q) ==
  /\ Room
  /\ q \in accepted /\ answer[q] = "none"
  /\ \E a \in Answer :
       /\ answer' = [answer EXCEPT ![q] = a]
       /\ unacked' = unacked \cup {q}
       /\ toClient' = toClient \cup {Reply(a, q, serverSalt)}
  /\ UNCHANGED <<client, quit, toServer, serverSalt, accepted, redeliver,
                 bounds>>

ServerRedelivers(q) ==
  /\ Room
  /\ q \in redeliver
  /\ redeliver' = redeliver \ {q}
  /\ toClient' = toClient \cup {Reply(answer[q], q, serverSalt)}
  /\ UNCHANGED <<client, quit, toServer, serverSalt, accepted, answer,
                 unacked, bounds>>

ServerChangesSalt ==
  /\ serverSalt < MaxSalt
  /\ serverSalt' = serverSalt + 1
  /\ UNCHANGED <<client, quit, toServer, toClient, accepted, answer, unacked,
                 redeliver, bounds>>

\* The server forgets the session and announces a new one.
ServerForgets ==
  /\ Room
  /\ resets < MaxResets
  /\ resets' = resets + 1
  /\ accepted' = {} /\ answer' = [q \in Query |-> "none"]
  /\ unacked' = {} /\ redeliver' = {}
  /\ toClient' = toClient \cup {Reply("newsession", NoQuery, serverSalt)}
  /\ UNCHANGED <<client, quit, toServer, serverSalt, drops>>

\* fail_connection throws both buffers away and connects again.
DropConnection ==
  /\ drops < MaxDrops
  /\ drops' = drops + 1
  /\ toServer' = {} /\ toClient' = {}
  /\ redeliver' = unacked
  /\ UNCHANGED <<client, quit, serverSalt, accepted, answer, unacked, resets>>

-----------------------------------------------------------------------------

ServerReads(m) == ServerRejects(m) \/ ServerAccepts(m) \/ ServerReadsAcks(m)

ClientStep ==
  \/ \E q \in Query : SendQuery(q) \/ AlarmQuery(q)
  \/ \E m \in toClient : Receive(m)
  \/ SendAllAcks \/ AskSafeQuit \/ QuitWhenDone

ServerStep ==
  \/ \E m \in toServer : ServerReads(m)
  \/ \E q \in Query : ServerAnswers(q) \/ ServerRedelivers(q)
  \/ ServerChangesSalt \/ ServerForgets \/ DropConnection

Next == ClientStep \/ ServerStep

Spec == Init /\ [][Next]_vars

-----------------------------------------------------------------------------
(* Properties *)

\* No assert of the timer tree fails: a timer is only removed when it is there
\* (tree_delete in tree.h, called by query_ack, query_result, query_error and
\* query_restart, each on its own idea of whether the timer is armed).
NoAssertFails == ~aborted

\* The timer of a query is armed exactly while the query is in the table and
\* not acknowledged, so no alarm runs on a freed query and no query waits for
\* its acknowledgement without a timer.
TimerIffWaiting == timers = tree \ acked

\* The session's timer is armed exactly while there are ids to acknowledge:
\* insert_msg_id only arms it when the tree was empty.
AckTimerIffAcks == ackTimer <=> ackTree # {}

\* queries_num never counts more queries than the table holds, so safe_quit is
\* not held up by a query that is already gone.
CountNotAhead == queriesNum <= Cardinality(tree)

\* The table, the timers, the acknowledgements due and the count always fit
\* together and no assertion of the timer tree fails, whatever is lost, repeated
\* or late: queries_tree, timer_tree, ack_tree and queries_num are four pieces
\* of state that every handler of an answer updates one by one.
QueriesRight ==
  TypeOK /\ NoAssertFails /\ TimerIffWaiting /\ AckTimerIffAcks /\ CountNotAhead

\* A query is sent again only while it is in the table and not acknowledged,
\* whichever of alarm_query and query_restart sends it.
ResendOnlyWaiting ==
  [][\A q \in Query, s \in Salt :
       Container(q, s) \in toServer' \ toServer => q \in tree \ acked]_vars

StatusOf(q) ==
  IF q \in tree THEN IF completed[q] = 0 THEN "pending" ELSE "again"
  ELSE IF completed[q] = 0 THEN "idle"
       ELSE IF completed[q] = 1 THEN "finished" ELSE "twice"

Promise == INSTANCE RpcPromise WITH status <- [q \in Query |-> StatusOf(q)]

\* The table implements the promise: each query gets at most one answer or
\* error, whatever is resent, redelivered or answered twice.
KeepsPromise == Promise!Spec

\* What net_loop calls "All done" (the exit of safe_quit): no query is left.
QuitOnlyWhenDone == [][quit' = "exiting" => quit = "exiting" \/ tree = {}]_vars

-----------------------------------------------------------------------------
(* Liveness: net_loop runs the timers and reads the connection for ever, and *)
(* the server reads and answers.  The user owes nothing.                     *)

FairSpec ==
  /\ Spec
  /\ \A q \in Query : /\ WF_vars(AlarmQuery(q))
                      /\ WF_vars(ServerAnswers(q))
                      /\ WF_vars(ServerRedelivers(q))
  /\ WF_vars(\E m \in toClient : Receive(m))
  /\ WF_vars(\E m \in toServer : ServerReads(m))
  /\ WF_vars(SendAllAcks)
  /\ WF_vars(QuitWhenDone)

\* Every query sent is finished, across lost connections and salt changes,
\* unless the server forgets the session.
EveryQueryFinishes == \A q \in Query : q \in tree ~> q \notin tree \/ resets > 0

\* The server need not redeliver for ever: every answer it sends is
\* acknowledged in the end, also when an acknowledgement was lost with its
\* connection; one that is rejected for its salt is not sent again.
AnswersAcknowledged ==
  \A q \in Query : q \in unacked ~> q \notin unacked \/ serverSalt > 0 \/ resets > 0

\* Even when the server forgets the session, a query not yet acknowledged
\* does not stay so: it is resent until it is acknowledged or finished.
UnackedQueryProceeds ==
  \A q \in Query : q \in tree \ acked ~> q \notin tree \ acked

=============================================================================
