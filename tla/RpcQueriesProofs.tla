-------------------------- MODULE RpcQueriesProofs --------------------------
(***************************************************************************)
(* What holds of RpcQueries for every set of queries and every bound: no   *)
(* assert of the timer tree fails, the timers are armed exactly for the    *)
(* queries that wait, resends are wanted, and the table implements         *)
(* RpcPromise.                                                             *)
(*                                                                         *)
(* The properties are not inductive by themselves.  query_restart removes  *)
(* a timer without looking at QUERY_ACK_RECEIVED; that the timer is there  *)
(* rests on who can make the server name a query in bad_server_salt: only  *)
(* the first transmission, which carries the query's own msg_id, and which *)
(* the server then cannot have acknowledged (PlainInv, BadSaltInv).        *)
(***************************************************************************)
EXTENDS RpcQueries, FiniteSetTheorems, TLAPS

TableInv ==
  /\ ~aborted
  /\ acked \subseteq tree
  /\ timers = tree \ acked
  /\ \A q \in Query : /\ completed[q] \in {0, 1}
                      /\ q \in tree => completed[q] = 0

\* Only an answer that exists is redelivered.
ServerInv == \A q \in unacked \cup redeliver : answer[q] # "none"

\* What is in flight about a query follows its first transmission.
SentInv ==
  /\ \A m \in toServer : m.kind # "acks" => m.q \notin Idle
  /\ \A m \in toClient : m.kind = "ack" => m.id \notin Idle

\* The first transmission is sent once, and while it is under way the query
\* is not acknowledged.
PlainInv ==
  \A m \in toServer : m.kind = "plain" =>
    /\ m.q \notin acked
    /\ \A a \in toClient : a.kind = "ack" => a.id # m.q
    /\ \A n \in toServer : n.kind = "plain" /\ n.q = m.q => n = m

\* A query whose first transmission was rejected is not acknowledged before
\* the rejection has arrived.
BadSaltInv == \A b \in toClient : b.kind = "badsalt" => b.id \notin acked

IInv ==
  /\ TypeOK /\ TableInv /\ AckTimerIffAcks
  /\ ServerInv /\ SentInv /\ PlainInv /\ BadSaltInv

-----------------------------------------------------------------------------
\* The initial state satisfies the inductive invariant.
LEMMA InitIInv == Init => IInv
  <1> SUFFICES ASSUME Init PROVE IInv
    OBVIOUS
  <1> USE QueryAssumption, BoundAssumption DEF Init
  <1>1. TypeOK
    <2>1. /\ tree \subseteq Query /\ acked \subseteq Query
          /\ timers \subseteq Query /\ queriesNum \in Int
          /\ ackTree \subseteq MsgId /\ accepted \subseteq Query
          /\ unacked \subseteq Query /\ redeliver \subseteq Query
          /\ toServer \subseteq QueryMsg \cup AcksMsg
          /\ toClient \subseteq ServerMsg
      OBVIOUS
    <2>2. /\ completed \in [Query -> Nat]
          /\ answer \in [Query -> Answer \cup {"none"}]
      OBVIOUS
    <2>3. /\ ackTimer \in BOOLEAN /\ aborted \in BOOLEAN
          /\ quit \in {"no", "asked", "exiting"}
      OBVIOUS
    <2>4. /\ salt \in Salt /\ serverSalt \in Salt
          /\ drops \in 0..MaxDrops /\ resets \in 0..MaxResets
      BY DEF Salt
    <2>5. QED
      BY <2>1, <2>2, <2>3, <2>4 DEF TypeOK
  <1>2. TableInv /\ AckTimerIffAcks
    BY DEF TableInv, AckTimerIffAcks
  <1>3. ServerInv /\ SentInv /\ PlainInv /\ BadSaltInv
    BY DEF ServerInv, SentInv, PlainInv, BadSaltInv
  <1>4. QED
    BY <1>1, <1>2, <1>3 DEF IInv

\* What a message in the out buffer is made of.
LEMMA ToServerTypes ==
  ASSUME TypeOK, NEW m \in toServer
  PROVE  /\ m.salt \in Salt
         /\ m.kind # "acks" => m.q \in Query
         /\ m.kind = "acks" => m.ids \in SUBSET Query
  BY DEF TypeOK, QueryMsg, AcksMsg

\* What a message of the server is made of.
LEMMA ToClientTypes ==
  ASSUME TypeOK, NEW m \in toClient
  PROVE  /\ m.kind \in Kind
         /\ m.id \in Query \cup {NoQuery}
         /\ m.env \in Salt /\ m.new \in Salt
  BY DEF TypeOK, ServerMsg

\* What the client writes about a query is well formed.
LEMMA QueryMsgTypes ==
  ASSUME NEW q \in Query, NEW s \in Salt
  PROVE  /\ Plain(q, s) \in QueryMsg
         /\ Container(q, s) \in QueryMsg
         /\ Resend(q, s) \subseteq QueryMsg
         /\ Plain(q, s).kind = "plain" /\ Plain(q, s).q = q
         /\ \A m \in Resend(q, s) : m.kind = "container" /\ m.q = q
  BY DEF Plain, Container, Resend, QueryMsg

\* A reply of the server is well formed.
LEMMA ReplyTypes ==
  ASSUME NEW kind \in Kind, NEW id \in Query \cup {NoQuery},
         NEW env \in Salt, serverSalt \in Salt
  PROVE  /\ Reply(kind, id, env) \in ServerMsg
         /\ Reply(kind, id, env).kind = kind
         /\ Reply(kind, id, env).id = id
  BY DEF Reply, ServerMsg

-----------------------------------------------------------------------------
(* One lemma per group of actions: each preserves the invariant.           *)

\* A query sent by user code is new to everything in flight.
LEMMA SendQueryStep ==
  ASSUME IInv, NEW q \in Query, SendQuery(q)
  PROVE  IInv'
  <1> USE DEF IInv, SendQuery, client, table, session, server, bounds
  <1> DEFINE p == Plain(q, salt)
  <1>0. /\ q \in Query /\ q \notin tree /\ completed[q] = 0
        /\ p \in QueryMsg /\ p.kind = "plain" /\ p.q = q
        /\ q \in Idle
    BY QueryMsgTypes DEF Idle, TypeOK
  <1> HIDE DEF p
  <1>1. toServer' = toServer \cup {p}
    BY DEF p
  <1>2. TypeOK'
    BY <1>0, <1>1 DEF TypeOK
  <1>3. TableInv'
    BY <1>0 DEF TableInv, TypeOK
  <1>4. AckTimerIffAcks' /\ ServerInv'
    BY DEF AckTimerIffAcks, ServerInv
  <1>5. Idle' \subseteq Idle /\ q \notin Idle'
    BY DEF Idle
  <1>6. SentInv'
    BY <1>0, <1>1, <1>5 DEF SentInv
  <1>7. PlainInv'
    <2>1. q \notin acked
      BY <1>0 DEF TableInv
    <2>2. \A m \in toServer : m.kind = "plain" => m.q # q
      BY <1>0 DEF SentInv
    <2>3. \A a \in toClient : a.kind = "ack" => a.id # q
      BY <1>0 DEF SentInv
    <2>4. QED
      BY <1>0, <1>1, <2>1, <2>2, <2>3 DEF PlainInv
  <1>8. BadSaltInv'
    BY DEF BadSaltInv
  <1>9. QED
    BY <1>2, <1>3, <1>4, <1>6, <1>7, <1>8

\* A resend adds a container to the buffer and changes nothing else.
LEMMA ResendStep ==
  ASSUME IInv, NEW q \in tree, NEW s \in Salt,
         toServer' = toServer \cup Resend(q, s),
         UNCHANGED <<tree, acked, completed>>,
         toClient' \subseteq toClient
  PROVE  /\ toServer' \subseteq QueryMsg \cup AcksMsg
         /\ SentInv' /\ PlainInv' /\ BadSaltInv'
  <1> USE DEF IInv
  <1>1. q \in Query /\ q \notin Idle
    BY DEF TypeOK, Idle
  <1>2. /\ Resend(q, s) \subseteq QueryMsg
        /\ \A m \in Resend(q, s) : m.kind = "container" /\ m.q = q
    BY <1>1, QueryMsgTypes
  <1>3. Idle' = Idle
    BY DEF Idle
  <1>4. SentInv'
    BY <1>1, <1>2, <1>3 DEF SentInv
  <1>5. PlainInv'
    BY <1>2 DEF PlainInv
  <1>6. BadSaltInv'
    BY DEF BadSaltInv
  <1>7. QED
    BY <1>2, <1>4, <1>5, <1>6 DEF TypeOK

LEMMA AlarmQueryStep ==
  ASSUME IInv, NEW q \in Query, AlarmQuery(q)
  PROVE  IInv'
  <1> USE DEF IInv, AlarmQuery, client, table, session, server, bounds
  <1>1. q \in tree /\ salt \in Salt
    BY DEF TableInv, TypeOK
  <1>2. /\ toServer' \subseteq QueryMsg \cup AcksMsg
        /\ SentInv' /\ PlainInv' /\ BadSaltInv'
    BY <1>1, ResendStep
  <1>3. TypeOK'
    BY <1>2 DEF TypeOK
  <1>4. TableInv' /\ AckTimerIffAcks' /\ ServerInv'
    BY DEF TableInv, AckTimerIffAcks, ServerInv
  <1>5. QED
    BY <1>2, <1>3, <1>4

\* The common head of every received message.
LEMMA ReceiveHeadStep ==
  ASSUME IInv, NEW m, ReceiveHead(m)
  PROVE  /\ m \in toClient /\ toClient' \subseteq toClient
         /\ m.id \in Query \cup {NoQuery}
         /\ m.env \in Salt /\ m.new \in Salt
         /\ ackTree' \subseteq MsgId /\ ackTimer' \in BOOLEAN
         /\ AckTimerIffAcks'
  <1> USE DEF IInv, ReceiveHead, InsertMsgId
  <1>1. m \in toClient /\ toClient' \subseteq toClient
    OBVIOUS
  <1>2. /\ m.id \in Query \cup {NoQuery}
        /\ m.env \in Salt /\ m.new \in Salt
    BY <1>1, ToClientTypes
  <1>3. ackTree' \subseteq MsgId
    BY <1>2 DEF TypeOK, MsgId
  <1>4. ackTimer' \in BOOLEAN
    BY DEF TypeOK
  <1>5. AckTimerIffAcks'
    BY DEF AckTimerIffAcks
  <1>6. QED
    BY <1>1, <1>2, <1>3, <1>4, <1>5

\* An acknowledgement: the timer is there, and no rejection of the first
\* transmission is still to come.
LEMMA WorkMsgsAckStep ==
  ASSUME IInv, NEW m, WorkMsgsAck(m)
  PROVE  IInv'
  <1> USE DEF IInv, WorkMsgsAck, client, table, session, server, bounds
  <1>1. /\ m \in toClient /\ toClient' \subseteq toClient
        /\ m.id \in Query \cup {NoQuery} /\ m.env \in Salt
        /\ ackTree' \subseteq MsgId /\ ackTimer' \in BOOLEAN
        /\ AckTimerIffAcks'
    BY ReceiveHeadStep
  <1>2. /\ acked' \subseteq acked \cup {m.id} /\ acked' \subseteq tree
        /\ timers' = tree \ acked' /\ aborted' = FALSE
    <2>1. aborted = FALSE
      BY DEF TableInv, TypeOK
    <2>2. CASE m.id \in tree \ acked
      <3>1. /\ acked' = acked \cup {m.id}
            /\ timers' = timers \ {m.id} /\ aborted' = (m.id \notin timers)
        BY <2>2 DEF QueryAck, RemoveTimer
      <3>2. m.id \in timers
        BY <2>2 DEF TableInv
      <3>3. QED
        BY <3>1, <3>2, <2>2 DEF TableInv
    <2>3. CASE m.id \notin tree \ acked
      <3>1. UNCHANGED <<acked, timers, aborted>>
        BY <2>3 DEF QueryAck
      <3>2. QED
        BY <3>1, <2>1 DEF TableInv
    <2>4. QED
      BY <2>2, <2>3
  <1>3. TypeOK'
    BY <1>1, <1>2 DEF TypeOK
  <1>4. TableInv' /\ ServerInv'
    BY <1>2 DEF TableInv, ServerInv
  <1>5. Idle' = Idle
    BY DEF Idle
  <1>6. SentInv'
    BY <1>1, <1>5 DEF SentInv
  <1>7. PlainInv'
    BY <1>1, <1>2 DEF PlainInv
  <1>8. BadSaltInv'
    BY <1>1, <1>2 DEF BadSaltInv, ReceiveHead, InOrder
  <1>9. QED
    BY <1>1, <1>3, <1>4, <1>6, <1>7, <1>8

\* An answer or an error, with the queries its method sends.
LEMMA FinishStep ==
  ASSUME IInv, NEW q \in Query \cup {NoQuery}, NEW F \in SUBSET Idle,
         NEW s \in Salt, Finish(q, F, s), Cardinality(F) \in Nat,
         toClient' \subseteq toClient
  PROVE  /\ tree' \subseteq Query /\ acked' \subseteq Query
         /\ timers' \subseteq Query /\ completed' \in [Query -> Nat]
         /\ queriesNum' \in Int /\ aborted' \in BOOLEAN
         /\ toServer' \subseteq QueryMsg \cup AcksMsg
         /\ TableInv' /\ SentInv' /\ PlainInv' /\ BadSaltInv'
  <1> USE DEF IInv
  <1> DEFINE P == {Plain(f, s) : f \in F}
  <1>1. /\ \A m \in P : m \in QueryMsg /\ m.kind = "plain" /\ m.q \in F
        /\ \A m, n \in P : m.q = n.q => m = n
    <2>1. \A f \in F : Plain(f, s) \in QueryMsg /\ Plain(f, s).kind = "plain"
                       /\ Plain(f, s).q = f
      BY QueryMsgTypes DEF Idle
    <2>2. QED
      BY <2>1
  <1>2. toServer' = toServer \cup P
    BY DEF Finish
  <1> HIDE DEF P
  <1>3. F \subseteq Query /\ F \cap tree = {} /\ F \cap acked = {}
        /\ \A f \in F : completed[f] = 0
    BY DEF Idle, TableInv
  <1>4. /\ tree' \subseteq Query /\ acked' \subseteq Query
        /\ timers' \subseteq Query /\ completed' \in [Query -> Nat]
        /\ TableInv'
        /\ Idle' \subseteq Idle /\ Idle' \cap F = {} /\ acked' \subseteq acked
    <2>1. CASE q \in tree
      <3>1. /\ q \in Query
            /\ aborted' = (ArmedStill(q) /\ q \notin timers)
            /\ tree' = (tree \ {q}) \cup F
            /\ timers' = (IF ArmedStill(q) THEN timers \ {q} ELSE timers) \cup F
            /\ acked' = acked \ {q}
            /\ completed' = [completed EXCEPT ![q] = @ + 1]
        BY <2>1 DEF Finish, Unlinked, TypeOK
      <3>2. aborted' = FALSE
        BY <3>1, <2>1 DEF ArmedStill, TableInv
      <3>3. acked' \subseteq tree' /\ timers' = tree' \ acked'
        BY <3>1, <1>3, <2>1 DEF ArmedStill, TableInv
      <3>4. \A r \in Query : /\ completed'[r] \in {0, 1}
                             /\ r \in tree' => completed'[r] = 0
        BY <3>1, <1>3, <2>1 DEF TableInv, TypeOK
      <3>5. completed' \in [Query -> Nat]
        BY <3>1, <3>4 DEF TypeOK
      <3>6. tree' \subseteq Query /\ acked' \subseteq Query /\ timers' \subseteq Query
        BY <3>1, <1>3 DEF TypeOK
      <3>7. Idle' \subseteq Idle /\ Idle' \cap F = {} /\ acked' \subseteq acked
        BY <3>1, <2>1 DEF Idle, TypeOK
      <3>8. QED
        BY <3>2, <3>3, <3>4, <3>5, <3>6, <3>7 DEF TableInv
    <2>2. CASE q \notin tree
      <3>1. F = {} /\ UNCHANGED <<aborted, tree, timers, acked, completed>>
        BY <2>2 DEF Finish
      <3>2. QED
        BY <3>1 DEF TableInv, TypeOK, Idle
    <2>3. QED
      BY <2>1, <2>2
  <1>5. queriesNum' \in Int /\ aborted' \in BOOLEAN
    <2>1. queriesNum' \in Int
      BY DEF Finish, CountedOff, TypeOK
    <2>2. aborted' \in BOOLEAN
      BY Zenon DEF Finish, TypeOK
    <2>3. QED
      BY <2>1, <2>2
  <1>6. toServer' \subseteq QueryMsg \cup AcksMsg
    BY <1>1, <1>2 DEF TypeOK
  <1>7. SentInv'
    BY <1>1, <1>2, <1>4 DEF SentInv
  <1>8. PlainInv'
    <2>1. \A m \in toServer : m.kind = "plain" => m.q \notin F
      BY DEF SentInv
    <2>2. \A a \in toClient : a.kind = "ack" => a.id \notin F
      BY DEF SentInv
    <2>3. \A m \in P : m.kind = "plain" => m.q \notin acked'
      BY <1>1, <1>3, <1>4
    <2>4. QED
      BY <1>1, <1>2, <1>4, <2>1, <2>2, <2>3 DEF PlainInv
  <1>9. BadSaltInv'
    BY <1>4 DEF BadSaltInv
  <1>10. QED
    BY <1>4, <1>5, <1>6, <1>7, <1>8, <1>9

\* A method is followed by no query or by one that was never sent.
LEMMA FollowUpTypes ==
  ASSUME NEW next \in Idle \cup {NoQuery}
  PROVE  /\ FollowUp(next) \in SUBSET Idle
         /\ Cardinality(FollowUp(next)) \in {0, 1}
  <1>1. FollowUp(next) = {} \/ FollowUp(next) = {next}
    BY DEF FollowUp
  <1>2. FollowUp(next) \in SUBSET Idle
    BY DEF FollowUp
  <1>3. Cardinality({}) = 0 /\ Cardinality({next}) = 1
    BY FS_EmptySet, FS_Singleton
  <1>4. QED
    BY <1>1, <1>2, <1>3

LEMMA WorkRpcErrorStep ==
  ASSUME IInv, NEW m, WorkRpcError(m)
  PROVE  IInv'
  <1> USE DEF WorkRpcError, server, bounds
  <1>1. /\ m.id \in Query \cup {NoQuery} /\ m.env \in Salt
        /\ toClient' \subseteq toClient
        /\ ackTree' \subseteq MsgId /\ ackTimer' \in BOOLEAN
        /\ AckTimerIffAcks'
    BY ReceiveHeadStep
  <1>2. Finish(m.id, {}, m.env) /\ {} \in SUBSET Idle
    BY DEF QueryError
  <1>3. Cardinality({}) \in Nat
    BY FS_EmptySet
  <1>4. /\ tree' \subseteq Query /\ acked' \subseteq Query
        /\ timers' \subseteq Query /\ completed' \in [Query -> Nat]
        /\ queriesNum' \in Int /\ aborted' \in BOOLEAN
        /\ toServer' \subseteq QueryMsg \cup AcksMsg
        /\ TableInv' /\ SentInv' /\ PlainInv' /\ BadSaltInv'
    BY <1>1, <1>2, <1>3, FinishStep
  <1>5. TypeOK'
    BY <1>1, <1>4 DEF IInv, TypeOK
  <1>6. ServerInv'
    BY DEF IInv, ServerInv
  <1>7. QED
    BY <1>1, <1>4, <1>5, <1>6 DEF IInv

LEMMA WorkRpcResultStep ==
  ASSUME IInv, NEW m, WorkRpcResult(m)
  PROVE  IInv'
  <1> USE DEF WorkRpcResult, server, bounds
  <1>1. /\ m.id \in Query \cup {NoQuery} /\ m.env \in Salt
        /\ toClient' \subseteq toClient
        /\ ackTree' \subseteq MsgId /\ ackTimer' \in BOOLEAN
        /\ AckTimerIffAcks'
    BY ReceiveHeadStep
  <1>2. PICK next \in Idle \cup {NoQuery} :
          Finish(m.id, FollowUp(next), m.env)
    BY DEF QueryResult
  <1>3. /\ FollowUp(next) \in SUBSET Idle
        /\ Cardinality(FollowUp(next)) \in Nat
    BY FollowUpTypes
  <1>4. /\ tree' \subseteq Query /\ acked' \subseteq Query
        /\ timers' \subseteq Query /\ completed' \in [Query -> Nat]
        /\ queriesNum' \in Int /\ aborted' \in BOOLEAN
        /\ toServer' \subseteq QueryMsg \cup AcksMsg
        /\ TableInv' /\ SentInv' /\ PlainInv' /\ BadSaltInv'
    BY <1>1, <1>2, <1>3, FinishStep
  <1>5. TypeOK'
    BY <1>1, <1>4 DEF IInv, TypeOK
  <1>6. ServerInv'
    BY DEF IInv, ServerInv
  <1>7. QED
    BY <1>1, <1>4, <1>5, <1>6 DEF IInv

\* A rejection: by BadSaltInv the query it names still has its timer.
LEMMA WorkBadServerSaltStep ==
  ASSUME IInv, NEW m, WorkBadServerSalt(m)
  PROVE  /\ IInv'
         /\ m.id \in tree => m.id \notin acked
  <1> USE DEF WorkBadServerSalt, server, bounds
  <1>1. /\ m \in toClient /\ m.env \in Salt /\ m.new \in Salt
        /\ toClient' \subseteq toClient
        /\ ackTree' \subseteq MsgId /\ ackTimer' \in BOOLEAN
        /\ AckTimerIffAcks'
    BY ReceiveHeadStep
  <1>2. m.id \notin acked
    BY <1>1 DEF IInv, BadSaltInv
  <1>3. aborted = FALSE
    BY DEF IInv, TableInv, TypeOK
  <1>4. /\ timers' = timers /\ aborted' = FALSE
        /\ toServer' \subseteq QueryMsg \cup AcksMsg
        /\ SentInv' /\ PlainInv' /\ BadSaltInv'
    <2>1. CASE m.id \in tree
      <3>1. /\ timers' = timers \cup {m.id} /\ aborted' = (m.id \notin timers)
            /\ toServer' = toServer \cup Resend(m.id, m.env)
        BY <2>1 DEF QueryRestart
      <3>2. m.id \in timers
        BY <1>2, <2>1 DEF IInv, TableInv
      <3>3. /\ toServer' \subseteq QueryMsg \cup AcksMsg
            /\ SentInv' /\ PlainInv' /\ BadSaltInv'
        BY <1>1, <2>1, <3>1, ResendStep
      <3>4. QED
        BY <3>1, <3>2, <3>3
    <2>2. CASE m.id \notin tree
      <3>1. UNCHANGED <<timers, aborted, toServer>>
        BY <2>2 DEF QueryRestart
      <3>2. Idle' = Idle
        BY DEF Idle
      <3>3. SentInv' /\ PlainInv' /\ BadSaltInv'
        BY <1>1, <3>1, <3>2 DEF IInv, SentInv, PlainInv, BadSaltInv
      <3>4. QED
        BY <1>3, <3>1, <3>3 DEF IInv, TypeOK
    <2>3. QED
      BY <2>1, <2>2
  <1>5. TypeOK'
    BY <1>1, <1>4 DEF IInv, TypeOK
  <1>6. TableInv' /\ ServerInv'
    BY <1>4 DEF IInv, TableInv, ServerInv
  <1>7. QED
    BY <1>1, <1>2, <1>4, <1>5, <1>6 DEF IInv

LEMMA WorkNewSessionCreatedStep ==
  ASSUME IInv, NEW m, WorkNewSessionCreated(m)
  PROVE  IInv'
  <1> USE DEF WorkNewSessionCreated, table, server, bounds
  <1>1. /\ m.new \in Salt /\ toClient' \subseteq toClient
        /\ ackTree' \subseteq MsgId /\ ackTimer' \in BOOLEAN
        /\ AckTimerIffAcks'
    BY ReceiveHeadStep
  <1>2. TypeOK'
    BY <1>1 DEF IInv, TypeOK
  <1>3. Idle' = Idle
    BY DEF Idle
  <1>4. TableInv' /\ ServerInv'
    BY DEF IInv, TableInv, ServerInv
  <1>5. SentInv' /\ PlainInv' /\ BadSaltInv'
    BY <1>1, <1>3 DEF IInv, SentInv, PlainInv, BadSaltInv
  <1>6. QED
    BY <1>1, <1>2, <1>4, <1>5 DEF IInv

LEMMA SendAllAcksStep ==
  ASSUME IInv, SendAllAcks
  PROVE  IInv'
  <1> USE DEF IInv, SendAllAcks, table, server, bounds
  <1>1. Acks(ackTree, salt) \subseteq AcksMsg
    BY DEF Acks, AcksMsg, MsgId, TypeOK
  <1>2. \A a \in Acks(ackTree, salt) : a.kind = "acks"
    BY DEF Acks
  <1>3. TypeOK'
    BY <1>1 DEF TypeOK
  <1>4. AckTimerIffAcks'
    BY DEF AckTimerIffAcks
  <1>5. Idle' = Idle
    BY DEF Idle
  <1>6. TableInv' /\ ServerInv' /\ SentInv' /\ BadSaltInv'
    BY <1>2, <1>5 DEF TableInv, ServerInv, SentInv, BadSaltInv
  <1>7. PlainInv'
    BY <1>2 DEF PlainInv
  <1>8. QED
    BY <1>3, <1>4, <1>6, <1>7

\* The quit flag concerns no other variable.
LEMMA QuitStep ==
  ASSUME IInv, AskSafeQuit \/ QuitWhenDone
  PROVE  IInv'
  <1> USE DEF IInv, AskSafeQuit, QuitWhenDone, client, table, session, server,
              bounds
  <1>1. TypeOK'
    BY DEF TypeOK
  <1>2. Idle' = Idle
    BY DEF Idle
  <1>3. TableInv' /\ AckTimerIffAcks' /\ ServerInv'
    BY DEF TableInv, AckTimerIffAcks, ServerInv
  <1>4. SentInv' /\ PlainInv' /\ BadSaltInv'
    BY <1>2 DEF SentInv, PlainInv, BadSaltInv
  <1>5. QED
    BY <1>1, <1>3, <1>4

\* The server rejects a message; the rejection of a first transmission names
\* its query, which PlainInv knows not to be acknowledged.
LEMMA ServerRejectsStep ==
  ASSUME IInv, NEW m \in toServer, ServerRejects(m)
  PROVE  IInv'
  <1> USE DEF ServerRejects, client, table, session, bounds, server
  <1>1. PICK env \in {m.salt, serverSalt} :
          toClient' = toClient \cup
            {Reply("badsalt", IF m.kind = "plain" THEN m.q ELSE NoQuery, env)}
    OBVIOUS
  <1> DEFINE id == IF m.kind = "plain" THEN m.q ELSE NoQuery
             r == Reply("badsalt", id, env)
  <1>2. id \in Query \cup {NoQuery} /\ env \in Salt /\ serverSalt \in Salt
    BY ToServerTypes DEF IInv, TypeOK
  <1>3. r \in ServerMsg /\ r.kind = "badsalt" /\ r.id = id
    <2>1. "badsalt" \in Kind
      BY DEF Kind
    <2>2. QED
      BY <1>2, <2>1, ReplyTypes
  <1>4. id \notin acked
    BY QueryAssumption DEF IInv, TypeOK, PlainInv
  <1> HIDE DEF id, r
  <1>5. toClient' = toClient \cup {r} /\ toServer' \subseteq toServer
    BY <1>1 DEF r, id
  <1>6. TypeOK'
    BY <1>3, <1>5 DEF IInv, TypeOK
  <1>7. Idle' = Idle
    BY DEF Idle
  <1>8. TableInv' /\ AckTimerIffAcks' /\ ServerInv'
    BY DEF IInv, TableInv, AckTimerIffAcks, ServerInv
  <1>9. SentInv' /\ PlainInv'
    BY <1>3, <1>5, <1>7 DEF IInv, SentInv, PlainInv
  <1>10. BadSaltInv'
    BY <1>3, <1>4, <1>5 DEF IInv, BadSaltInv
  <1>11. QED
    BY <1>6, <1>8, <1>9, <1>10 DEF IInv

\* The server accepts a query: no first transmission of it is left.
LEMMA ServerAcceptsStep ==
  ASSUME IInv, NEW m \in toServer, ServerAccepts(m)
  PROVE  IInv'
  <1> USE DEF ServerAccepts, client, table, session, bounds
  <1>1. PICK acks \in {{}, {Reply("ack", m.q, serverSalt)}} :
          toClient' = toClient \cup acks
    OBVIOUS
  <1>2. m.q \in Query /\ serverSalt \in Salt
    BY ToServerTypes DEF IInv, TypeOK
  <1>3. \A r \in acks : r \in ServerMsg /\ r.kind = "ack" /\ r.id = m.q
    <2>1. Reply("ack", m.q, serverSalt) \in ServerMsg
          /\ Reply("ack", m.q, serverSalt).kind = "ack"
          /\ Reply("ack", m.q, serverSalt).id = m.q
      BY <1>2, ReplyTypes DEF Kind
    <2>2. QED
      BY <2>1
  <1>4. m.q \notin Idle
    BY DEF IInv, SentInv
  <1>5. \A p \in toServer' : p.kind = "plain" => p.q # m.q
    <2>1. m.kind \in {"plain", "container"}
      BY DEF IInv, TypeOK, QueryMsg, AcksMsg
    <2>2. CASE m.kind = "plain"
      BY <2>2 DEF IInv, PlainInv
    <2>3. CASE m.kind = "container"
      BY <2>3
    <2>4. QED
      BY <2>1, <2>2, <2>3
  <1>6. redeliver' \subseteq redeliver \cup {m.q}
        /\ \A q \in redeliver' : answer[q] # "none"
    BY DEF IInv, ServerInv
  <1>7. toClient' \subseteq ServerMsg
    BY <1>1, <1>3 DEF IInv, TypeOK
  <1>8. TypeOK'
    BY <1>2, <1>6, <1>7 DEF IInv, TypeOK
  <1>9. Idle' = Idle
    BY DEF Idle
  <1>10. TableInv' /\ AckTimerIffAcks'
    BY DEF IInv, TableInv, AckTimerIffAcks
  <1>11. ServerInv'
    BY <1>6 DEF IInv, ServerInv
  <1>12. SentInv'
    BY <1>1, <1>3, <1>4, <1>9 DEF IInv, SentInv
  <1>13. PlainInv'
    BY <1>1, <1>3, <1>5 DEF IInv, PlainInv
  <1>14. BadSaltInv'
    BY <1>1, <1>3 DEF IInv, BadSaltInv
  <1>15. QED
    BY <1>8, <1>10, <1>11, <1>12, <1>13, <1>14 DEF IInv

LEMMA ServerReadsAcksStep ==
  ASSUME IInv, NEW m \in toServer, ServerReadsAcks(m)
  PROVE  IInv'
  <1> USE DEF ServerReadsAcks, client, table, session, bounds
  <1>1. TypeOK'
    BY DEF IInv, TypeOK
  <1>2. Idle' = Idle
    BY DEF Idle
  <1>3. TableInv' /\ AckTimerIffAcks' /\ ServerInv'
    BY DEF IInv, TableInv, AckTimerIffAcks, ServerInv
  <1>4. SentInv' /\ PlainInv' /\ BadSaltInv'
    BY <1>2 DEF IInv, SentInv, PlainInv, BadSaltInv
  <1>5. QED
    BY <1>1, <1>3, <1>4 DEF IInv

\* An answer, new or repeated, enters the connection.
LEMMA AnswerInFlight ==
  ASSUME IInv, NEW q \in Query, NEW a \in Answer,
         toClient' = toClient \cup {Reply(a, q, serverSalt)},
         UNCHANGED <<client, toServer>>
  PROVE  /\ toClient' \subseteq ServerMsg
         /\ TableInv' /\ AckTimerIffAcks'
         /\ SentInv' /\ PlainInv' /\ BadSaltInv'
  <1> USE DEF client, table, session
  <1> DEFINE r == Reply(a, q, serverSalt)
  <1>1. serverSalt \in Salt /\ a \in Kind /\ a \notin {"ack", "badsalt"}
    BY DEF IInv, TypeOK, Kind, Answer
  <1>2. r \in ServerMsg /\ r.kind \notin {"ack", "badsalt"}
    BY <1>1, ReplyTypes
  <1> HIDE DEF r
  <1>3. toClient' = toClient \cup {r}
    BY DEF r
  <1>4. Idle' = Idle
    BY DEF Idle
  <1>5. toClient' \subseteq ServerMsg
    BY <1>2, <1>3 DEF IInv, TypeOK
  <1>6. TableInv' /\ AckTimerIffAcks'
    BY DEF IInv, TableInv, AckTimerIffAcks
  <1>7. SentInv' /\ PlainInv' /\ BadSaltInv'
    BY <1>2, <1>3, <1>4 DEF IInv, SentInv, PlainInv, BadSaltInv
  <1>8. QED
    BY <1>5, <1>6, <1>7

LEMMA ServerAnswersStep ==
  ASSUME IInv, NEW q \in Query, ServerAnswers(q)
  PROVE  IInv'
  <1> USE DEF ServerAnswers, bounds
  <1>1. PICK a \in Answer :
          /\ answer' = [answer EXCEPT ![q] = a]
          /\ unacked' = unacked \cup {q}
          /\ toClient' = toClient \cup {Reply(a, q, serverSalt)}
    OBVIOUS
  <1>2. /\ toClient' \subseteq ServerMsg
        /\ TableInv' /\ AckTimerIffAcks'
        /\ SentInv' /\ PlainInv' /\ BadSaltInv'
    BY <1>1, AnswerInFlight
  <1>3. TypeOK'
    BY <1>1, <1>2 DEF IInv, TypeOK, client, table, session
  <1>4. ServerInv'
    BY <1>1 DEF IInv, ServerInv, TypeOK, Answer
  <1>5. QED
    BY <1>2, <1>3, <1>4 DEF IInv

LEMMA ServerRedeliversStep ==
  ASSUME IInv, NEW q \in Query, ServerRedelivers(q)
  PROVE  IInv'
  <1> USE DEF ServerRedelivers, bounds
  <1>1. answer[q] \in Answer
    BY DEF IInv, ServerInv, TypeOK
  <1>2. /\ toClient' \subseteq ServerMsg
        /\ TableInv' /\ AckTimerIffAcks'
        /\ SentInv' /\ PlainInv' /\ BadSaltInv'
    BY <1>1, AnswerInFlight
  <1>3. TypeOK'
    BY <1>2 DEF IInv, TypeOK, client, table, session
  <1>4. ServerInv'
    BY DEF IInv, ServerInv
  <1>5. QED
    BY <1>2, <1>3, <1>4 DEF IInv

LEMMA ServerChangesSaltStep ==
  ASSUME IInv, ServerChangesSalt
  PROVE  IInv'
  <1> USE DEF ServerChangesSalt, client, table, session, bounds
  <1>1. serverSalt' \in Salt
    BY BoundAssumption DEF IInv, TypeOK, Salt
  <1>2. TypeOK'
    BY <1>1 DEF IInv, TypeOK
  <1>3. Idle' = Idle
    BY DEF Idle
  <1>4. TableInv' /\ AckTimerIffAcks' /\ ServerInv'
    BY DEF IInv, TableInv, AckTimerIffAcks, ServerInv
  <1>5. SentInv' /\ PlainInv' /\ BadSaltInv'
    BY <1>3 DEF IInv, SentInv, PlainInv, BadSaltInv
  <1>6. QED
    BY <1>2, <1>4, <1>5 DEF IInv

LEMMA ServerForgetsStep ==
  ASSUME IInv, ServerForgets
  PROVE  IInv'
  <1> USE DEF ServerForgets, client, table, session
  <1> DEFINE r == Reply("newsession", NoQuery, serverSalt)
  <1>1. r \in ServerMsg /\ r.kind = "newsession"
    <2>1. "newsession" \in Kind /\ serverSalt \in Salt
      BY DEF IInv, TypeOK, Kind
    <2>2. QED
      BY <2>1, ReplyTypes
  <1> HIDE DEF r
  <1>2. toClient' = toClient \cup {r}
    BY DEF r
  <1>3. resets' \in 0..MaxResets
    BY BoundAssumption DEF IInv, TypeOK
  <1>4. answer' \in [Query -> Answer \cup {"none"}]
    OBVIOUS
  <1>5. TypeOK'
    BY <1>1, <1>2, <1>3, <1>4 DEF IInv, TypeOK
  <1>6. Idle' = Idle
    BY DEF Idle
  <1>7. TableInv' /\ AckTimerIffAcks' /\ ServerInv'
    BY DEF IInv, TableInv, AckTimerIffAcks, ServerInv
  <1>8. SentInv' /\ PlainInv' /\ BadSaltInv'
    BY <1>1, <1>2, <1>6 DEF IInv, SentInv, PlainInv, BadSaltInv
  <1>9. QED
    BY <1>5, <1>7, <1>8 DEF IInv

LEMMA DropConnectionStep ==
  ASSUME IInv, DropConnection
  PROVE  IInv'
  <1> USE DEF DropConnection, client, table, session
  <1>1. drops' \in 0..MaxDrops
    BY BoundAssumption DEF IInv, TypeOK
  <1>2. TypeOK'
    BY <1>1 DEF IInv, TypeOK
  <1>3. TableInv' /\ AckTimerIffAcks' /\ ServerInv'
    BY DEF IInv, TableInv, AckTimerIffAcks, ServerInv
  <1>4. SentInv' /\ PlainInv' /\ BadSaltInv'
    BY DEF SentInv, PlainInv, BadSaltInv
  <1>5. QED
    BY <1>2, <1>3, <1>4 DEF IInv

-----------------------------------------------------------------------------
\* Every step preserves the inductive invariant.
LEMMA NextIInv == IInv /\ [Next]_vars => IInv'
  <1> SUFFICES ASSUME IInv, [Next]_vars PROVE IInv'
    OBVIOUS
  <1>1. CASE UNCHANGED vars
    <2> USE <1>1 DEF vars, client, table, session, server, bounds
    <2>1. TypeOK'
      BY DEF IInv, TypeOK
    <2>2. Idle' = Idle
      BY DEF Idle
    <2>3. TableInv' /\ AckTimerIffAcks' /\ ServerInv'
      BY DEF IInv, TableInv, AckTimerIffAcks, ServerInv
    <2>4. SentInv' /\ PlainInv' /\ BadSaltInv'
      BY <2>2 DEF IInv, SentInv, PlainInv, BadSaltInv
    <2>5. QED
      BY <2>1, <2>3, <2>4 DEF IInv
  <1>2. ASSUME NEW q \in Query, SendQuery(q) \/ AlarmQuery(q)
        PROVE  IInv'
    BY <1>2, SendQueryStep, AlarmQueryStep
  <1>3. ASSUME NEW m \in toClient, Receive(m)
        PROVE  IInv'
    BY <1>3, WorkMsgsAckStep, WorkRpcErrorStep, WorkRpcResultStep,
       WorkBadServerSaltStep, WorkNewSessionCreatedStep DEF Receive
  <1>4. CASE SendAllAcks \/ AskSafeQuit \/ QuitWhenDone
    BY <1>4, SendAllAcksStep, QuitStep
  <1>5. ASSUME NEW m \in toServer, ServerReads(m)
        PROVE  IInv'
    BY <1>5, ServerRejectsStep, ServerAcceptsStep, ServerReadsAcksStep
       DEF ServerReads
  <1>6. ASSUME NEW q \in Query, ServerAnswers(q) \/ ServerRedelivers(q)
        PROVE  IInv'
    BY <1>6, ServerAnswersStep, ServerRedeliversStep
  <1>7. CASE ServerChangesSalt \/ ServerForgets \/ DropConnection
    BY <1>7, ServerChangesSaltStep, ServerForgetsStep, DropConnectionStep
  <1>8. QED
    BY <1>1, <1>2, <1>3, <1>4, <1>5, <1>6, <1>7
       DEF Next, ClientStep, ServerStep

THEOREM Invariance == Spec => []IInv
  BY InitIInv, NextIInv, PTL DEF Spec

\* TypeOK holds in every run.
THEOREM TypeCorrect == Spec => []TypeOK
  <1>1. IInv => TypeOK
    BY DEF IInv
  <1>2. QED
    BY <1>1, Invariance, PTL

\* No timer is removed that is not in the timer tree.
THEOREM NoAssertEverFails == Spec => []NoAssertFails
  <1>1. IInv => NoAssertFails
    BY DEF IInv, TableInv, NoAssertFails
  <1>2. QED
    BY <1>1, Invariance, PTL

\* The timers are those of the queries that wait for an acknowledgement.
THEOREM TimersAreExact == Spec => []TimerIffWaiting
  <1>1. IInv => TimerIffWaiting
    BY DEF IInv, TableInv, TimerIffWaiting
  <1>2. QED
    BY <1>1, Invariance, PTL

\* The acknowledgement timer is armed exactly when ids are due.
THEOREM AckTimerIsExact == Spec => []AckTimerIffAcks
  <1>1. IInv => AckTimerIffAcks
    BY DEF IInv
  <1>2. QED
    BY <1>1, Invariance, PTL

\* Every resend is of a query that waits for an acknowledgement.
THEOREM ResendsAreWanted == Spec => ResendOnlyWaiting
  <1> DEFINE A == \A q \in Query, s \in Salt :
                    Container(q, s) \in toServer' \ toServer => q \in tree \ acked
  <1>1. ASSUME IInv, [Next]_vars, NEW q \in Query, NEW s \in Salt,
               Container(q, s) \in toServer' \ toServer
        PROVE  q \in tree \ acked
    <2>1. /\ Container(q, s).kind = "container" /\ Container(q, s).q = q
          /\ \A p, t : Plain(p, t).kind = "plain"
          /\ \A p, t : \A c \in Resend(p, t) : c.q = p
          /\ \A a \in Acks(ackTree, salt) : a.kind = "acks"
      BY DEF Container, Plain, Resend, Acks
    <2>2. CASE UNCHANGED vars
      BY <1>1, <2>2 DEF vars
    <2>3. CASE \E p \in Query : SendQuery(p)
      BY <1>1, <2>1, <2>3 DEF SendQuery
    <2>4. CASE \E p \in Query : AlarmQuery(p)
      BY <1>1, <2>1, <2>4 DEF AlarmQuery, IInv, TableInv
    <2>5. ASSUME NEW m \in toClient, Receive(m)
          PROVE  q \in tree \ acked
      <3>1. CASE WorkMsgsAck(m)
        BY <1>1, <3>1 DEF WorkMsgsAck
      <3>2. CASE WorkRpcError(m)
        BY <1>1, <2>1, <3>2 DEF WorkRpcError, QueryError, Finish
      <3>3. CASE WorkRpcResult(m)
        BY <1>1, <2>1, <3>3 DEF WorkRpcResult, QueryResult, Finish
      <3>4. CASE WorkBadServerSalt(m)
        <4>1. m.id \in tree /\ Container(q, s) \in Resend(m.id, m.env)
          BY <1>1, <3>4 DEF WorkBadServerSalt, QueryRestart
        <4>2. q = m.id
          BY <2>1, <4>1
        <4>3. QED
          BY <1>1, <3>4, <4>1, <4>2, WorkBadServerSaltStep
      <3>5. CASE WorkNewSessionCreated(m)
        BY <1>1, <3>5 DEF WorkNewSessionCreated
      <3>6. QED
        BY <2>5, <3>1, <3>2, <3>3, <3>4, <3>5 DEF Receive
    <2>6. CASE SendAllAcks
      BY <1>1, <2>1, <2>6 DEF SendAllAcks
    <2>7. CASE AskSafeQuit \/ QuitWhenDone
      BY <1>1, <2>7 DEF AskSafeQuit, QuitWhenDone
    <2>8. CASE ServerStep
      BY <1>1, <2>8 DEF ServerStep, ServerReads, ServerRejects, ServerAccepts,
         ServerReadsAcks, ServerAnswers, ServerRedelivers, ServerChangesSalt,
         ServerForgets, DropConnection
    <2>9. QED
      BY <1>1, <2>2, <2>3, <2>4, <2>5, <2>6, <2>7, <2>8 DEF Next, ClientStep
  <1>2. IInv /\ [Next]_vars => A
    BY <1>1
  <1>3. IInv /\ [Next]_vars => [A]_vars
    BY <1>2
  <1>4. QED
    BY <1>3, Invariance, PTL DEF Spec, ResendOnlyWaiting

-----------------------------------------------------------------------------
(* The count of queries.                                                   *)

CountInv == IInv /\ CountNotAhead

\* Adding F, or taking q away and adding F, moves the size of the table by as
\* much as it moves the count.
LEMMA FinishCount ==
  ASSUME CountInv, NEW q \in Query \cup {NoQuery},
         NEW F, F = {} \/ \E next \in Idle : F = {next},
         NEW s, Finish(q, F, s)
  PROVE  CountNotAhead'
  <1> USE DEF CountInv
  <1>1. IsFiniteSet(tree)
    BY QueryAssumption, FS_Subset DEF IInv, TypeOK
  <1>2. IsFiniteSet(tree \ {q})
        /\ Cardinality(tree \ {q}) =
             IF q \in tree THEN Cardinality(tree) - 1 ELSE Cardinality(tree)
    BY <1>1, FS_RemoveElement
  <1>3. Cardinality(tree) \in Nat /\ Cardinality(tree \ {q}) \in Nat
    BY <1>1, <1>2, FS_CardinalityType
  <1>4. queriesNum \in Int /\ queriesNum <= Cardinality(tree)
    BY DEF IInv, TypeOK, CountNotAhead
  <1>5. Cardinality({}) = 0 /\ \A next : Cardinality({next}) = 1
    BY FS_EmptySet, FS_Singleton
  <1>6. queriesNum' = queriesNum - 1 + Cardinality(F)
    BY DEF Finish, CountedOff
  <1>7. CASE q \in tree
    <2>1. tree' = (tree \ {q}) \cup F
      BY <1>7 DEF Finish, Unlinked
    <2>2. CASE F = {}
      BY <1>2, <1>3, <1>4, <1>5, <1>6, <1>7, <2>1, <2>2 DEF CountNotAhead
    <2>3. ASSUME NEW next \in Idle, F = {next}
          PROVE  CountNotAhead'
      <3>1. next \notin tree
        BY <2>3 DEF Idle
      <3>2. Cardinality((tree \ {q}) \cup {next}) = Cardinality(tree \ {q}) + 1
        BY <1>2, <3>1, FS_AddElement
      <3>3. Cardinality(tree') = Cardinality(tree)
        BY <1>2, <1>3, <1>7, <2>1, <2>3, <3>2
      <3>4. Cardinality(F) = 1
        BY <1>5, <2>3
      <3>5. queriesNum' = queriesNum
        BY <1>4, <1>6, <3>4
      <3>6. QED
        BY <1>4, <3>3, <3>5 DEF CountNotAhead
    <2>4. QED
      BY <2>2, <2>3
  <1>8. CASE q \notin tree
    <2>1. F = {} /\ tree' = tree
      BY <1>8 DEF Finish
    <2>2. QED
      BY <1>3, <1>4, <1>5, <1>6, <2>1 DEF CountNotAhead
  <1>9. QED
    BY <1>7, <1>8

\* queries_num never exceeds the number of queries in the table.
THEOREM CountIsNotAhead == Spec => []CountNotAhead
  <1>1. Init => CountInv
    <2>1. Init => CountNotAhead
      BY FS_EmptySet DEF Init, CountNotAhead
    <2>2. QED
      BY <2>1, InitIInv DEF CountInv
  <1>2. CountInv /\ [Next]_vars => CountInv'
    <2> SUFFICES ASSUME CountInv, [Next]_vars PROVE CountNotAhead'
      BY NextIInv DEF CountInv
    <2>1. ASSUME UNCHANGED <<tree, queriesNum>>
          PROVE  CountNotAhead'
      BY <2>1 DEF CountInv, CountNotAhead
    <2>2. ASSUME NEW q \in Query, SendQuery(q)
          PROVE  CountNotAhead'
      <3>1. q \notin tree /\ tree' = tree \cup {q} /\ queriesNum' = queriesNum + 1
        BY <2>2 DEF SendQuery, Idle
      <3>2. IsFiniteSet(tree)
        BY QueryAssumption, FS_Subset DEF CountInv, IInv, TypeOK
      <3>3. Cardinality(tree') = Cardinality(tree) + 1 /\ Cardinality(tree) \in Nat
        BY <3>1, <3>2, FS_AddElement, FS_CardinalityType
      <3>4. QED
        BY <3>1, <3>3 DEF CountInv, IInv, TypeOK, CountNotAhead
    <2>3. ASSUME NEW m \in toClient, Receive(m)
          PROVE  CountNotAhead'
      <3>0. TypeOK
        BY DEF CountInv, IInv
      <3>1. CASE WorkRpcError(m)
        <4>1. Finish(m.id, {}, m.env)
          BY <3>1 DEF WorkRpcError, QueryError
        <4>2. m.id \in Query \cup {NoQuery}
          BY <3>0, ToClientTypes
        <4>3. QED
          BY <4>1, <4>2, FinishCount
      <3>2. CASE WorkRpcResult(m)
        <4>1. PICK next \in Idle \cup {NoQuery} :
                Finish(m.id, FollowUp(next), m.env)
          BY <3>2 DEF WorkRpcResult, QueryResult
        <4>2. \/ FollowUp(next) = {}
              \/ \E f \in Idle : FollowUp(next) = {f}
          BY DEF FollowUp
        <4>3. m.id \in Query \cup {NoQuery}
          BY <3>0, ToClientTypes
        <4>4. QED
          BY <4>1, <4>2, <4>3, FinishCount
      <3>3. CASE WorkMsgsAck(m) \/ WorkBadServerSalt(m) \/ WorkNewSessionCreated(m)
        BY <2>1, <3>3 DEF WorkMsgsAck, WorkBadServerSalt, WorkNewSessionCreated,
           table
      <3>4. QED
        BY <2>3, <3>1, <3>2, <3>3 DEF Receive
    <2>4. CASE \E q \in Query : AlarmQuery(q)
      BY <2>1, <2>4 DEF AlarmQuery, client, table
    <2>5. CASE SendAllAcks \/ AskSafeQuit \/ QuitWhenDone
      BY <2>1, <2>5 DEF SendAllAcks, AskSafeQuit, QuitWhenDone, client, table
    <2>6. CASE ServerStep
      BY <2>1, <2>6 DEF ServerStep, ServerReads, ServerRejects, ServerAccepts,
         ServerReadsAcks, ServerAnswers, ServerRedelivers, ServerChangesSalt,
         ServerForgets, DropConnection, client, table
    <2>7. CASE UNCHANGED vars
      BY <2>1, <2>7 DEF vars, client, table
    <2>8. QED
      BY <2>2, <2>3, <2>4, <2>5, <2>6, <2>7 DEF Next, ClientStep
  <1>3. CountInv => CountNotAhead
    BY DEF CountInv
  <1>4. QED
    BY <1>1, <1>2, <1>3, PTL DEF Spec

\* The query table, the timers, the acknowledgements due and the count fit
\* together in every reachable state, and no assertion of a timer fails.
THEOREM TableIsRight == Spec => []QueriesRight
  <1>1. TypeOK /\ NoAssertFails /\ TimerIffWaiting /\ AckTimerIffAcks /\ CountNotAhead
        => QueriesRight
    BY DEF QueriesRight
  <1>2. QED
    BY <1>1, TypeCorrect, NoAssertEverFails, TimersAreExact, AckTimerIsExact,
       CountIsNotAhead, PTL

-----------------------------------------------------------------------------
(* Refinement of RpcPromise.                                               *)

\* Every step of the table is a start, a finish or nothing to the promise.
LEMMA PromiseStep ==
  IInv /\ [Next]_vars => [Promise!Next]_([q \in Query |-> StatusOf(q)])
  <1> DEFINE st == [q \in Query |-> StatusOf(q)]
  <1> SUFFICES ASSUME IInv, [Next]_vars PROVE Promise!Next \/ st' = st
    OBVIOUS
  <1>1. ASSUME UNCHANGED <<tree, completed>>
        PROVE  st' = st
    BY <1>1 DEF StatusOf
  <1>2. \A r \in Query :
          /\ r \in Promise!Idle <=> r \in Idle
          /\ r \in Promise!Pending <=> r \in tree
    BY DEF Promise!Idle, Promise!Pending, StatusOf, Idle, IInv, TableInv
  <1>3. ASSUME NEW q \in Query, SendQuery(q)
        PROVE  Promise!Next
    <2>1. q \in Idle /\ tree' = tree \cup {q} /\ completed' = completed
      BY <1>3 DEF SendQuery
    <2>2. st' = [st EXCEPT ![q] = "pending"]
      <3>1. \A r \in Query : StatusOf(r)' =
                             IF r = q THEN "pending" ELSE StatusOf(r)
        BY <2>1 DEF StatusOf, Idle
      <3>2. QED
        BY <3>1
    <2>3. Promise!Start(q)
      BY <1>2, <2>1, <2>2 DEF Promise!Start
    <2>4. QED
      BY <2>3 DEF Promise!Next
  <1>4. ASSUME NEW q \in Query \cup {NoQuery}, NEW F \in SUBSET Idle, NEW s,
               Finish(q, F, s)
        PROVE  Promise!Next \/ st' = st
    <2>1. CASE q \in tree
      <3>1. /\ q \in Query /\ completed[q] = 0
            /\ tree' = (tree \ {q}) \cup F
            /\ completed' = [completed EXCEPT ![q] = @ + 1]
        BY <1>4, <2>1 DEF Finish, Unlinked, IInv, TypeOK, TableInv
      <3>2. \A r \in Query : StatusOf(r)' = IF r = q THEN "finished"
                             ELSE IF r \in F THEN "pending" ELSE StatusOf(r)
        BY <2>1, <3>1 DEF StatusOf, Idle, IInv, TypeOK
      <3>3. F \subseteq Promise!Idle /\ q \in Promise!Pending
        BY <1>2, <2>1, <3>1 DEF Idle
      <3>4. Promise!Finish(q, F)
        BY <3>2, <3>3 DEF Promise!Finish
      <3>5. QED
        BY <3>1, <3>3, <3>4 DEF Promise!Next, Promise!FinishAny
    <2>2. CASE q \notin tree
      <3>1. UNCHANGED <<tree, completed>>
        BY <1>4, <2>2 DEF Finish
      <3>2. QED
        BY <1>1, <3>1
    <2>3. QED
      BY <2>1, <2>2
  <1>5. ASSUME NEW m \in toClient, Receive(m)
        PROVE  Promise!Next \/ st' = st
    <2>1. m.id \in Query \cup {NoQuery}
      BY ToClientTypes DEF IInv
    <2>2. CASE WorkRpcError(m)
      <3>1. Finish(m.id, {}, m.env) /\ {} \in SUBSET Idle
        BY <2>2 DEF WorkRpcError, QueryError
      <3>2. QED
        BY <1>4, <2>1, <3>1
    <2>3. CASE WorkRpcResult(m)
      <3>1. PICK next \in Idle \cup {NoQuery} :
              Finish(m.id, FollowUp(next), m.env)
        BY <2>3 DEF WorkRpcResult, QueryResult
      <3>2. FollowUp(next) \in SUBSET Idle
        BY FollowUpTypes
      <3>3. QED
        BY <1>4, <2>1, <3>1, <3>2
    <2>4. CASE WorkMsgsAck(m) \/ WorkBadServerSalt(m) \/ WorkNewSessionCreated(m)
      BY <1>1, <2>4 DEF WorkMsgsAck, WorkBadServerSalt, WorkNewSessionCreated,
         table
    <2>5. QED
      BY <1>5, <2>2, <2>3, <2>4 DEF Receive
  <1>6. CASE \E q \in Query : AlarmQuery(q)
    BY <1>1, <1>6 DEF AlarmQuery, client, table
  <1>7. CASE SendAllAcks \/ AskSafeQuit \/ QuitWhenDone
    BY <1>1, <1>7 DEF SendAllAcks, AskSafeQuit, QuitWhenDone, client, table
  <1>8. CASE ServerStep
    BY <1>1, <1>8 DEF ServerStep, ServerReads, ServerRejects, ServerAccepts,
       ServerReadsAcks, ServerAnswers, ServerRedelivers, ServerChangesSalt,
       ServerForgets, DropConnection, client, table
  <1>9. CASE UNCHANGED vars
    BY <1>1, <1>9 DEF vars, client, table
  <1>10. QED
    BY <1>3, <1>5, <1>6, <1>7, <1>8, <1>9 DEF Next, ClientStep

\* The query table implements RpcPromise: at most one answer for each query.
THEOREM Refinement == Spec => KeepsPromise
  <1>1. Init => Promise!Init
    BY DEF Init, Promise!Init, StatusOf
  <1>2. QED
    BY <1>1, PromiseStep, Invariance, PTL DEF Spec, KeepsPromise, Promise!Spec

=============================================================================
