---------------------------- MODULE MessageStore ----------------------------
(***************************************************************************)
(* The messages of this client: the tree of all messages, the tree of      *)
(* those not sent yet, the lists of the dialogs and the list of use        *)
(* (structures.c), the events that change them and the log that repeats    *)
(* them at a restart (binlog.c), and the queries that send messages and    *)
(* whose answers rename them (queries.c).                                  *)
(*                                                                         *)
(* A struct message is a cell: a message this client sends is named by its *)
(* random id, a fetched one by the id it is fetched with.  The answer to a *)
(* query gives the cell of the sent message the id of the server.  A       *)
(* dialog's list is ordered by id; here it is the set of its cells, and    *)
(* what is kept of the order is the assertion that no two ids are equal.   *)
(* The server gives a message it has, never an empty one (messageEmpty).   *)
(***************************************************************************)
EXTENDS Naturals, FiniteSets

CONSTANTS
  Local,          \* the messages this client sends, by random id
  Encrypted,      \* those of them that go to the secret chat
  Incoming,       \* messages of the secret chat sent by the peer
  MaxId,          \* bound: ids the server gives
  MaxCrashes      \* bound: restarts of the client

ASSUME ConstantsAssumption ==
  /\ Encrypted \subseteq Local /\ Local \cap Incoming = {}
  /\ MaxId \in Nat /\ (Local \cup Incoming) \cap Nat = {}
  /\ MaxCrashes \in Nat

Plain == Local \ Encrypted
Cell == Local \cup Incoming \cup 1..MaxId
Store == [tree : SUBSET Cell, id : [Cell -> Cell], created : SUBSET Cell,
          pending : SUBSET Cell, unsent : SUBSET Cell, unread : SUBSET Cell,
          listed : SUBSET Cell, use : SUBSET Cell, failed : BOOLEAN]
EmptyStore == [tree |-> {}, id |-> [c \in Cell |-> c], created |-> {}, pending |-> {},
               unsent |-> {}, unread |-> {}, listed |-> {}, use |-> {}, failed |-> FALSE]

VARIABLES
  store,    \* the message structures; failed: an assertion failed
  logged,   \* what replaying the event log would build
  queries,  \* the messages whose send query is outstanding
  inflight, \* the messages the server may still take
  started,  \* the messages the user has sent
  outcome,  \* what the server did with a message
  sid,      \* the id it gave it, 0 if none
  lastId,   \* the last id it gave
  told,     \* the messages of which msgSent was emitted, with the id it gave
  updated,  \* the messages whose update_message_i_d was handled in this life
  dangling, \* "none", or what a message that is used after it was freed holds:
            \* "intact" or "overwritten"
  chatOk,   \* the secret chat is in state sc_ok
  overtaken, \* history: a message was fetched before the answer that renames it
  binlog_enabled, \* the configuration variable, which never changes
  crashes

server == <<outcome, sid, lastId>>
client == <<store, logged, queries, told, updated, dangling>>
fixed == <<binlog_enabled, crashes>>
vars == <<client, server, inflight, started, chatOk, overtaken, fixed>>

\* Every variable has its type (structers-only.h: struct message).
TypeOK ==
  /\ store \in Store /\ logged \in Store
  /\ queries \subseteq Local /\ inflight \subseteq Local /\ started \subseteq Local
  /\ outcome \in [Local -> {"none", "accepted", "rejected"}]
  /\ sid \in [Local -> 0..MaxId] /\ lastId \in 0..MaxId
  /\ told \in [Local -> Cell \cup {0}] /\ updated \subseteq Local
  /\ dangling \in {"none", "intact", "overwritten"} /\ chatOk \in BOOLEAN
  /\ overtaken \in BOOLEAN /\ binlog_enabled \in BOOLEAN /\ crashes \in 0..MaxCrashes

Init ==
  /\ store = EmptyStore /\ logged = EmptyStore
  /\ queries = {} /\ inflight = {} /\ started = {}
  /\ outcome = [m \in Local |-> "none"] /\ sid = [m \in Local |-> 0] /\ lastId = 0
  /\ told = [m \in Local |-> 0] /\ updated = {}
  /\ dangling = "none" /\ chatOk = TRUE /\ overtaken = FALSE
  /\ binlog_enabled \in BOOLEAN /\ crashes = 0

-----------------------------------------------------------------------------
(* The events (replay_log_event).  An assertion of the code that fails is  *)
(* the field failed.                                                       *)

\* message_get
Found(s, i) == {c \in s.tree : s.id[c] = i}

\* message_insert: message_add_use, message_add_peer
Inserted(s, c) ==
  [s EXCEPT !.use = @ \cup {c}, !.listed = @ \cup {c},
            !.failed = @ \/ \E d \in s.listed : s.id[d] = s.id[c]]

\* binlog_send_message_text
SendText(s, m) ==
  LET t == [s EXCEPT !.tree = @ \cup {m}, !.created = @ \cup {m}, !.unread = @ \cup {m},
                     !.unsent = @ \cup {m}, !.pending = @ \cup {m}]
  IN  Inserted(t, m)

\* binlog_create_message_text and its kin, then set_unread if it was read
Create(s, c, unread) ==
  LET t == [s EXCEPT !.tree = @ \cup {c}, !.created = @ \cup {c},
                     !.unread = IF unread THEN @ \cup {c} ELSE @ \ {c},
                     !.failed = @ \/ Found(s, c) \cap s.created # {}]
  IN  Inserted(t, c)

\* binlog_set_unread
SetRead(s, i) == [s EXCEPT !.unread = @ \ Found(s, i), !.failed = @ \/ Found(s, i) = {}]

\* message_remove_unsent, which asserts that the message is in the tree
RemovedUnsent(s, C) ==
  [s EXCEPT !.unsent = @ \ C, !.pending = @ \ C, !.failed = @ \/ ~(C \subseteq s.unsent)]

\* binlog_set_message_sent
SetSent(s, i) ==
  LET t == RemovedUnsent(s, Found(s, i))
  IN  [t EXCEPT !.failed = @ \/ Found(s, i) = {}]

SetMsgId_NoMerge(s, i, new) ==
  LET C == Found(s, i)
      t == RemovedUnsent(s, C \cap s.pending)
      u == [t EXCEPT !.id = [c \in Cell |-> IF c \in C THEN new ELSE @[c]]]
  IN  [u EXCEPT !.failed = @ \/ C = {}]

\* binlog_set_msg_id: if there is a message with the new id the renamed one is
\* freed; message_del_use is not called.
SetMsgId(s, i, new) ==
  LET C == Found(s, i)
      t == RemovedUnsent(s, C \cap s.pending)
      u == [t EXCEPT !.tree = @ \ C, !.listed = @ \ C,
                     !.id = [c \in Cell |-> IF c \in C THEN new ELSE @[c]],
                     !.failed = @ \/ C = {}]
  IN  IF Found(u, new) # {} THEN [u EXCEPT !.created = @ \ C, !.unread = @ \ C]
      ELSE [u EXCEPT !.tree = @ \cup C, !.listed = @ \cup C,
                     !.failed = @ \/ \E d \in u.listed : u.id[d] = new]

DeleteMsg_KeepsUse(s, i) ==
  LET C == Found(s, i)
      t == RemovedUnsent(s, C \cap s.pending)
  IN  [t EXCEPT !.tree = @ \ C, !.listed = @ \ C, !.created = @ \ C,
                !.unread = @ \ C, !.failed = @ \/ C = {}]

\* binlog_delete_msg
DeleteMsg(s, i) ==
  LET C == Found(s, i)
      t == RemovedUnsent(s, C \cap s.pending)
  IN  [t EXCEPT !.tree = @ \ C, !.listed = @ \ C, !.use = @ \ C, !.created = @ \ C,
                !.unread = @ \ C, !.failed = @ \/ C = {}]

Event == [op : {"send", "sent", "read", "delete"}, id : Cell]
         \cup [op : {"create"}, id : Cell, unread : BOOLEAN]
         \cup [op : {"set_id"}, id : Cell, new : Cell]

Replayed(s, e) ==
  CASE e.op = "send" -> SendText(s, e.id)
    [] e.op = "sent" -> SetSent(s, e.id)
    [] e.op = "read" -> SetRead(s, e.id)
    [] e.op = "delete" -> DeleteMsg(s, e.id)
    [] e.op = "create" -> Create(s, e.id, e.unread)
    [] e.op = "set_id" -> SetMsgId(s, e.id, e.new)

AddLogEvent_NotRenames(e) ==
  /\ store' = Replayed(store, e)
  /\ logged' = IF binlog_enabled /\ e.op # "set_id" THEN Replayed(logged, e) ELSE logged

\* add_log_event: the event is applied to the structures, then written.
AddLogEvent(e) ==
  /\ store' = Replayed(store, e)
  /\ logged' = IF binlog_enabled /\ ~store'.failed THEN Replayed(logged, e) ELSE logged

NoEvent == UNCHANGED <<store, logged>>

-----------------------------------------------------------------------------
(* Sending                                                                 *)

\* A failed assertion ends the program.  What it does after it used freed memory
\* that was overwritten is anything, and not followed.
Running == ~store.failed /\ dangling # "overwritten"

\* What is left of the message of an answer, if it was freed
UsesFreed(m) ==
  \/ dangling' = "intact" /\ told' = [told EXCEPT ![m] = store'.id[m]]
  \/ dangling' = "overwritten" /\ \E g \in Cell : told' = [told EXCEPT ![m] = g]

\* do_send_msg: to a secret chat only if that is established
Sendable(M) == {m \in M : m \in Plain \/ chatOk}

\* do_send_message
SendMessage(m) ==
  /\ Running /\ m \notin started /\ Sendable({m}) # {}
  /\ started' = started \cup {m}
  /\ AddLogEvent([op |-> "send", id |-> m])
  /\ queries' = queries \cup {m} /\ inflight' = inflight \cup {m}
  /\ UNCHANGED <<told, updated, dangling, server, chatOk, overtaken, fixed>>

MsgSendOnAnswer_TellsFirst(m) ==
  /\ Running /\ m \in queries \cap Plain /\ outcome[m] = "accepted"
  /\ queries' = queries \ {m}
  /\ IF store.id[m] # sid[m]
     THEN AddLogEvent([op |-> "set_id", id |-> store.id[m], new |-> sid[m]])
     ELSE IF m \in store.pending THEN AddLogEvent([op |-> "sent", id |-> store.id[m]])
     ELSE NoEvent
  /\ IF m \in store.tree \cap store'.tree
     THEN told' = [told EXCEPT ![m] = store.id[m]] /\ UNCHANGED dangling
     ELSE UsesFreed(m)
  /\ UNCHANGED <<updated, server, inflight, started, chatOk, overtaken, fixed>>

\* msg_send_on_answer: the message gets its id, which also marks it sent, and
\* the interface is told.  The message is the one the query was made for.
MsgSendOnAnswer(m) ==
  /\ Running /\ m \in queries \cap Plain /\ outcome[m] = "accepted"
  /\ queries' = queries \ {m}
  /\ IF store.id[m] # sid[m]
     THEN AddLogEvent([op |-> "set_id", id |-> store.id[m], new |-> sid[m]])
     ELSE IF m \in store.pending THEN AddLogEvent([op |-> "sent", id |-> store.id[m]])
     ELSE NoEvent
  /\ IF m \in store.tree \cap store'.tree
     THEN told' = [told EXCEPT ![m] = store'.id[m]] /\ UNCHANGED dangling
     ELSE UsesFreed(m)
  /\ UNCHANGED <<updated, server, inflight, started, chatOk, overtaken, fixed>>

MsgSendOnError_KeepsMessage(m) ==
  /\ Running /\ m \in queries \cap Plain /\ outcome[m] = "rejected"
  /\ queries' = queries \ {m}
  /\ NoEvent
  /\ dangling' = IF m \in store.tree THEN dangling ELSE "overwritten"
  /\ UNCHANGED <<told, updated, server, inflight, started, chatOk, overtaken, fixed>>

\* msg_send_on_error: the message is deleted.
MsgSendOnError(m) ==
  /\ Running /\ m \in queries \cap Plain /\ outcome[m] = "rejected"
  /\ queries' = queries \ {m}
  /\ AddLogEvent([op |-> "delete", id |-> store.id[m]])
  /\ dangling' = IF m \in store.tree THEN dangling ELSE "overwritten"
  /\ UNCHANGED <<told, updated, server, inflight, started, chatOk, overtaken, fixed>>

\* msg_send_encr_on_answer; an error is only reported, there is no on_error.
MsgSendEncrOnAnswer(m) ==
  /\ Running /\ m \in queries \cap Encrypted /\ outcome[m] # "none"
  /\ queries' = queries \ {m}
  /\ dangling' = IF m \in store.tree THEN dangling ELSE "overwritten"
  /\ IF outcome[m] = "accepted" /\ m \in store.pending
     THEN AddLogEvent([op |-> "sent", id |-> store.id[m]]) ELSE NoEvent
  /\ UNCHANGED <<told, updated, server, inflight, started, chatOk, overtaken, fixed>>

-----------------------------------------------------------------------------
(* Fetching                                                                *)

\* External: what may be fetched, which is what the server has.
Fetchable == 1..lastId

\* The answer that will give a message of ours the id i is still to come.
Overtakes(i) == \E m \in queries : sid[m] = i

FetchAllocMessage_CreatedOrNot(i) ==
  /\ Running /\ i \in Fetchable
  /\ \E unread \in BOOLEAN :
       IF unread
       THEN AddLogEvent([op |-> "create", id |-> i, unread |-> unread])
       ELSE IF ~unread /\ Found(store, i) \cap store.unread # {}
       THEN AddLogEvent([op |-> "read", id |-> i])
       ELSE NoEvent
  /\ overtaken' = (overtaken \/ Overtakes(i))
  /\ UNCHANGED <<queries, told, updated, dangling, server, inflight, started, chatOk,
                 fixed>>

\* fetch_alloc_message and its kin, in an update, an answer or a difference
FetchAllocMessage(i) ==
  /\ Running /\ i \in Fetchable
  /\ \E unread \in BOOLEAN :
       IF Found(store, i) \cap store.created = {}
       THEN AddLogEvent([op |-> "create", id |-> i, unread |-> unread])
       ELSE IF ~unread /\ Found(store, i) \cap store.unread # {}
       THEN AddLogEvent([op |-> "read", id |-> i])
       ELSE NoEvent
  /\ overtaken' = (overtaken \/ Overtakes(i))
  /\ UNCHANGED <<queries, told, updated, dangling, server, inflight, started, chatOk,
                 fixed>>

\* fetch_alloc_encrypted_message: what cannot be decrypted stays without content.
FetchAllocEncryptedMessage(c) ==
  /\ Running
  /\ \/ store' = [store EXCEPT !.tree = @ \cup {c}] /\ UNCHANGED logged
     \/ /\ c \notin store.created
        /\ AddLogEvent([op |-> "create", id |-> c, unread |-> TRUE])
  /\ UNCHANGED <<queries, told, updated, dangling, server, inflight, started, chatOk,
                 overtaken, fixed>>

\* work_update (update_read_messages)
UpdateReadMessages(i) ==
  /\ Running /\ i \in Fetchable
  /\ IF Found(store, i) \cap store.unread # {}
     THEN AddLogEvent([op |-> "read", id |-> i]) ELSE NoEvent
  /\ UNCHANGED <<queries, told, updated, dangling, server, inflight, started, chatOk,
                 overtaken, fixed>>

\* work_update (update_encrypted_messages_read): the messages of ours, without an
\* event.  The scan of the list ends at one that is read, beyond which all are.
UpdateEncryptedMessagesRead ==
  /\ Running /\ Encrypted \cap store.listed \cap store.unread # {}
  /\ store' = [store EXCEPT !.unread = @ \ (Encrypted \cap store.listed)]
  /\ UNCHANGED <<logged, queries, told, updated, dangling, server, inflight, started,
                 chatOk, overtaken, fixed>>

\* work_update (update_message_i_d): the random id is kept in an int, and no
\* message has what is left of it as its id.
Truncated(m) == 0
UpdateMessageId(m) ==
  /\ Running /\ m \in Plain /\ outcome[m] = "accepted" /\ m \notin updated
  /\ updated' = updated \cup {m}
  /\ IF Found(store, Truncated(m)) # {}
     THEN AddLogEvent([op |-> "set_id", id |-> Truncated(m), new |-> sid[m]])
     ELSE NoEvent
  /\ UNCHANGED <<queries, told, dangling, server, inflight, started, chatOk, overtaken,
                 fixed>>

\* A restart: what the log has, and send_all_unsent.
Restart ==
  /\ crashes < MaxCrashes /\ dangling # "overwritten" /\ crashes' = crashes + 1
  /\ store' = logged
  /\ queries' = Sendable(logged.unsent) /\ inflight' = inflight \cup queries'
  /\ updated' = {}
  /\ UNCHANGED <<logged, told, dangling, server, started, chatOk, overtaken,
                 binlog_enabled>>

-----------------------------------------------------------------------------
(* External: the server and the peer                                       *)

\* A message is taken once, however often it is sent (its random id tells).
ServerTakes(m) ==
  /\ m \in inflight /\ outcome[m] = "none"
  /\ \/ /\ m \in Plain /\ lastId < MaxId
        /\ outcome' = [outcome EXCEPT ![m] = "accepted"]
        /\ lastId' = lastId + 1 /\ sid' = [sid EXCEPT ![m] = lastId + 1]
     \/ /\ m \in Encrypted
        /\ outcome' = [outcome EXCEPT ![m] = "accepted"]
        /\ UNCHANGED <<sid, lastId>>
     \/ /\ outcome' = [outcome EXCEPT ![m] = "rejected"]
        /\ UNCHANGED <<sid, lastId>>
  /\ UNCHANGED <<client, inflight, started, chatOk, overtaken, fixed>>

PeerSends ==
  /\ lastId < MaxId
  /\ lastId' = lastId + 1
  /\ UNCHANGED <<client, outcome, sid, inflight, started, chatOk, overtaken, fixed>>

ChatDiscarded ==
  /\ chatOk /\ chatOk' = FALSE
  /\ UNCHANGED <<client, server, inflight, started, overtaken, fixed>>

-----------------------------------------------------------------------------

Next ==
  \/ \E m \in Local :
       \/ SendMessage(m) \/ MsgSendOnAnswer(m) \/ MsgSendOnError(m)
       \/ MsgSendEncrOnAnswer(m) \/ UpdateMessageId(m) \/ ServerTakes(m)
  \/ \E i \in 1..MaxId : FetchAllocMessage(i) \/ UpdateReadMessages(i)
  \/ \E c \in Incoming : FetchAllocEncryptedMessage(c)
  \/ UpdateEncryptedMessagesRead \/ Restart \/ PeerSends \/ ChatDiscarded

Spec == Init /\ [][Next]_vars

Fairness ==
  \A m \in Local :
    /\ WF_vars(ServerTakes(m)) /\ WF_vars(MsgSendOnAnswer(m)) /\ WF_vars(MsgSendOnError(m))

\* The query engine resends a query until it is answered.
FairSpec == Spec /\ Fairness

-----------------------------------------------------------------------------
(* Properties                                                              *)

\* No assertion of the events, of message_add_peer or of the trees fails,
\* in whatever order answers, fetched messages and restarts come.
NoAssertFails == ~store.failed /\ ~logged.failed

\* message_unsent_tree has exactly the messages that are flagged pending, which
\* are messages of ours that were not freed.
UnsentIsPending ==
  /\ store.unsent = store.pending
  /\ store.pending \subseteq Local \cap store.tree \cap started

\* No two messages have the same id: a message that is fetched before its own
\* answer renames it is one message in the end.
UniqueIds == \A c, d \in store.tree : store.id[c] = store.id[d] => c = d

\* A dialog lists exactly the messages that have a content.
ListedExactly == store.listed = store.created /\ store.created \subseteq store.tree

\* The message an outstanding query points to (q->extra) is there and pending.
QueriesAlive == queries \subseteq store.pending

\* The trees, the list of each dialog, the flags of the messages and the pending
\* queries describe the same messages: message_tree, message_unsent_tree, the
\* lists and q->extra are updated apart, in the order answers and events come.
MessagesRight ==
  TypeOK /\ UnsentIsPending /\ UniqueIds /\ ListedExactly /\ QueriesAlive

\* The interface is told the id the server gave, and a message it was told of is
\* not sent again, if what is read of a freed message is intact.
ToldRightly ==
  \A m \in Local : told[m] # 0 /\ dangling # "overwritten" =>
    /\ told[m] = sid[m] /\ m \notin store.pending
    /\ m \in store.tree => store.id[m] = sid[m]

\* Replaying the log gives the structures there are, but for messages without
\* content, which no event creates, and for the secret messages read by the peer,
\* of which no event tells.
LogAgrees ==
  binlog_enabled =>
    logged = [store EXCEPT !.tree = store.created,
                           !.unread = @ \cup (Encrypted \cap logged.unread)]

\* Nothing freed is used, neither by an answer that renamed its message nor in the
\* list of use, if no message is fetched before its own answer.
NothingFreedUsed == overtaken \/ (dangling = "none" /\ store.use = store.listed)

\* A message that is to be sent is sent, or refused and deleted.
Settled ==
  \A m \in Plain :
    m \in store.pending ~> m \notin store.pending \/ dangling = "overwritten"

\* update_message_i_d gives the message with that random id ("// random_id",
\* mtproto-client.c:922) the id of the server.
IdTaken ==
  \A m \in updated : m \in store.tree /\ sid[m] # 0 => store.id[m] = sid[m]

-----------------------------------------------------------------------------
(* The inductive invariant                                                 *)

\* What holds of a store by itself: the pending messages have a content and their
\* own ids, a message without content is one the peer sent, and an id that is not
\* its cell's own is the one the server gave a message of ours that is not pending.
Consistent(s) ==
  /\ s \in Store /\ ~s.failed
  /\ s.unsent = s.pending /\ s.pending \subseteq Local \cap s.created
  /\ s.listed = s.created /\ s.created \subseteq s.tree /\ s.unread \subseteq s.created
  /\ s.tree \ s.created \subseteq Incoming
  /\ \A c, d \in s.tree : s.id[c] = s.id[d] => c = d
  /\ \A c \in Cell :
       s.id[c] = c \/ (c \in Plain \ s.pending /\ s.id[c] = sid[c] /\ sid[c] # 0)
  /\ s.tree \cap Local \subseteq started
  /\ \A i \in s.tree \cap Nat : i <= lastId

\* What the server did it did to messages that were sent, and each id is given once.
ServerFits ==
  /\ inflight \subseteq started
  /\ \A m \in Local :
       /\ outcome[m] # "none" => m \in inflight
       /\ sid[m] # 0 => outcome[m] = "accepted" /\ m \in Plain /\ sid[m] <= lastId
       /\ m \in Plain /\ outcome[m] = "accepted" => sid[m] # 0
  /\ \A m, n \in Local : sid[m] = sid[n] /\ sid[m] # 0 => m = n

\* A query is outstanding for every pending message that does not go to the secret
\* chat, and for no other than pending ones.
QueriesFit == queries \subseteq store.pending /\ store.pending \cap Plain \subseteq queries

\* l has what the log should have of the structures s, field by field.
Logs(l, s) ==
  /\ l \in Store /\ l.unread \subseteq l.created
  /\ l.tree = s.created /\ l.created = s.created /\ l.id = s.id
  /\ l.pending = s.pending /\ l.unsent = s.unsent /\ l.listed = s.listed
  /\ l.use = s.use /\ l.failed = s.failed
  /\ l.unread = s.unread \cup (Encrypted \cap l.unread)

LogFits == IF binlog_enabled THEN Logs(logged, store) ELSE logged = EmptyStore

\* No message was fetched whose own answer is still to come.
NotOvertaken == \A m \in queries : sid[m] # 0 => sid[m] \notin store.tree

\* Inductive: each action keeps it.
IInv ==
  /\ TypeOK /\ Consistent(store) /\ ServerFits /\ QueriesFit /\ LogFits
  /\ ToldRightly
  /\ overtaken \/ (NotOvertaken /\ dangling = "none" /\ store.use = store.listed)
=============================================================================
