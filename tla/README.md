# Sigram: a verification development

TLA+ models of Sigram, a Qt client for Telegram built around a fork of
telegram-cli (`src/Sigram/telegram/telegram_cli`), with the TLC runs that check
them on small instances and TLAPS proofs of what holds for every instance.

## 1. The system

Sigram is two programs in one process.  The C half, `telegram_cli`, is a
single-threaded event loop (`net_loop` in `loop.c`) that speaks MTProto to the
server.  The C++ half is the Qt user interface.  They run in two threads and
meet in `telegramcore.cpp`, whose functions the C half calls for every event and
whose slots call the C half's command interpreter.

| part | source | state it keeps | operations | talks to |
|---|---|---|---|---|
| RPC query engine | `queries.c` 88-296 | `queries_tree`, `timer_tree`, `queries_num`, per query `QUERY_ACK_RECEIVED` | `send_query`, `query_ack`, `query_error`, `query_result`, `query_restart`, `alarm_query`, `work_timers` | connection (writes), dispatcher (calls it), the request methods |
| Connection manager | `net.c` | `Connections[]`, `conn_*` state, ping and fail timer in one event, buffers, port, `ack_tree` | `create_connection`, `restart_connection`, `fail_connection`, `ping_alarm`, `fail_alarm`, `try_read`, `try_write`, poll array and poll results, `insert_msg_id`, `send_all_acks` | kernel sockets, timer tree, dispatcher |
| MTProto handshake | `mtproto-client.c` 245-735, 1740-1824 | `c_state`, nonces, keys, `server_time_udelta` | `send_req_pq_packet`, `process_*_answer`, `process_auth_complete`, `dc_authorize` | connection, auth file |
| MTProto dispatch | `mtproto-client.c` 1286-1740 | salts, message ids, sequence numbers | `rpc_execute_answer`, `work_*`, `process_rpc_message` | query engine, updates, connection |
| Updates and state file | `mtproto-client.c` 735-1286, `queries.c` 2524-2683, `loop.c` 60-80, 250-327 | `pts`, `qts`, `seq`, `last_date`, the state file | `fetch_*`, `work_update*`, `do_get_difference` | structures, event log |
| Sign in | `loop.c` 437-780, `queries.c` 298-820 | `auth_state`, `dc_working_num`, `DC_list`, auth file | `loop`, `start_registering`, `connect_to_server`, `do_*` of the login | handshake, bridge |
| Main loop and files | `loop.c` | auth file, state file, secret chat file | `net_loop`, save and load | everything |
| Event log | `binlog.c` | the log file, `binlog_enabled` | `bl_do_*`, `add_log_event`, `replay_log` | structures |
| Messages | `structures.c` 1256-1982, `queries.c` 777-1100 | `message_tree`, lists of dialogs, unsent messages | insert, delete, fetch, send | event log, query engine |
| Peers and group chats | `structures.c` 60-1000, `binlog.c` 336-785 | `Peers[]`, name tree, participants and versions | `fetch_alloc_*`, `bl_do_user_*`, `bl_do_chat_*` | event log |
| Secret chats | `queries.c` 2100-2515, `binlog.c` 420-577, `structures.c` 296-407 | `state`, key, fingerprint of every chat | request, accept, confirm, discard | query engine, event log, updates |
| File transfer | `queries.c` 1300-2100 | upload and download totals, open files | `do_send_photo`, `send_part`, `do_load_*`, `load_next_part` | query engine, message index |
| Requests | `queries.c` 1000-2883 | none of their own | `do_*` and their `on_answer` | query engine |
| Treap and timers | `tree.h` | balanced trees of everything above | insert, delete, look-up | |
| Command interpreter | `interface.c`, `tmain.c`, `tools.c` | readline state, arguments | `interpreter` | requests |
| Qt bridge | `telegramcore.cpp` | one condition variable, `waitAndGet` slots | `waitAndGet`, signals | both threads |
| Message index | `telegramthread.cpp` | maps from ids, dates and files to messages | `_incomingMsg`, `_msgSent`, `_msgMarkedAsRead`, `_fileLoaded` ... | bridge, UI |
| Interface of calls | `telegram.cpp` | queue of messages to send, timers, users of a new group | slots that QML calls | message index, bridge |
| User interface | `telegramgui.cpp`, `userdata.cpp`, `notification.cpp`, QML | settings, SQLite user data | slots | interface of calls |
| Small helpers | `downloader.cpp`, `versionchecker.cpp`, `setobject.cpp`, `hashobject.cpp`, `countries.cpp`, `emojis.cpp` | one download, a set, a multi-map | slots | UI |

What is hard in it: the server answers twice, out of step with the resend timers,
and over connections that die at any moment; a connection's one timer event is
shared by two purposes; poll results are used after handlers that may have
replaced the socket they speak of; the key exchange has one state for all
connections; updates come twice, with holes, and race the answers about the
difference; participants and secret chats move on messages that come late or
twice; the state file, the auth file and the event log are written at different
moments, and a crash falls between them; a file is resumed after a crash; the
main thread and the network thread share everything without a lock and wait for
each other; the interface knows messages, chats and users by copies that are
older than the core's, and names them by text.

The properties that make each part correct:

| part | what must hold | where |
|---|---|---|
| RPC query engine | a query is answered at most once and in the end; its timer is in the tree exactly while it is unacknowledged; `queries_num` counts the table | `QueriesRight`, `ResendOnlyWaiting`, `KeepsPromise`, `EveryQueryFinishes`, `AnswersAcknowledged`, `UnackedQueryProceeds` |
| Connection manager | one timer event per connection, always armed, always the right one; a failed connection is tried again, a silent one given up; the header byte comes first | `ConnectionRight`, `CrashNeedsFailure`, `Reconnects`, `SilenceNoticed` |
| MTProto handshake | a key in use or on disk is one the server has; the exchange ends; its generator is a square | `KeysRight`, `StartEnds`, `StructuresRight` |
| Updates | what the counters pass was handled, in memory and on disk; they only go forward; a difference is worked off | `UpdatesRight`, `NeverBack`, `CatchesUp` |
| Sign in | login ends; the client comes to the data centre of its account and does not register again | `HomeRight`, `StartEnds` |
| Event log | every assertion of an event holds when it is applied; replaying the log gives what there was | `NoAssertFails`, `LogAgrees`, `NamesRight`, `ChatRight` |
| Messages | one message per id; a sent message gets its id once; unsent means pending; nothing freed is used; what is passed over, written and read again is the same content | `MessagesRight`, `ToldRightly`, `NothingFreedUsed`, `Settled`, `StructuresRight` |
| Secret chats | an established chat has the key of the peer, states only go forward, a discard is remembered, a key is not lost | `ChatRight`, `DiscardRemembered`, `Durable`, `Forward`, `Concluded` |
| Peers and group chats | the list of participants is the server's of its version; a name tells peers apart; a command reaches the peer that was meant | `ParticipantsRight`, `ListNeverOlder`, `NamesRight`, `AstrayOnlyUnderWrongName` |
| File transfer | all parts once and in place; the loops end; the totals agree | `UploadsRight`, `DownloadsRight`, `FilesEnd` |
| Qt bridge | a question asked of the interface is answered; no answer is lost | `StartEnds` |
| Message index | every hash names the same messages; the id of a sent message replaces the right one | `IndexRight` |
| Interface of calls | what is typed is sent once and in order; the users chosen for a group reach the group that is called by its title | `FrontRight`, `FrontLive` |
| Byte buffers | the bytes on the wire are the packets that were given; what is executed is what was sent, as soon as it is whole | `StreamsRight` |
| Treap | a tree holds what was put into it, in order, and no assertion of it fails | `TreesRight` |

## 2. Modules

| module | models | lines of the code | proofs |
|---|---|---|---|
| `RpcPromise` | what the query engine promises its callers | abstract | |
| `RpcQueries` | query table, timers, acknowledgements, salts | `queries.c` 88-296, `net.c` 599-623, `mtproto-client.c` 1443-1679 | `RpcQueriesProofs` |
| `Connection` | one connection under `net_loop` | `net.c` 48-597 | `ConnectionProofs` |
| `SecretChat` | the life of one secret chat, its file and events | `queries.c` 2225-2521, `structures.c` 296-407, `binlog.c` 420-577, `loop.c` 328-435 | `SecretChatProofs` |
| `MessageStore` | messages, their events, log, sending | `structures.c` 1256-1982, `binlog.c` 785-1140, `queries.c` 822-960 | `MessageStoreProofs` |
| `Contents` | the layout of every message in the input and in the event log | `structures.c` 81-137, 599-1506, `binlog.c` 785-1083, 1180-1255, 1704-1818 | |
| `Updates` | counters of updates, state and difference, the state file | `mtproto-client.c` 735-1284, `queries.c` 2524-2683, `loop.c` 60-80, 250-327, `binlog.c` | `UpdatesProofs`, `SyncProofs` |
| `Participants` | the participants of one group chat and their versions | `mtproto-client.c`, `structures.c` 560-800, `binlog.c` 640-785, 1580-1720 | `SyncProofs` |
| `PeerNames` | users and chats, their names, the commands that name them | `structures.c`, `binlog.c`, `interface.c`, `telegramcore.cpp`, `telegramthread.cpp` | `SyncProofs` |
| `Handshake` | the key exchange with several data centres | `mtproto-client.c` 100-735, 1680-1824 | `AppProofs` |
| `SignIn` | start, migration, registration, the questions of the login | `loop.c` 437-780, `queries.c` 298-820, `telegramcore.cpp`, `telegram.cpp` | `AppProofs` |
| `Uploads` | files sent | `queries.c` 1300-1640, `telegramthread.cpp` | `AppProofs` |
| `Downloads` | files loaded | `queries.c` 1780-2100 | `AppProofs` |
| `MessageIndex` | the hashes of messages of the interface | `telegramthread.cpp` | `AppProofs` |
| `Frontend` | the list of dialogs and the users of new groups | `telegram.cpp` 553-563, 674-686, 782-824, `telegramthread.cpp` 340-389, 438-475 | `AppProofs` |
| `Outbox` | messages that were typed | `telegram.cpp` 582-594, 839-852 | `AppProofs` |
| `Buffers` | chains of buffers and framing | `net.c` 95-260, 430-560, `mtproto-client.c` 1750-1824 | `AppProofs` |
| `Treap` | the balanced tree | `tree.h` | `TreapProofs`, `AppProofs` |

Every `MC*` module instantiates these for TLC.  `MCRpcQueries`, `MCConnection`,
`MCSecretChat`, `MCMessageStore` and `MCParticipants` check one module each. `MCSync`
has `Updates`, `Participants` and `PeerNames`; `App` has `Handshake`, `SignIn`,
`Uploads`, `Downloads`, `MessageIndex`, `Frontend`, `Outbox`, `Buffers` and `Treap`; and
`MCApp` extends `App` by `Contents`, whose recursive operators keep it out of any module
with proofs.  These share no state, so a behaviour of `MCSync` or `App` belongs to the
module that the variable `part`, chosen by `Init`, names (those of `Contents` are the
behaviours in which `part` is "below"); their properties are those of the parts.  This
keeps the number of runs that of the questions, and loses nothing, because no part acts
on another.  `SyncProofs` and `AppProofs` prove about these two modules as they are, so
that a theorem and a run speak of the same definition; for that `MCSync` instantiates
`UpdatesProofs`, and `App` `TreapProofs`, which are the modules with their lemmas.

`map` in `PROJECT.json` gives the lines of every definition.
Operators whose name has a suffix after `_` (`QueryAck_KeepsTimer`) are slips: a
definition with one plausible mistake, which is defined before the definition it
differs from and used by nothing.  With the slip in place of the definition TLC
finds the property violated that is listed with it in `PROJECT.json`.

### RpcQueries

A query is its first `msg_id`, the key of `queries_tree`.  `tree`, `acked` and
`timers` are the table, the flag `QUERY_ACK_RECEIVED` and the membership of the
query's event in `timer_tree`; that a removal from the timer tree asserts that
the element is there (`tree_delete`) becomes the variable `aborted`.  The actions
are the handlers: `SendQuery`, `AlarmQuery` (resend in a container, skipped while
the out buffer is full, armed again in both cases), `WorkMsgsAck`,
`WorkRpcResult`, `WorkRpcError`, `WorkBadServerSalt`, `WorkNewSessionCreated`,
`SendAllAcks`, and the quit test of the loop.  Answers may start a follow-up
query in the same step, as `on_answer` methods do.  The server is external: it
rejects old salts, acknowledges, answers, redelivers what is not acknowledged,
changes its salt, and may forget the session.  The order of messages is kept
between those that name the same query; no property tells other orders apart.

* `rpc_safety` (two queries, one change of salt, one lost connection, 2.4
  million states): `QueriesRight`, which joins the types, the assertions, the
  timers and the counter; that only what waits is resent; and that
  `RpcQueries` implements `RpcPromise` by the mapping `StatusOf`.
* `rpc_live` (one query, one change of salt, two lost connections, one session
  forgotten, and the user may quit): every query is finished unless the session
  was forgotten, every answer is acknowledged unless its session or salt is gone,
  and an unacknowledged query goes on whatever happens.  When the server forgets
  the session a query that was acknowledged stays in the table for ever (the code
  skips `first_msg_id`), hence the first exception.  One query is enough: queries
  only meet in the counter and the buffer limit, which `rpc_safety` covers.
* `rpc_quit` is a violation: two answers to one query make `queries_num` zero
  while another is outstanding, and `safe_quit` says that all is done.

Fairness: `net_loop` runs due timers and reads the socket in every iteration, so
`AlarmQuery`, `SendAllAcks`, `Receive` and `QuitWhenDone` are weakly fair; the
server reads, answers and redelivers.  `SendQuery` and quitting are the user's
and owe nothing; nor do losses, salt changes and forgetting, which are bounded.

### Connection

One iteration of `net_loop` is the phases build, poll, timers, read, event: poll
results are gathered before the timers run and used after.  `timers` counts the
nodes of `timer_tree` that hold the connection's single event, so a second
insertion is visible; `alarm` and `inFail` are its handler and `in_fail_timer`.
Time is kept only as far as the code asks about it: how long nothing was heard
and whether the last attempt was in this second.  The bytes of the buffers are
kept as header byte and messages, framing is not modelled.  A connection that the
server closes in order is polled with data and a hang-up (`POLLRDHUP`): the read gets
nothing (`NothingToRead`), and the hang-up fails it.  After a failed assertion or the use of
a null connection the model stops.

* `conn_fair`: two descriptors (the kernel may give the old one again or
  another), two deaths of the socket, one outage.  Two deaths are needed for a
  failure of a connection that failed before, one outage for a ping timeout.  All
  invariants, and that a failed connection comes up again and a silent one is
  given up.  `WorkTimer` is strongly fair, since the loop also works timers that are due
  when sockets keep it busy; time passes infinitely often; of the sockets that
  begin to connect infinitely often one connects soon.
* `conn_twice` is a violation: one result with data and a hang-up fails the
  connection twice.  If the second changes in between, its event is inserted twice.

### SecretChat

`chat` is `struct secret_chat` without names and nonces; keys are symbolic
(`Shared(n)`: agreed with our n-th exponent).  An answer of the server is an
object as `fetch_encrypted_chat` reads it; what the state machine does with it is
`Fetched`, the events are `Requested`, `Initialised`, `Accepted`, `Deleted`,
`KeySet`.  `file` is what a restart finds: everything with the event log, and
otherwise what `write_secret_chat_file` last wrote, which leaves some states out.
Whether there is a log (`binlog_enabled`) is chosen at the start.  An update may be
handled before an answer sent earlier; that this happened is kept in `overtaken`.

* `secret_fair`: two repeated updates, two restarts, three exponents (each
  repeated request may generate one, hence bound plus one).  That a chat is
  established in the end is claimed for behaviours in which nothing was
  overtaken and nothing crashed: without either a chat may wait for ever, because
  the server sends an acceptance once.
* `secret_answer` is a violation: a request answered by a discarded chat ends in
  an assertion.

Fairness: the client handles what it is sent, the query engine delivers what it
sends (this is `EveryQueryFinishes`), the peer accepts.

### MessageStore

A `struct message` is a cell, `store` the structures that hold cells: the tree
by id, the unsent tree, the dialog lists, the list of use and the flags.  An
event is a record and `Replayed` what `replay_log_event` does with it, with its
assertions as the field `failed`.  `AddLogEvent` applies an event and then
writes it, so `logged` is what replaying the log would build; without the log a
restart finds nothing.  Requests point at their cell, as `q->extra` does.  The
answer that renames a cell may find its new id taken by a fetched message and
frees the cell, after which `msg_send_on_answer` uses it: what is read then is
intact or anything (`UsesFreed`), and after the latter the model stops.
`MessagesRight` joins what must hold of the trees, the lists and the queries.

* `store_fair`: a plain message, a secret one, one of the peer, two ids, two
  restarts, with and without the log, fetching in any order.  Nothing freed is
  used as long as no message is fetched before the answer to its own sending
  (`overtaken`): this is the assumption under which the code is right.  A plain
  message is sent or refused, unless freed memory was overwritten first.  Secret
  ones may stay pending, as there is no handler of their errors.
* `store_id` is a violation: the update that names a message by its random id is
  compared with what is left of that id in an `int`.

Fairness: the server takes a message and its answer is handled, as above.
No number of cells beyond these changes a step, since every event touches the
cells of one id; two ids are needed for a sent message to meet the id of
another.

### Updates

`mem` are `pts`, `qts`, `seq` and `last_date`, `disk` the state file or what the
event log gives, `written` what the file was last written with, `asked` the
queries for the state and the difference.  The server's history `log` is a
sequence of updates in four forms, which raise different counters by different
functions (`After`).  The client's steps are the handlers `ReceiveUpdate`,
`ReceiveTooLong` and `ReceiveAnswer` with the follow-up question of a slice,
`SaveState` at the head of each iteration, `ReadStateFile` (which runs after
updates may have been handled already), a restart, and a crash inside
`get_difference_on_answer`, which writes the state before it shows the messages.
The code jumps over a hole without asking for what is missing: `skipped` records
what is lost in this way, in taking a state without its difference, and in that
crash.  `NothingMissed` says that nothing else is.  `NeverBack` says that while the
client runs and no connection was lost, `pts` and `qts` go back only with a slice of the
difference, whose state may be older than updates that came meanwhile.

### Participants

`chat` is the chat with the version of the object and that of the list, `chatLog`
what a replay makes of it.  Additions, removals, whole lists and objects of the
chat come in order, but some come again and some not at all.  `fetch_chat` passes
the size where the version is expected and the version for the size; this is kept
(`DoSetChatVersion` is called so).  The event of a removal is written with the
code of an addition and fails its assertion (`DoChatDelUser`): the model stops,
as the process does.

### PeerNames

`table` is `Peers[]` with names, print names and the name tree; an object in any of the
answers listed in `Next` becomes an event.  `contacts` and `dialogs` are the copies of
`TelegramThread`, which lag behind by the queue `calls` of the main thread.  Each call
of the interface becomes a line of text, in which the peer is named by the copy's name,
and `NextToken` finds the first peer of that name, of the type that the command takes.
`replay` is what a replay of the event log makes of the peers, and nothing without one:
each event is applied to both.  `GET_PEER` for `create_secret_chat` and
`create_group_chat` takes any peer, and the assertion in the request then fails for a
chat.  A status of an unknown user leaves a contact without a name.

### Handshake

One `c_state`, one nonce and one `auth_success` for all data centres, as in the
code; a key is the number of its exchange.  `TcBecomesReady` meets the assertion
in the middle of an exchange, `PingAlarm` that of `init_enc_msg` without a key,
`ProcessAuthComplete` writes the key to the event log before the server's hash is
compared.  `CheckDHParams` is modelled on numbers: the test by residues is
compared with the definition of a square modulo two safe primes, for every
generator.
`StopsOnlyFor` lists every reason for which the process may end here.

### SignIn

`pc` is what the core's thread waits for.  `waitAndGet` is two steps, as its
signal is emitted before the mutex is locked: `missed` records an answer that
came in between and wakes nobody.  Migration happens where the code handles it
(`check_phone_on_error`, `send_code_on_error`); all other errors are assertions.
What is kept differs between auth file and event log: the log has no
`auth_state` and no event for the nearest data centre (`unsaved`).  Whether a
number has an account, where, and the modes are chosen at the start.

### Uploads and Downloads

A file is its size in units.  The two loops that find the size of a part are recursive
functions of it (`Halved`, `Doubled`, in `PartSize`), and the one that never ends for a
file of one or two bytes is the state "stuck".  Names that are freed and used, parts,
thumb, message, totals and the progress of the interface are kept; refused queries are
forgotten, as these requests have no `on_error`.  To a secret chat (`encr`) a part is
encrypted in blocks of `Align` (16 bytes): `send_part` pads the last one and asserts
that no other needs it (`Breaks`), which ends the process ("aborted") with the first
part of a file of 3 to 47 bytes, whose parts are shorter than a block.  The padding
itself is not modelled.  Of each upload the server's part count and the units it has are
kept (`stored`), and `Whole` compares them with the file; `PartsFew` says that no file
has more parts than the server takes, and `StopsOnlyForKnownFiles` that only a file of
one or two bytes, a photo that is not sent, or a file of less than three blocks to a
secret chat ends the process.  The totals are compared with a sum (`Total`), which is a
number of pairs, one for each unit: so it needs no recursion.  A download remembers
which unit of the file each unit on disk is: it is resumed at the size of the copy, but
the file is written from its start, which is why `LoadedRight` excepts the files in
`resumed`.  The code asserts that the length of an encrypted part is a multiple of 16;
`running` is FALSE after it failed.

### Contents

`MessageStore` asks which messages there are; `Contents` asks what is in them.  Each
structure of a message is in the source twice, as a `fetch_skip_` function, with
which a message that comes is measured, and as a `fetch_` function, with which the
event made of it is read, at once and at a restart.  Both are tables of layouts
here, one entry for each constructor (`Skips`, `Fetches`), translated apart; so are
what the `bl_do_` functions write before a content (`Written`) and what
`replay_log_event` reads (`Replays`).  `After` walks through tokens (a word, a
string, a code, a vector with its count) by a table, and is `Lost` as soon as a token
is not of the kind that is asked for: what follows a misreading is not followed.
`ContentsKept` (in `StructuresRight`) says that no message is read into the next, no
event into the one after it, and that contents survive a restart.  A secret message
comes with a known chat, an unknown one, another key or a wrong hash, and again; its
string is opened as soon as it can be.  The bytes of strings and the cipher are not
followed.  What peers send is well formed: every constructor, with the structures in
it in four styles (`Styles`), a file exactly where `fetch_encrypted_message_file`
asks for it, keys that are not empty.

### MessageIndex and Frontend

`MessageIndex` has the hashes of `TelegramThread` by id, date, user and file, and
the slots that change them.  A sent message is found by its second, so that two
of one second are taken for each other (`clashed`), and a message that is read
before it is announced becomes a blank one (`early`): both are the exceptions of
its properties.

`Outbox` has the messages that were typed: the first goes to the core at once, one more
with each timeout.  `Frontend` has the timer that renews the list of dialogs, and the
users who wait under the title of a new group.  `createChat` asks for the group if the
first user is a contact; the others wait in either case (`CreateChatUsers`).  When the
group is announced (`Announced`) they are added by a command that names the group by the
title that the list of dialogs has of it (`ChatAddUser`).  The core knows a chat by its
print name, which is the title for the first peer of that name and the title with a
number for the others (`FetchChat`; `prints` has the one of each title, `taken` the
titles that are the name of another peer, or no word that can be a name). So of several
groups of one title the first that the core came to know gets the users of all of them:
`CalledByTitle` and `ChosenForTitle` say that it is that one, and that it gets nobody
else; `NobodyForgotten` that it gets every user chosen for an announced group who was a
contact then (`unmet` are the others).  Excepted is a group announced before it is in
the list (`late`), as is a title given again while others waited under it (`retitled`),
and, for `NobodyForgotten`, a title in `taken`.  Users are named by their contact's
name, and titles change, in `PeerNames`; titles that end in # and a number, which could
be the print name of another group or a command's form of an id, are left out here.  The
same timer for the list of contacts is not modelled: nothing calls
`updateContactListUsingTimer`.

### Buffers and Treap

`Buffers` has the two chains of buffers byte by byte, with chunks of three bytes
so that every boundary of chunk, header and packet is met; the server sends whole
packets, and an answer fits in `MAX_RESPONSE_SIZE` (a longer one is skipped by
`rpc_execute` without being read, after which nothing can be framed).  Its loops, which
copy, look ahead, read and write a buffer at a time, are recursive functions of what is
left to do.  `Treap` has the operations of `tree.h` as recursive functions on trees
(`Trees` are those of a height that is never exceeded), compared after every insertion
and deletion with the set of keys (`held`), for all orders and priorities of four keys.

### The runs of several modules

* `sync_fair`: two updates, one lost connection, one restart, one message in
  flight besides answers; three versions of a list, one repetition or loss, one
  restart; one user and one chat with two names, three objects, one restart.  A
  hole needs two updates, a wrong list three versions, a name clash two peers.
* `app_fair`: two data centres, two exchanges, one lost connection, one sleep of the
  machine, one restart; two ends of the process in the sign in, so that what the first
  leaves is met by the second; sizes of files (0, 2, 3, 11 and 40, of which the first
  part takes 2) that give nothing to send, the stuck loop, one part, several parts and
  too many, and with a cipher block of two, so that the file of 3 ends in the assertion
  to a secret chat; a plain and an encrypted file, loaded twice and four times begun;
  two messages in two seconds with one file; one message of every kind beside one of
  this client, in either order in the event log, and one restart, since an event that is
  misread shifts the next; two groups of one title, of which either is known first, with
  one user to add; two messages typed; packets with short and long headers; trees of
  four keys.
* `chat_removed` is a violation: a participant who has left ends the process.

Fairness: answers come and are handled (for queries this is `EveryQueryFinishes`), the
loop and the main thread run, timers of Qt fire, and a user answers the question
that is shown.  Nothing is assumed of losses, crashes, refusals and calls of
the user.  Deadlock is not looked for in the runs in which bounds or a failed
assertion end a behaviour.

## 3. Findings

Five runs end in violations that the code produces; `findings` in `PROJECT.json`
quotes the lines.

| run | what happens |
|---|---|
| `rpc_quit` | `safe_quit` ends with a query outstanding |
| `conn_twice` | one poll result fails a connection twice, its timer is inserted twice |
| `secret_answer` | a request answered by a discarded chat fails an assertion |
| `store_id` | the update that names a sent message has no effect |
| `chat_removed` | a participant who has left fails an assertion |

Other things the models had to follow appear as named exceptions of properties
that hold: `skipped`, `unsaved`, `missed`, `shifted` keys, `resumed` files,
`clashed`, `early`, `late`, `retitled`, `unmet`, `taken`, the states of `process` and the
reasons in `why`.  A hazard that such a name excepts is not caught by the property: the
property says that it is the only way in which the promise fails.  The notes in
`hazards` say which these are.

## 4. Proofs

Every safety invariant and every action property that a passing run checks is a
theorem, for every value of the constants, but one: `StructuresRight` (see below).  Each
is proved of the specification that the run checks, or of `AppSpec`, the part of it
without `Contents`.  Assumed are the named assumptions on the
constants only: bounds are numbers, sets have the kinds of values they are used with,
and those over which the code counts are finite.

The argument is the same everywhere.  A property is seldom inductive, so each module
ends with the conjuncts that make it so (for `Treap` its module of proofs does), and
their conjunction `IInv`, which TLC was given as an invariant before it was proved.
Lemmas show that `Init` implies it, that each action keeps it (one lemma for an action
that takes more than a few lines, one step for each conjunct that it can disturb), and
that it implies the property.

| module | what `IInv` adds, and why it is needed |
|---|---|
| `RpcQueries` | a rejection of a first transmission is only in flight, and the transmission only unread, while its query is not acknowledged: a salt is rejected or the query accepted, never both, which is why the timer is there when `query_restart` removes it |
| `Connection` | an unborn connection has neither timer nor events (`Unborn`); until the first failure of an iteration what was polled is registered (`PolledRegistered`); the header is at the head of the buffer until something is sent (`HeaderAhead`) |
| `SecretChat` | each state fixes the rest of the record (`Shape`); the chat is one we asked for, or one the peer asked for, and nothing of the other kind is about (`Ours`, `Theirs`); what is outstanding and what was sent fits the server's state (`Outstanding`, `SentFits`); the file is the chat but for a key set in accepting (`FileFits`) |
| `MessageStore` | pending, unsent, listed and created messages are each other's sets (`Consistent`); the server gives each id once (`ServerFits`); a query is out for each pending message of its kind (`QueriesFit`); the log is the structures field by field (`LogFits`); and as long as no message was fetched before its own answer no id of an answer is taken (`NotOvertaken`) |
| `Participants` | one participant comes or goes with each version (`RosterFits`), each message tells one such change (`Message`), and the list is not older than anything heard (`ListFits`) |
| `Updates` | what is behind the counters, in memory, on disk and in the questions asked, is accounted for and known to the server (`Accounted`, `NotAhead`, `QueriesFit`).  For `NeverBack` also `InOrder`: while no connection is lost there is one answer to a query, and one that is no slice knows all that comes before it |
| `PeerNames` | the created peers are those in the tree, with print names that differ (`Named`); the replay has the same names (`ReplayFits`); what waits for the main thread names peers by names they had (`Event`) |
| `Handshake` | connections are those of data centres with a key and of the one whose turn it is (`TurnFits`); packets belong to the key's exchange (`WireFits`); and as long as nothing has gone wrong the packet under way is the one that `c_state` waits for (`InStep`) |
| `SignIn` | the log is the memory but for the nearest data centre (`LogFits`), the auth file one that was signed in at home (`FileFits`); how much is known at each step (`Steps`); an authorization is at the place of the account (`AtHome`); nothing leads back to the login (`Arrived`) |
| `Uploads` | a file is open until its last part is sent, and the server has just what was sent (`FileFits`); of files sent one after the other only the one under way is shown (`ShownFits`); all parts but the last have one size, of which `MaxParts` are enough, and which is a number of whole blocks in a file for a secret chat that is sent on (`PartsFit`, `Smooth`) |
| `Downloads` | copies end, and downloads begin, at whole parts from the start or from the end of the file (`AtParts`), which is why the assertion on lengths holds even when a copy is resumed at an odd place; a copy is in order unless it was resumed (`CopyFits`) |
| `MessageIndex` | a date leads to a message of its second, and ids of a message are of its second (`DatesFit`, `SameSecond`); without a clash a file leads to its message (`MediasFit`) and messages are under their ids only (`Placed`) |
| `Frontend` | the users of a group wait under its title for it alone, unless the title was given again (`BufferFits`); one group at most is called by a title, it is known and has it, and a known group has a title by which some peer is called (`NamesFit`) |
| `Outbox` | nothing: order, queue and timer are inductive together |
| `Buffers` | byte for byte, what is on the wire and what waits in the chain are the packets given (`OutChain`, `Data`); what was delivered is what was framed of the bytes that came, and no whole packet waits (`Reads`, `Waits`) |
| `Treap` | the tree is a search tree and a heap of exactly the keys in `held`, and no higher than there are keys (`Good`, `KeysIn`): `tree_check`, which compares a node with its children only, does not imply the order |

What else the proofs rest on:

* `CountNotAhead` of `RpcQueries` and the uniqueness of print names need
  cardinalities.  `CreatePrintName` takes the least number that gives a free name; that
  there is one is the pigeonhole principle: there are more numbers up to the number of
  peers than peers.
* A set of numbers has a least one (`LeastOf`, from the well-foundedness of `<`).
  Induction over an operator is out of reach, so it is stated of sets of numbers
  (`Induction`).  With it every recursive function of the models is shown to exist and to
  be what its definition says.  A loop recurs over the turns that are left: its steps are
  packed into a function, and what each turn keeps holds at the end (`Recursion`, `Loop`,
  `LoopKeeps` in `AppProofs`).  This gives the sizes of parts of files (`HalvedPart`,
  `DoubledPart`: a part is found for every file of three units or more, and `MaxParts` of
  them cover it) and the loops over buffers.
* The operations of the treap recur over trees.  A tree is a member of one of the levels
  `TreesTo`, and its height, the least of these, falls at each call; `Solved` is recursion
  by such a rank.  The lemmas named `...Is` give the equations of the operations and those
  named `...Good` what they do to keys and priorities, by induction over the height.  A
  merge, which goes down two trees, recurs over the sum of their heights, and its result
  is no higher than both together (`MergeIn`): this is why the trees of the model,
  `Trees`, have twice the height that a tree of all keys can have.
* The totals of files are cardinalities; `SumWith` and `SumBut` say how a sum changes
  at one place.
* An instance has its own copy of `Cardinality`; `SameCardinality` and `SameCount` show
  that it counts alike.
* The refinement: every step of `RpcQueries` maps to `Start`, `FinishAny` or a stutter
  of `RpcPromise` (`PromiseStep`); `completed` counts calls of methods, and `IInv` says
  that it is zero for queries in the table.

`TableIsRight` and `ConnectionStaysRight` join the single theorems of their modules into
the invariants `QueriesRight` and `ConnectionRight` that the runs check.

Only model-checked are the liveness properties, which these provers cannot do, and
`StructuresRight`, which has two parts.  One is `ContentsKept`: `Contents` walks through
nested structures by recursive operators, about which nothing can be proved here; what
it says of the constructors is a comparison of finite tables, all of whose entries TLC
compares in all styles.  The other is `GeneratorIsSquare`: that an accepted
generator is a square modulo a safe prime, for every prime, is quadratic reciprocity.

## 5. Not modelled

* The user interface (windows, settings, QML), the small helpers and the vendored
  code: no protocol of their own.  Getters and relays of the bridge.
* Encryption, the bytes of strings and files, gzip: conversions
  whose results the models name symbolically.  Hence a secret chat file that is
  half written (`loop.c` 387) is not seen.
* Requests that only format a query and whose answers change nothing: marking
  read (so the truncated id of `queries.c` 1040 is not met), typing, forwarding,
  geo messages.
* Packed messages, sequence numbers, and the numbers of message ids.
* Deletion and restoring of messages, attributes of users and chats that no
  property reads (photos, phones, status), deletion of secret chats by the user.
* The initialisation of the terminal, the console and its output.
* The padding of the last part of an encrypted file, which the receiver cuts off.

That a secret message that is refused stays pending (`queries.c` 896) is known
from the code; `Settled` is asked of plain messages only.

## 6. Plan

1. Models: deletion and restoring of messages, packed messages, marking read.
2. `Contents` with recursive functions in place of recursive operators, so that what
   each pair of functions agrees on is proved for any number of elements in a vector and
   any length of the event log.
