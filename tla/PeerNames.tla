----------------------------- MODULE PeerNames -----------------------------
(***************************************************************************)
(* Users and chats, the names they are called by and the commands that     *)
(* name them.                                                              *)
(*                                                                         *)
(* The core keeps a table of peers (structures.c).  Objects in answers and *)
(* updates become events, which are applied and, with the event log,       *)
(* written (binlog.c).  Every created peer has a print name of its own:    *)
(* its name, and a number when another one has it.  Users print under      *)
(* their name, chats under their title.                                    *)
(*                                                                         *)
(* The interface (telegramthread.cpp) keeps copies of the contacts and the *)
(* dialogs.  Signals of the core and calls of the interface pass one queue *)
(* of events of the main thread.  A call becomes a line of text that names *)
(* the peer (telegramcore.cpp), and the interpreter (interface.c) looks it *)
(* up: a contact by its print name, a chat by its title.  Commands that make  *)
(* a chat take any peer of that name, and assert that it is a user.          *)
(***************************************************************************)
EXTENDS Integers, SequencesExt

CONSTANTS
  Users, Chats,  \* peers, known by their ids
  Names,         \* first and last names and titles, with "_" for a space
  None,          \* no name, no peer
  Blank,         \* the empty name of a contact made by a status alone
  MaxAnswers,    \* bound: objects received
  MaxQueue,      \* bound: events in the queue when a new one is posted
  MaxRestarts    \* bound

Peer == Users \cup Chats

PrintName == Names \X (0..Cardinality(Peer))

PeersAssumption ==
  /\ Users \cap Chats = {} /\ IsFiniteSet(Peer)
  /\ None \notin Peer \cup PrintName \cup Names \cup {Blank} /\ Blank \notin PrintName
  /\ {MaxAnswers, MaxQueue, MaxRestarts} \subseteq Nat

VARIABLES
  table,     \* the peers: Peers[] in order, names, print names, name tree
  replay,    \* what a replay of the event log makes of the table
  logging,   \* binlog_enabled, which never changes
  contacts,  \* TelegramThread: the name of each contact
  dialogs,   \* TelegramThread: the name of each dialog
  calls,     \* the queue: signals of the core, calls of the interface
  done,      \* the last call the interpreter ran: who was meant, who reached
  running,   \* no assertion failed
  answers, restarts

core == <<table, replay, logging>>
copies == <<contacts, dialogs>>
names_vars == <<core, copies, calls, done, running, answers, restarts>>

NoPeers == [known |-> <<>>, created |-> {}, name |-> [p \in Peer |-> None],
            print |-> [p \in Peer |-> None], tree |-> {}]
NothingDone == [meant |-> None, name |-> None, reached |-> None]
NoCopies == [p \in Peer |-> None]

Table == {t \in [known : Seq(Peer), created : SUBSET Peer, tree : SUBSET Peer,
                 name : [Peer -> Names \cup {None}],
                 print : [Peer -> PrintName \cup {None}]] :
            t.created \subseteq Range(t.known)}

\* One type invariant: what is in the tree has a name, copies hold names.
TypeOK ==
  /\ {table, replay} \subseteq Table
  /\ logging \in BOOLEAN
  /\ contacts \in [Peer -> PrintName \cup {None, Blank}]
  /\ dialogs \in [Peer -> PrintName \cup {None, Blank}]
  /\ \A k \in DOMAIN calls :
       calls[k].is \in {"contacts_clear", "contact", "dialogs_clear",
                        "dialog", "status", "call"}
  /\ done \in [meant : Peer \cup {None}, reached : Peer \cup {None},
               name : PrintName \cup {None, Blank}]
  /\ running \in BOOLEAN
  /\ answers \in 0..MaxAnswers /\ restarts \in 0..MaxRestarts

Init ==
  /\ table = NoPeers /\ replay = NoPeers /\ logging \in BOOLEAN
  /\ contacts = NoCopies /\ dialogs = NoCopies /\ calls = <<>>
  /\ done = NothingDone /\ running = TRUE /\ answers = 0 /\ restarts = 0

-----------------------------------------------------------------------------
(* Names *)

PeerLookupName(t, s) == {q \in t.tree : t.print[q] = s}

\* Slip: the number is left out.
CreatePrintName_Plain(t, p, name) == <<name, 0>>

\* create_print_name: the name itself, or the first "name#n", that is not in
\* the tree or is the peer's own.
CreatePrintName(t, p, name) ==
  LET Free(n) == PeerLookupName(t, <<name, n>>) \subseteq {p}
  IN <<name, CHOOSE n \in 0..Cardinality(Peer) :
               Free(n) /\ \A k \in 0..(n - 1) : ~Free(k)>>

\* user_chat_get and insert_user, insert_chat.
InsertPeer(t, p) ==
  IF p \in Range(t.known) THEN t ELSE [t EXCEPT !.known = Append(@, p)]

PeerDeleteName(t, p) == [t EXCEPT !.tree = @ \ {p}]
PeerInsertName(t, p, name) ==
  [t EXCEPT !.name[p] = name, !.print[p] = CreatePrintName(t, p, name),
            !.tree = @ \cup {p}]

Created(t, e) ==
  PeerInsertName([InsertPeer(t, e.p) EXCEPT !.created = @ \cup {e.p}],
                 e.p, e.name)

\* The peer leaves the tree under its old name before it gets the new one.
Renamed(t, e) == PeerInsertName(PeerDeleteName(t, e.p), e.p, e.name)

\* The events of users, and those of chats.
NewUser(t, e) == Created(t, e)
UpdateUserName(t, e) == Renamed(t, e)
ChatCreate(t, e) == Created(t, e)
SetChatTitle(t, e) == Renamed(t, e)

\* replay_log_event, for the events of names.
ReplayLogEvent(t, e) ==
  CASE e.is = "new_user" -> NewUser(t, e)
    [] e.is = "user_name" -> UpdateUserName(t, e)
    [] e.is = "chat_create" -> ChatCreate(t, e)
    [] e.is = "chat_title" -> SetChatTitle(t, e)

\* A state of the core while an answer is read: the table, and what the log
\* gives.
Logged(s, e) ==
  [t |-> ReplayLogEvent(s.t, e),
   log |-> IF logging THEN ReplayLogEvent(s.log, e) ELSE s.log]

\* fetch_user and fetch_chat: a new peer is created, a known one renamed if
\* its name has changed.
FetchUser(s, o) ==
  IF o.p \notin s.t.created
  THEN Logged(s, [is |-> "new_user", p |-> o.p, name |-> o.name])
  ELSE IF s.t.name[o.p] = o.name THEN s
  ELSE Logged(s, [is |-> "user_name", p |-> o.p, name |-> o.name])
FetchChat(s, o) ==
  IF o.p \notin s.t.created
  THEN Logged(s, [is |-> "chat_create", p |-> o.p, name |-> o.name])
  ELSE IF s.t.name[o.p] = o.name THEN s
  ELSE Logged(s, [is |-> "chat_title", p |-> o.p, name |-> o.name])

\* fetch_alloc_user and fetch_alloc_chat.  An object without data (userEmpty,
\* chatEmpty) makes a peer that is known and not created.
FetchAlloc(s, o) ==
  LET r == [s EXCEPT !.t = InsertPeer(@, o.p)]
  IN IF o.name = None THEN r
     ELSE IF o.p \in Users THEN FetchUser(r, o) ELSE FetchChat(r, o)

Object == [p : Peer, name : Names \cup {None}]
Fetched(objects) ==
  LET s == FetchAlloc([t |-> table, log |-> replay], objects[1])
  IN IF Len(objects) = 1 THEN s ELSE FetchAlloc(s, objects[2])
Keep(s) == table' = s.t /\ replay' = s.log /\ UNCHANGED logging

-----------------------------------------------------------------------------
(* Answers and updates *)

Signals(is, t, ps) == [k \in DOMAIN ps |->
  [is |-> is, p |-> ps[k],
   name |-> IF ps[k] \in Chats THEN <<t.name[ps[k]], 0>> ELSE t.print[ps[k]]]]
Clear(is) == <<[is |-> is, p |-> None, name |-> None]>>
Emit(signals) == /\ Len(calls) <= MaxQueue
                 /\ calls' = calls \o signals

Objects == {<<o>> : o \in Object} \cup
  {<<o, u>> : o \in Object, u \in {u \in Object : u.p \in Users}}
Received(objects) ==
  /\ running
  /\ answers + Len(objects) <= MaxAnswers
  /\ answers' = answers + Len(objects)
  /\ Keep(Fetched(objects))
  /\ UNCHANGED <<copies, done, running, restarts>>
Shown(objects) == [k \in DOMAIN objects |-> objects[k].p]

\* An answer whose peers are not shown: chats come before users.
Silently(objects) == Received(objects) /\ UNCHANGED calls
OfUsers(objects) == \A k \in DOMAIN objects : objects[k].p \in Users
ChatFirst(objects) == objects[1].p \in Chats

\* messages.messages, also of a search: the peers of the messages.
HistoryAnswer == \E objects \in Objects : Silently(objects)
\* messages.statedMessage, after a message was forwarded, a chat was made or
\* renamed, or a user was added or removed: the chat and its users.
StatedMessageAnswer == \E objects \in Objects :
  ChatFirst(objects) /\ Silently(objects)
\* messages.chatFull: fetch_chat_full reads the chat and its users.
ChatInfoAnswer == \E objects \in Objects :
  ChatFirst(objects) /\ objects[1].name # None /\ Silently(objects)
\* userFull: fetch_user_full reads the user twice, the second time in the link.
UserInfoAnswer == \E o \in Object :
  o.p \in Users /\ o.name # None /\ Silently(<<o, o>>)
\* A vector of users, in answer to users.getUsers.
UserListAnswer == \E objects \in Objects : OfUsers(objects) /\ Silently(objects)
\* contacts.found and contacts.suggested, which are printed to the console.
SearchAnswer == \E objects \in Objects :
  OfUsers(objects) /\ objects[1].name # None /\ Silently(objects)
SuggestedAnswer == \E objects \in Objects :
  OfUsers(objects) /\ objects[1].name # None /\ Silently(objects)

\* contacts.contacts: the list is cleared, each contact is shown.
ContactsAnswer == \E objects \in Objects :
  /\ \A k \in DOMAIN objects : objects[k].p \in Users
                                /\ objects[k].name # None
  /\ Received(objects)
  /\ Emit(Clear("contacts_clear")
          \o Signals("contact", table', Shown(objects)))

\* An imported contact, and this user itself: shown beside the others.
ContactShown(o, objects) ==
  /\ o.p \in Users /\ o.name # None
  /\ Received(objects)
  /\ Emit(Signals("contact", table', <<o.p>>))
ContactAnswer == \E o \in Object : ContactShown(o, <<o>>)
OwnInfoAnswer == \E o \in Object : ContactShown(o, <<o, o>>)

\* messages.dialogs: the objects are read, then the dialogs are shown.
DialogsAnswer == \E objects \in Objects :
  /\ \A k \in DOMAIN objects : objects[k].name # None
  /\ Received(objects)
  /\ Emit(Clear("dialogs_clear")
          \o Signals("dialog", table', Reverse(Shown(objects))))

\* updateUserStatus of a user that is known.
StatusUpdate == \E u \in Users \cap Range(table.known) :
  /\ running
  /\ Emit(<<[is |-> "status", p |-> u, name |-> None]>>)
  /\ UNCHANGED <<core, copies, done, running, answers, restarts>>

-----------------------------------------------------------------------------
(* The interface *)

\* A call becomes a command with a name; takes is what the interpreter looks for.
Post(p, takes, name) ==
  /\ running /\ Len(calls) <= MaxQueue
  /\ calls' = Append(calls, [is |-> "call", p |-> p, name |-> name,
                             takes |-> takes])
  /\ UNCHANGED <<core, copies, done, running, answers, restarts>>

\* The name a peer is called by: its dialog's, else its contact's.
PeerName(p) == IF dialogs[p] # None THEN dialogs[p] ELSE contacts[p]

\* getHistory, sendMessage, forwardMessage, sendFile, markRead, setTypingState.
CallPeer == \E p \in Peer : PeerName(p) # None /\ Post(p, "peer", PeerName(p))
\* search looks for a contact, and the command takes any peer.
SearchPeer == \E u \in Users : contacts[u] # None /\ Post(u, "peer", contacts[u])
\* loadUserInfo, and loadChatInfo, which becomes loadUserInfo for a user.
LoadUserInfo == \E u \in Users : contacts[u] # None /\ Post(u, "user", contacts[u])
LoadChatInfo == \E c \in Chats : dialogs[c] # None /\ Post(c, "chat", dialogs[c])
\* createChat and createSecretChat
CreateChat == \E u \in Users : contacts[u] # None /\ Post(u, "make", contacts[u])
\* renameChat; chatAddUser and chatDelUser, whose second name is as in loadUserInfo.
ChangeChat == \E c \in Chats : dialogs[c] # None /\ Post(c, "chat", dialogs[c])

\* GET_PEER, GET_PEER_USER and GET_PEER_CHAT of the interpreter.
Taken == [peer |-> Peer, make |-> Peer, user |-> Users, chat |-> Chats]

\* Slip: the number of a print name is not compared, and the last is taken.
NextToken_Prefix(t, token, name) ==
  LET at == {k \in DOMAIN t.known :
               t.print[t.known[k]] # None /\ name # None /\ name # Blank
               /\ t.print[t.known[k]][1] = name[1]}
  IN IF at = {} THEN {None}
     ELSE {t.known[CHOOSE k \in at : \A j \in at : k >= j]}

\* next_token_peer, next_token_user and next_token_chat: the first of Peers[]
\* with that print name.  After an empty name the next word of the line, a
\* part of the text, is taken for the name.
NextToken(t, token, name) ==
  LET at == {k \in DOMAIN t.known :
               t.known[k] \in token /\ t.print[t.known[k]] = name}
  IN IF name = Blank THEN (t.created \cap token) \cup {None}
     ELSE IF at = {} THEN {None}
     ELSE {t.known[CHOOSE k \in at : \A j \in at : k <= j]}

\* do_create_secret_chat and do_create_group_chat assert that they are given a
\* user; other commands take what their token gives.
MakesOfUser(takes, r) == takes = "make" => r \notin Chats

\* send_command and interpreter.
Interpret(call) == \E r \in NextToken(table, Taken[call.takes], call.name) :
  /\ done' = [meant |-> call.p, name |-> call.name, reached |-> r]
  /\ running' = MakesOfUser(call.takes, r)
  /\ UNCHANGED copies

\* _contactFounded also renews the dialog of the user.
ContactFounded(e) ==
  /\ contacts' = [contacts EXCEPT ![e.p] = e.name]
  /\ dialogs' = [dialogs EXCEPT ![e.p] = IF @ = None THEN None ELSE e.name]
  /\ UNCHANGED <<done, running>>
ContactListClear == contacts' = NoCopies /\ UNCHANGED <<dialogs, done, running>>
DialogListClear == dialogs' = NoCopies /\ UNCHANGED <<contacts, done, running>>
DialogFounded(e) ==
  /\ dialogs' = [dialogs EXCEPT ![e.p] = e.name]
  /\ UNCHANGED <<contacts, done, running>>

\* _userStatusChanged: contacts[id] makes the contact if there is none.
UserStatusChanged(e) ==
  /\ contacts' = [contacts EXCEPT ![e.p] = IF @ = None THEN Blank ELSE @]
  /\ UNCHANGED <<dialogs, done, running>>

\* The main thread runs the oldest event of its queue.
MainThread ==
  /\ running /\ calls # <<>> /\ calls' = Tail(calls)
  /\ LET e == Head(calls) IN
       \/ e.is = "contacts_clear" /\ ContactListClear
       \/ e.is = "contact" /\ ContactFounded(e)
       \/ e.is = "dialogs_clear" /\ DialogListClear
       \/ e.is = "dialog" /\ DialogFounded(e)
       \/ e.is = "status" /\ UserStatusChanged(e)
       \/ e.is = "call" /\ Interpret(e)
  /\ UNCHANGED <<core, answers, restarts>>

\* The process ends and starts again: the event log is replayed.
Restart ==
  /\ restarts < MaxRestarts /\ restarts' = restarts + 1
  /\ table' = replay
  /\ contacts' = NoCopies /\ dialogs' = NoCopies /\ calls' = <<>>
  /\ done' = NothingDone /\ running' = TRUE
  /\ UNCHANGED <<replay, logging, answers>>

Next ==
  \/ HistoryAnswer \/ StatedMessageAnswer \/ ChatInfoAnswer \/ UserInfoAnswer
  \/ UserListAnswer \/ SearchAnswer \/ SuggestedAnswer
  \/ ContactsAnswer \/ ContactAnswer \/ OwnInfoAnswer \/ DialogsAnswer \/ StatusUpdate
  \/ CallPeer \/ SearchPeer \/ LoadUserInfo \/ LoadChatInfo \/ CreateChat
  \/ ChangeChat \/ MainThread \/ Restart

Spec == Init /\ [][Next]_names_vars

-----------------------------------------------------------------------------
(* Properties *)

\* No two peers print under one name, and every created peer is found in the
\* tree of names, whatever renamings and repeated objects came before.
NamesUnique ==
  /\ table.tree = table.created
  /\ \A p, q \in table.tree : table.print[p] = table.print[q] => p = q

\* The event log rebuilds the names: numbers are given in the order of the
\* events, so a replay gives each peer the number it had.
ReplayRebuilds ==
  logging => replay.print = table.print /\ replay.tree = table.tree

\* A command reaches another peer than the user chose only under a name that
\* is not, or no longer, the print name of that peer: the title of a chat
\* whose print name has a number, a copy that is older than a renaming, or
\* the empty name of a contact known by its status alone.
AstrayOnlyUnderWrongName ==
  [][done' # done /\ done'.meant # None /\ done'.reached # done'.meant
     => done'.name = Blank \/ done'.name # table.print[done'.meant]]_names_vars

-----------------------------------------------------------------------------
(* The inductive invariant *)

\* Just the created peers are in the tree and have a print name.
Named(t) ==
  /\ t.tree = t.created
  /\ \A p \in Peer : IF p \in t.created THEN t.name[p] # None /\ t.print[p] # None
                                        ELSE t.print[p] = None
  /\ \A p, q \in t.tree : t.print[p] = t.print[q] => p = q

\* The names of two tables are the same; peers that are only known may differ.
SameNames(t, u) ==
  t.created = u.created /\ t.tree = u.tree /\ t.name = u.name /\ t.print = u.print
ReplayFits(t, u) == IF logging THEN SameNames(t, u) ELSE u = NoPeers

\* A signal tells of a peer that has a name, a call names a peer that its command
\* may take.
Event ==
  [is : {"contacts_clear", "dialogs_clear"}, p : {None}, name : {None}]
  \cup [is : {"contact", "dialog"}, p : Peer, name : PrintName]
  \cup [is : {"status"}, p : Users, name : {None}]
  \cup {c \in [is : {"call"}, p : Peer, name : PrintName \cup {Blank},
               takes : DOMAIN Taken] : c.p \in Taken[c.takes]}

\* Inductive: each action keeps it.
IInv == TypeOK /\ Named(table) /\ ReplayFits(table, replay) /\ calls \in Seq(Event)
=============================================================================
