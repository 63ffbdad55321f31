---------------------------- MODULE MessageIndex ----------------------------
(***************************************************************************)
(* The messages as the interface knows them: the hashes of TelegramThread, *)
(* kept by its slots from the signals of the core (incomingMsg, msgSent,   *)
(* msgMarkedAsRead, fileLoaded), which come in the order they were sent.   *)
(*                                                                         *)
(* A message that is being sent is announced under a made-up negative id.  *)
(* When it was sent, the core tells its id of the server and its date; the *)
(* interface looks by the date for the message whose id changes.           *)
(*                                                                         *)
(* Messages are numbered by their server's id; the made-up id is -m.       *)
(***************************************************************************)
EXTENDS Integers, FiniteSets

CONSTANTS
  Messages,  \* the messages, by their ids on the server
  Mine,      \* those of the user of this client
  Dates,     \* seconds
  Media,     \* photos and other files
  NoMedia

MessagesAssumption ==
  /\ Messages \subseteq Nat \ {0} /\ Mine \subseteq Messages
  /\ Dates \subseteq Nat \ {0} /\ NoMedia \notin Media

Ids == Messages \cup {-m : m \in Messages}
Absent == 0
Blank == -1000          \* what operator[] makes of an absent message
User == {"me", "peer"}

VARIABLES
  date, media,    \* of each message, which never change
  stage,          \* core: "unknown"; "fetched" without an announcement;
                  \* "pending"; "announced"; "sent"
  messages,       \* of each id: the message whose content is under it
  messageDates,   \* of each date: an id
  usersMessages,  \* of each user and date: an id
  lists,          \* messagesFroms and messagesTos: the ids of the dialog
  messageMedias,  \* of each file: an id (messageMedias, messageHashes)
  fileOf,         \* the ids that have a file
  clashed,        \* history: messages of one second were announced
  early           \* history: messages told as read before they were announced

index == <<messages, messageDates, usersMessages, lists, messageMedias, fileOf>>
index_vars == <<date, media, stage, index, clashed, early>>

From(m) == IF m \in Mine THEN "me" ELSE "peer"
Known(id) == messages[id] # Absent

\* The id under which the interface should have a message.
IdOf(m) == IF stage[m] = "pending" THEN -m ELSE m
Announced == {m \in Messages : stage[m] \in {"pending", "announced", "sent"}}

\* One type invariant: what was not announced is not in the index.
TypeOK ==
  /\ date \in [Messages -> Dates] /\ media \in [Messages -> Media \cup {NoMedia}]
  /\ stage \in [Messages -> {"unknown", "fetched", "pending", "announced", "sent"}]
  /\ messages \in [Ids -> Announced \cup {Absent, Blank}]
  /\ \A m \in Messages : stage[m] \in {"pending", "sent"} => m \in Mine
  /\ messageDates \in [Dates -> Ids \cup {Absent}] /\ lists \subseteq Ids
  /\ usersMessages \in [User -> [Dates -> Ids \cup {Absent}]]
  /\ messageMedias \in [Media -> Ids \cup {Absent}] /\ fileOf \subseteq Ids
  /\ clashed \in BOOLEAN /\ early \subseteq Messages

Init ==
  /\ date \in [Messages -> Dates] /\ media \in [Messages -> Media \cup {NoMedia}]
  /\ stage = [m \in Messages |-> "unknown"]
  /\ messages = [i \in Ids |-> Absent] /\ messageDates = [t \in Dates |-> Absent]
  /\ usersMessages = [u \in User |-> [t \in Dates |-> Absent]]
  /\ lists = {} /\ messageMedias = [v \in Media |-> Absent] /\ fileOf = {}
  /\ clashed = FALSE /\ early = {}

-----------------------------------------------------------------------------
(* The slots.  Each gives the index that follows from one. *)

Index == [messages |-> messages, dates |-> messageDates, users |-> usersMessages,
          lists |-> lists, medias |-> messageMedias, files |-> fileOf]
Becomes(x) ==
  /\ messages' = x.messages /\ messageDates' = x.dates /\ usersMessages' = x.users
  /\ lists' = x.lists /\ messageMedias' = x.medias /\ fileOf' = x.files

\* The entries of the message m under an id.
Entered(x, id, m) ==
  [x EXCEPT !.messages[id] = m, !.dates[date[m]] = id, !.users[From(m)][date[m]] = id,
            !.lists = @ \cup {id},
            !.medias = IF media[m] = NoMedia THEN @ ELSE [@ EXCEPT ![media[m]] = id]]

\* _incomingMsg; the file may be there already.
IncomingMsg(x, id, m) == IF x.messages[id] # Absent THEN x ELSE Entered(x, id, m)

\* Slip: the entry under the old id stays.
MsgSent_KeepsOld(x, id, t) ==
  IF x.dates[t] \in {Absent, id} THEN x
  ELSE Entered(x, id, x.messages[x.dates[t]])

\* _msgSent: the message that is last under the date gets the id, whichever it
\* is.
MsgSent(x, id, t) ==
  LET mid == x.dates[t] IN
  IF mid \in {Absent, id} THEN x
  ELSE [Entered(x, id, x.messages[mid]) EXCEPT
          !.lists = @ \ {mid}, !.messages[mid] = Absent, !.files = @ \ {mid}]

\* _msgMarkedAsRead: the same, and a message is made if there is none.
MsgMarkedAsRead(x, id, t) ==
  LET y == MsgSent(x, id, t)
  IN [y EXCEPT !.messages[id] = IF @ = Absent THEN Blank ELSE @]

\* _fileLoaded, which also makes a message if there is none.
FileLoaded(x, v) ==
  LET id == x.medias[v] IN
  IF id = Absent THEN x
  ELSE [x EXCEPT !.files = @ \cup {id},
                 !.messages[id] = IF @ = Absent THEN Blank ELSE @]

-----------------------------------------------------------------------------
(* What the core tells *)

Clash(m) == clashed \/ \E n \in Announced \ {m} : date[n] = date[m]

\* A message is sent: print_message while it is pending.
Send == \E m \in Mine :
  /\ stage[m] = "unknown" /\ stage' = [stage EXCEPT ![m] = "pending"]
  /\ Becomes(IncomingMsg(Index, -m, m)) /\ clashed' = Clash(m)
  /\ UNCHANGED <<date, media, early>>

\* msg_send_on_answer.
Sent == \E m \in Mine :
  /\ stage[m] = "pending" /\ stage' = [stage EXCEPT ![m] = "sent"]
  /\ Becomes(MsgSent(Index, m, date[m]))
  /\ UNCHANGED <<date, media, clashed, early>>

\* The last message of a dialog is fetched with the list of dialogs, and not
\* printed.
Fetch == \E m \in Messages :
  /\ stage[m] = "unknown" /\ stage' = [stage EXCEPT ![m] = "fetched"]
  /\ UNCHANGED <<date, media, index, clashed, early>>

\* An update, a difference or the history: printed once and again.
Announce == \E m \in Messages :
  /\ stage[m] \in {"unknown", "fetched", "announced", "sent"}
  /\ stage' = [stage EXCEPT ![m] = IF @ = "sent" THEN @ ELSE "announced"]
  /\ Becomes(IncomingMsg(Index, m, m)) /\ clashed' = Clash(m)
  /\ UNCHANGED <<date, media, early>>

\* update_read_messages, of a message that the core has.
Read == \E m \in Messages :
  /\ stage[m] \in {"fetched", "announced", "sent"}
  /\ Becomes(MsgMarkedAsRead(Index, m, date[m]))
  /\ early' = IF stage[m] = "fetched" THEN early \cup {m} ELSE early
  /\ UNCHANGED <<date, media, stage, clashed>>

\* end_load.
Loaded == \E v \in Media :
  /\ Becomes(FileLoaded(Index, v))
  /\ UNCHANGED <<date, media, stage, clashed, early>>

Next == Send \/ Sent \/ Fetch \/ Announce \/ Read \/ Loaded
Spec == Init /\ [][Next]_index_vars

-----------------------------------------------------------------------------
(* Properties *)

\* Every message that was announced is in its dialog under its id, with its own
\* content, through all renamings and repetitions: unless two messages of one
\* second were announced, or one was told as read before it was announced.
EachUnderItsId ==
  ~clashed /\ early = {} =>
    /\ lists = {IdOf(m) : m \in Announced}
    /\ \A m \in Announced : messages[IdOf(m)] = m
         /\ usersMessages[From(m)][date[m]] = IdOf(m)

\* What the index names is there, through all renamings: no date and no dialog
\* leads to an id that has gone, whatever messages of one second were
\* announced; nor does a file, unless there were such messages.
NoDangling ==
  /\ \A t \in Dates : messageDates[t] # Absent => Known(messageDates[t])
  /\ \A i \in lists : Known(i)
  /\ ~clashed => \A v \in Media : messageMedias[v] # Absent => Known(messageMedias[v])

-----------------------------------------------------------------------------
(* The inductive invariant *)

\* A date leads to a message of its second, and a message is only ever under ids
\* of its second.
DatesFit == \A t \in Dates : messageDates[t] # Absent =>
  /\ messages[messageDates[t]] \in Messages
  /\ date[messages[messageDates[t]]] = t
SameSecond == \A m \in Messages : \A i \in {m, -m} :
  messages[i] \in Messages => date[messages[i]] = date[m]
ListsFit == \A i \in lists : Known(i)

\* Until messages of one second were announced, a file leads to its message.
Apart == ~clashed => \A m, n \in Announced : date[m] = date[n] => m = n
MediasFit == ~clashed => \A v \in Media : messageMedias[v] # Absent =>
  /\ messages[messageMedias[v]] \in Messages
  /\ media[messages[messageMedias[v]]] = v

\* As long as nothing was told too early, messages are under their ids, and under
\* no others.
Placed == ~clashed /\ early = {} =>
  /\ \A m \in Announced : messageDates[date[m]] = IdOf(m)
  /\ \A i \in Ids : messages[i] # Absent => \E m \in Announced : i = IdOf(m)

\* Inductive: each action keeps it.
IInv ==
  /\ TypeOK /\ DatesFit /\ SameSecond /\ ListsFit /\ Apart /\ MediasFit
  /\ Placed /\ EachUnderItsId
=============================================================================
