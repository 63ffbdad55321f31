------------------------------ MODULE Frontend ------------------------------
(***************************************************************************)
(* The class Telegram, which QML calls (telegram.cpp).  It passes most     *)
(* calls on and keeps what has to wait, beside the messages of Outbox:     *)
(*                                                                         *)
(*   - the list of dialogs is asked for again at most once a second        *)
(*     after messages came;                                                *)
(*   - a new group is created with its first user, if that is a contact;   *)
(*     the others wait under the title of the group until its creation is  *)
(*     announced.  Those that are contacts are then added, if the group is *)
(*     among the dialogs: to the chat that is called by its title, which   *)
(*     is the first of that title that the core came to know.              *)
(*                                                                         *)
(* Titles are not changed here, and none ends in # and a number, like the  *)
(* names that the core makes of them: PeerNames has the names of all peers.*)
(***************************************************************************)
EXTENDS Integers

CONSTANTS
  Groups,    \* groups of this user, by the ids the server gives them
  Titles,
  Members,   \* users beside the first one of a group
  MaxNews    \* bound: other messages that come

FrontendAssumption == MaxNews \in Nat

VARIABLES
  dialogTimer, \* update_dialog_timer_id is set
  dialogAgain, \* update_dialog_again
  fires,       \* the timer of that id is not killed
  news,        \* history: a message came since the list was asked for
  cameNews,    \* counts them
  listing,     \* the list of dialogs is asked for
  dialogs,     \* TelegramThread: the groups among the dialogs
  group,       \* of each group: its title, others and how far it is
  waiting,     \* chat_group_buffer: of each title, the others
  contacts,    \* TelegramThread: the users among the contacts, with a name
  prints,      \* core: of each title, the group whose print name it is
  taken,       \* core: titles that are the print name of another peer, or of none
  added,       \* of each group: the users the core is to add to it
  late,        \* history: groups announced before they were in the list
  unmet,       \* history: of each group, users who were no contacts when announced
  retitled     \* history: titles given to a group while others waited

refreshing == <<dialogTimer, dialogAgain, fires, news, cameNews, listing>>
naming == <<contacts, prints, taken>>
making == <<dialogs, group, waiting, naming, added, late, unmet, retitled>>
frontend_vars == <<refreshing, making>>

NoTitle == "no title"
NoGroup == [title |-> NoTitle, others |-> {}, stage |-> "none"]
On(stages) == {g \in Groups : group[g].stage \in stages}
Pending == On({"asked", "made", "known"})
Listed == On({"known", "announced"})
Titled(t) == {g \in Groups : group[g].title = t}

\* One type invariant: a timer that is set fires; groups in the list exist.
TypeOK ==
  /\ cameNews \in 0..MaxNews
  /\ {dialogTimer, dialogAgain, fires, news, listing} \subseteq BOOLEAN
  /\ dialogTimer = fires
  /\ group \in [Groups -> [title : Titles \cup {NoTitle}, others : SUBSET Members,
                           stage : {"none", "asked", "made", "known", "announced"}]]
  /\ dialogs \subseteq Listed /\ late \subseteq On({"announced"})
  /\ waiting \in [Titles -> SUBSET Members] /\ added \in [Groups -> SUBSET Members]
  /\ unmet \in [Groups -> SUBSET Members] /\ prints \in [Titles -> SUBSET Groups]
  /\ contacts \subseteq Members /\ taken \cup retitled \subseteq Titles

Init ==
  /\ dialogTimer = FALSE /\ dialogAgain = FALSE /\ fires = FALSE
  /\ news = FALSE /\ cameNews = 0 /\ listing = FALSE
  /\ dialogs = {} /\ group = [g \in Groups |-> NoGroup]
  /\ waiting = [t \in Titles |-> {}] /\ added = [g \in Groups |-> {}]
  /\ contacts = {} /\ prints = [t \in Titles |-> {}] /\ taken = {}
  /\ late = {} /\ unmet = [g \in Groups |-> {}] /\ retitled = {}

-----------------------------------------------------------------------------
(* The list of dialogs *)

UpdateDialogListUsingTimer ==
  /\ dialogAgain' = dialogTimer
  /\ IF dialogTimer THEN UNCHANGED <<dialogTimer, fires>>
     ELSE dialogTimer' = TRUE /\ fires' = TRUE

\* A message that is not about a group of ours comes: QML asks for the list.
IncomingMsg ==
  /\ cameNews < MaxNews /\ cameNews' = cameNews + 1 /\ news' = TRUE
  /\ UpdateDialogListUsingTimer
  /\ UNCHANGED <<listing, making>>

\* Slip: the id of the timer that was killed is kept.
DialogTimerEvent_KeepsId ==
  IF dialogAgain
  THEN dialogAgain' = FALSE /\ UNCHANGED <<dialogTimer, fires>>
  ELSE fires' = FALSE /\ UNCHANGED <<dialogAgain, dialogTimer>>

\* timerEvent: once more if it was asked for meanwhile.
DialogTimerEvent ==
  IF dialogAgain
  THEN dialogAgain' = FALSE /\ UNCHANGED <<dialogTimer, fires>>
  ELSE dialogTimer' = FALSE /\ fires' = FALSE /\ UNCHANGED dialogAgain

DialogTimer ==
  /\ fires /\ DialogTimerEvent
  /\ listing' = TRUE /\ news' = FALSE
  /\ UNCHANGED <<cameNews, making>>

\* The list, as it was at the server at some time since it was asked for.
DialogsAnswer ==
  /\ listing /\ listing' = FALSE
  /\ \E ds \in SUBSET Listed : dialogs \subseteq ds /\ dialogs' = ds
  /\ UNCHANGED <<dialogTimer, dialogAgain, fires, news, cameNews,
                 group, waiting, naming, added, late, unmet, retitled>>

-----------------------------------------------------------------------------
(* Groups *)

\* The users wait under the title, whether or not those of another group do.
Awaits(t) == \E h \in Pending : group[h].title = t
Retitle(t, again) == retitled' = IF again THEN retitled \cup {t} ELSE retitled

\* createChatUsers: the others wait; createChat does nothing if the first user is
\* no contact, and asks for the group if it is one.
CreateChatUsers == \E t \in Titles, others \in SUBSET Members :
  /\ waiting' = [waiting EXCEPT ![t] = others]
  /\ \/ UNCHANGED group
     \/ \E g \in On({"none"}) :
          group' = [group EXCEPT ![g] = [title |-> t, others |-> others, stage |-> "asked"]]
  /\ Retitle(t, Awaits(t))
  /\ UNCHANGED <<refreshing, dialogs, naming, added, late, unmet>>

\* The server makes the group.
ServerMakes == \E g \in On({"asked"}) :
  /\ group' = [group EXCEPT ![g].stage = "made"]
  /\ UNCHANGED <<refreshing, dialogs, waiting, naming, added, late, unmet,
                 retitled>>

\* This user made a group with another client, or before.
MadeElsewhere == \E g \in On({"none"}), t \in Titles :
  /\ group' = [group EXCEPT ![g] = [title |-> t, others |-> {}, stage |-> "made"]]
  /\ Retitle(t, Awaits(t) \/ waiting[t] # {})
  /\ UNCHANGED <<refreshing, dialogs, waiting, naming, added, late, unmet>>

\* fetch_alloc_chat and create_print_name: the group is called by its title, if
\* no peer is as yet.  A number follows the title of the others.
FetchChat == \E g \in On({"made"}) :
  LET t == group[g].title IN
  /\ group' = [group EXCEPT ![g].stage = "known"]
  /\ prints' = [prints EXCEPT ![t] = IF @ = {} /\ t \notin taken THEN {g} ELSE @]
  /\ UNCHANGED <<refreshing, dialogs, waiting, contacts, taken, added, late,
                 unmet, retitled>>

\* Another peer comes to be called by a title; or the title is no word that a
\* command finds a chat by.
FetchOther == \E t \in Titles \ taken :
  /\ prints[t] = {} /\ taken' = taken \cup {t}
  /\ UNCHANGED <<refreshing, dialogs, group, waiting, contacts, prints, added,
                 late, unmet, retitled>>

\* The list of contacts comes: cleared and filled again.
ContactList ==
  /\ contacts' \in SUBSET Members
  /\ UNCHANGED <<refreshing, dialogs, group, waiting, prints, taken, added, late,
                 unmet, retitled>>

\* TelegramThread::chatAddUser, for each of the users, does nothing for a group
\* that is not among the dialogs and for a user who is no contact.  The command
\* has the title of the group, and next_token_chat finds whom it is the name of.
ChatAddUser(g, users) ==
  LET reached == IF g \in dialogs THEN prints[group[g].title] ELSE {}
  IN  added' = [h \in Groups |->
                  IF h \in reached THEN added[h] \cup (users \cap contacts) ELSE added[h]]

\* Slip: the buffer is emptied before it is used.
IncomingNewMsg_EmptiesFirst(g) ==
  /\ waiting' = [waiting EXCEPT ![group[g].title] = {}]
  /\ ChatAddUser(g, waiting'[group[g].title])

\* _incomingNewMsg, of the message that the group was created by this user.
IncomingNewMsg(g) ==
  /\ ChatAddUser(g, waiting[group[g].title])
  /\ waiting' = [waiting EXCEPT ![group[g].title] = {}]

\* The message comes, with the group; the list is asked for at once, and by QML
\* with the timer.
Announced == \E g \in On({"known"}) :
  /\ group' = [group EXCEPT ![g].stage = "announced"]
  /\ IncomingNewMsg(g)
  /\ late' = IF g \in dialogs THEN late ELSE late \cup {g}
  /\ unmet' = [unmet EXCEPT ![g] = group[g].others \ contacts]
  /\ listing' = TRUE /\ news' = TRUE /\ UpdateDialogListUsingTimer
  /\ UNCHANGED <<cameNews, dialogs, naming, retitled>>

Next ==
  \/ IncomingMsg \/ DialogTimer \/ DialogsAnswer
  \/ CreateChatUsers \/ ServerMakes \/ MadeElsewhere \/ FetchChat \/ FetchOther
  \/ ContactList \/ Announced

\* A timer that runs fires.
Fairness == WF_frontend_vars(DialogTimer)
Spec == Init /\ [][Next]_frontend_vars
FairSpec == Spec /\ Fairness

-----------------------------------------------------------------------------
(* Properties *)

\* A group that gets users is the one that is called by its title.
CalledByTitle(g) ==
  added[g] # {} => group[g].title \in Titles /\ prints[group[g].title] = {g}

\* They were chosen for a group of that title that is announced.
ChosenForTitle(g) == group[g].title \notin retitled =>
  added[g] \subseteq
    UNION {group[h].others : h \in Titled(group[g].title) \cap On({"announced"})}

\* Nobody who was chosen is forgotten but one who was no contact.
NobodyForgotten(g) ==
  g \in On({"announced"}) \ late /\ group[g].title \notin retitled \cup taken =>
    \E h \in prints[group[g].title] : group[g].others \ unmet[g] \subseteq added[h]

\* Of the groups of one title only the one that is called by it gets users; they
\* were chosen for it or for a later group of that title, which never gets its own;
\* and nobody who was chosen is forgotten but one who was no contact when the group
\* was announced, or all if the group was not yet in the list of dialogs.  Excepted
\* are titles given again while users waited under them, and titles that lead to
\* a peer that is none of the groups.
GroupsAsChosen ==
  \A g \in Groups : CalledByTitle(g) /\ ChosenForTitle(g) /\ NobodyForgotten(g)

\* After a message that came the list of dialogs is asked for.
ListAskedFor == news ~> ~news

-----------------------------------------------------------------------------
(* The inductive invariant *)

\* The users of a group that is not announced wait under its title, for it alone
\* unless the title was given again.
BufferFits == \A g \in Pending :
  /\ group[g].title \in Titles
  /\ group[g].title \in retitled \/
       /\ waiting[group[g].title] = group[g].others
       /\ \A h \in Pending \ {g} : group[h].title # group[g].title

\* A group that is known has a title by which it or another peer is called; one
\* group at most is.
NamesFit ==
  /\ \A g \in Listed : LET t == group[g].title IN
       t \in Titles /\ (prints[t] # {} \/ t \in taken)
  /\ \A t \in Titles :
       /\ prints[t] \subseteq Titled(t) \cap Listed
       /\ \A g \in prints[t] : prints[t] = {g}

\* Inductive: each action keeps it.
IInv == TypeOK /\ BufferFits /\ NamesFit /\ GroupsAsChosen
=============================================================================
