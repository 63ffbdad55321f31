---------------------------- MODULE Participants ----------------------------
(***************************************************************************)
(* One group chat and the list of its participants (mtproto-client.c,      *)
(* structures.c, binlog.c).                                                *)
(*                                                                         *)
(* The server numbers the states of the list: roster[v] is the set of      *)
(* participants of version v.  It tells a change by an update, the whole   *)
(* list by an update or in the answer to chat_info, and version and size   *)
(* with every object of the chat.  Updates may be lost or come again       *)
(* (Updates); answers come.                                                *)
(*                                                                         *)
(* The client keeps the list with the version it is of.  A change is taken *)
(* only if it is newer than the list, and only if there is a list.         *)
(***************************************************************************)
EXTENDS Integers, SequencesExt

CONSTANTS
  Members,     \* users that may take part
  MaxVersion,  \* bound: versions of the list
  MaxFeed,     \* bound: messages in flight
  MaxRepeats,  \* bound: updates that come again, or are lost
  MaxStarts    \* bound: restarts of the client

ParticipantsAssumption ==
  /\ Members # {} /\ MaxVersion \in Nat \ {0}
  /\ {MaxFeed, MaxRepeats, MaxStarts} \subseteq Nat

VARIABLES
  roster,    \* server: the participants of each version
  feed,      \* in flight to the client, in order
  chat,      \* the chat in the client
  chatLog,   \* what a replay of the event log makes of it
  chatLogged,\* binlog_enabled, which never changes
  failed,    \* an assertion failed, the process is gone
  heard,     \* history: since the whole list, the versions that were told
  whole,     \* history: the version of the last whole list that was taken
  repeats, starts

roster_vars == <<roster, feed, chat, chatLog, chatLogged, failed, heard,
                 whole, repeats, starts>>

NoChat == [created |-> FALSE, forbidden |-> FALSE, version |-> 0, num |-> 0,
           listVersion |-> 0, list |-> <<>>]
Versions == DOMAIN roster
Newest == Len(roster)

Told(is, v, u) == [is |-> is, v |-> v, u |-> u]

Kind == {"add", "delete", "list", "chat", "forbidden", "full"}
ChatState == [created : BOOLEAN, forbidden : BOOLEAN, version : Int, num : Int,
              listVersion : Nat, list : Seq(Members)]

\* One type invariant: a list has a version, versions are the server's.
TypeOK ==
  /\ roster \in Seq(SUBSET Members) /\ Newest \in 1..MaxVersion
  /\ \A k \in DOMAIN feed : feed[k].v \in Versions /\ feed[k].is \in Kind
  /\ {chat, chatLog} \subseteq ChatState
  /\ chat.listVersion \in Versions \cup {0} /\ whole \in Versions \cup {0}
  /\ chatLogged \in BOOLEAN /\ failed \in BOOLEAN /\ heard \subseteq Versions
  /\ repeats \in 0..MaxRepeats /\ starts \in 0..MaxStarts

Init ==
  /\ \E u \in Members : roster = <<{u}>>
  /\ feed = <<>> /\ chat = NoChat /\ chatLog = NoChat /\ chatLogged \in BOOLEAN
  /\ failed = FALSE /\ heard = {} /\ whole = 0 /\ repeats = 0 /\ starts = 0

-----------------------------------------------------------------------------
(* The server, external *)

ClientSame == UNCHANGED <<chat, chatLog, chatLogged, failed, heard, whole,
                          starts>>
Send(m) == Len(feed) < MaxFeed /\ feed' = Append(feed, m)
Change(is, members, u) ==
  /\ Newest < MaxVersion
  /\ roster' = Append(roster, members) /\ Send(Told(is, Newest + 1, u))
  /\ UNCHANGED repeats /\ ClientSame

ServerAdds == \E u \in Members \ roster[Newest] :
  Change("add", roster[Newest] \cup {u}, u)
ServerDeletes == \E u \in roster[Newest] :
  Change("delete", roster[Newest] \ {u}, u)

\* An object of the chat, also when we are no more in it; the whole list, by
\* itself or in the answer to chat_info.
ServerTells == \E is \in {"list", "chat", "forbidden", "full"} :
  /\ Send(Told(is, Newest, CHOOSE u \in Members : TRUE))
  /\ UNCHANGED <<roster, repeats>> /\ ClientSame

\* The update of version v comes once more.
ServerRepeats == \E v \in Versions \ {1} :
  /\ repeats < MaxRepeats /\ repeats' = repeats + 1
  /\ \/ \E u \in roster[v] \ roster[v - 1] : Send(Told("add", v, u))
     \/ \E u \in roster[v - 1] \ roster[v] : Send(Told("delete", v, u))
     \/ Send(Told("list", v, CHOOSE u \in Members : TRUE))
  /\ UNCHANGED roster /\ ClientSame

UpdateLost ==
  /\ feed # <<>> /\ Head(feed).is # "full" /\ feed' = Tail(feed)
  /\ repeats < MaxRepeats /\ repeats' = repeats + 1
  /\ UNCHANGED roster /\ ClientSame

-----------------------------------------------------------------------------
(* Events: what bl_do_... writes and replay_log_event does; Fails is the     *)
(* outcome of an assertion.                                                  *)

Fails(c) == [c EXCEPT !.created = FALSE, !.listVersion = -1]
HasFailed(c) == c.listVersion = -1

\* bl_do_create_chat and the event chat_create
DoCreateChat(c, y, n, v) ==
  [c EXCEPT !.created = TRUE, !.forbidden = y, !.num = n, !.version = v]
DoChatForbid(c, on) == [c EXCEPT !.forbidden = on]
DoSetChatVersion(c, v, n) ==
  IF c.version >= v THEN c ELSE [c EXCEPT !.version = v, !.num = n]
\* Slip: an older list is taken.
DoSetChatParticipants_Older(c, v, members) ==
  [c EXCEPT !.listVersion = v, !.list = SetToSeq(members)]

DoSetChatParticipants(c, v, members) ==
  IF c.listVersion >= v THEN c
  ELSE [c EXCEPT !.listVersion = v, !.list = SetToSeq(members)]

\* Slip: the version moves and the list does not.
AddChatParticipant_VersionOnly(c, v, u) ==
  IF c.listVersion < v /\ u \notin Range(c.list)
  THEN [c EXCEPT !.listVersion = v] ELSE Fails(c)

\* The event add_chat_participant asserts that the user is new.
AddChatParticipant(c, v, u) ==
  IF c.listVersion < v /\ u \notin Range(c.list)
  THEN [c EXCEPT !.list = Append(@, u), !.listVersion = v] ELSE Fails(c)
NotTaken(c, v) == c.listVersion >= v \/ c.listVersion = 0

DoChatAddUser(c, v, u) ==
  IF NotTaken(c, v) THEN c ELSE AddChatParticipant(c, v, u)

\* bl_do_chat_del_user writes 16 bytes with the code of add_chat_participant,
\* which is 24 long: a user of the list fails the assertion that it is new,
\* and for any other the reader ends beyond the event.
DoChatDelUser(c, v, u) == IF NotTaken(c, v) THEN c ELSE Fails(c)

-----------------------------------------------------------------------------
(* The handlers *)

\* fetch_chat.  A known chat passes the size where bl_do_set_chat_version
\* takes the version, and the version for the size.
FetchChat(c, is, v) ==
  LET n == Cardinality(roster[v])
      x == is = "forbidden"
  IN IF ~c.created
     THEN DoCreateChat(c, x, IF x THEN -1 ELSE n, IF x THEN -1 ELSE v)
     ELSE IF x THEN DoChatForbid(c, TRUE)
     ELSE DoSetChatVersion(DoChatForbid(c, FALSE), n, v)

\* fetch_alloc_chat_full: the chat's object comes with the list.
FetchChatFull(c, v) ==
  DoSetChatParticipants(FetchChat(c, "chat", v), v, roster[v])

\* work_update, for the three updates of participants.
UpdateChatParticipants(c, v) ==
  IF c.created THEN DoSetChatParticipants(c, v, roster[v]) ELSE c
UpdateParticipantAdd(c, v, u) ==
  IF c.created THEN DoChatAddUser(c, v, u) ELSE c
UpdateParticipantDelete(c, v, u) ==
  IF c.created THEN DoChatDelUser(c, v, u) ELSE c

Handled(m) ==
  IF m.is = "add" THEN UpdateParticipantAdd(chat, m.v, m.u)
  ELSE IF m.is = "delete" THEN UpdateParticipantDelete(chat, m.v, m.u)
  ELSE IF m.is = "list" THEN UpdateChatParticipants(chat, m.v)
  ELSE IF m.is = "full" THEN FetchChatFull(chat, m.v)
  ELSE FetchChat(chat, m.is, m.v)

Remember(m, c) ==
  LET took == c.listVersion # chat.listVersion
  IN /\ whole' = IF took /\ m.is \in {"list", "full"} THEN m.v ELSE whole
     /\ heard' = IF took /\ m.is \in {"list", "full"} THEN {}
                 ELSE IF took THEN heard \cup {m.v} ELSE heard

\* An event that fails an assertion ends the process before it is written.
Receive ==
  /\ ~failed /\ feed # <<>> /\ feed' = Tail(feed)
  /\ LET m == Head(feed)
         c == Handled(m)
     IN IF HasFailed(c)
        THEN failed' = TRUE /\ UNCHANGED <<chat, chatLog, heard, whole>>
        ELSE /\ chat' = c /\ Remember(m, c) /\ UNCHANGED failed
             /\ chatLog' = IF chatLogged THEN c ELSE chatLog
  /\ UNCHANGED <<roster, chatLogged, repeats, starts>>

\* The client ends, by itself or by the assertion, and starts again.  What
\* was in flight is not asked for.
Restart ==
  /\ starts < MaxStarts /\ starts' = starts + 1
  /\ failed' = FALSE /\ feed' = <<>> /\ chat' = chatLog
  /\ heard' = IF chatLogged THEN heard ELSE {}
  /\ whole' = IF chatLogged THEN whole ELSE 0
  /\ UNCHANGED <<roster, chatLog, chatLogged, repeats>>

Next ==
  \/ ServerAdds \/ ServerDeletes \/ ServerTells \/ ServerRepeats \/ UpdateLost
  \/ Receive \/ Restart

Fairness == WF_roster_vars(Receive)
Spec == Init /\ [][Next]_roster_vars
FairSpec == Spec /\ Fairness

-----------------------------------------------------------------------------
(* Properties *)

\* The list is the server's list of its version, unless an update between the
\* last whole list and that version never came.  Repeated and overtaken
\* updates do no harm.
ListAgrees ==
  chat.listVersion > 0 /\ (whole + 1)..chat.listVersion \subseteq heard =>
    /\ Range(chat.list) = roster[chat.listVersion]
    /\ IsInjective(chat.list)

SomebodyLeft == \E v \in Versions \ {1} : ~(roster[v - 1] \subseteq roster[v])

\* The process ends by an assertion only in a chat that somebody has left.
FailureNeedsRemoval ==
  failed => SomebodyLeft

\* The list never gets older, except that a client without event log starts
\* from nothing.
ListNeverOlder ==
  [][chat'.listVersion >= chat.listVersion \/ starts' # starts]_roster_vars

\* binlog.c:747 asserts that an added participant is new; bl_do_chat_del_user
\* is called for the update that a participant has left.
NoAssertFails == ~failed

-----------------------------------------------------------------------------
(* The inductive invariant *)

Adds(v, u) == u \in Members \ roster[v - 1] /\ roster[v] = roster[v - 1] \cup {u}
Deletes(v, u) == u \in roster[v - 1] /\ roster[v] = roster[v - 1] \ {u}

\* One participant comes or goes with each version.
RosterFits ==
  /\ \A v \in Versions : IsFiniteSet(roster[v])
  /\ \A v \in Versions \ {1} : \E u \in Members : Adds(v, u) \/ Deletes(v, u)
  /\ SomebodyLeft \/ \A v, w \in Versions : v <= w => roster[v] \subseteq roster[w]

\* Each message tells what is so.
Message ==
  {m \in [is : Kind, v : Versions, u : Members] :
     /\ m.is = "add" => m.v > 1 /\ Adds(m.v, m.u)
     /\ m.is = "delete" => m.v > 1 /\ Deletes(m.v, m.u)}

\* What was heard of is not newer than the list, and nobody is in the list that
\* never was a participant.
ListFits ==
  /\ heard \subseteq 1..chat.listVersion /\ whole <= chat.listVersion
  /\ \/ SomebodyLeft \/ chat.listVersion = 0
     \/ Range(chat.list) \subseteq roster[chat.listVersion]

\* A replay of the event log gives the chat.
LogFits == chatLog = IF chatLogged THEN chat ELSE NoChat

\* Inductive: each action keeps it.
IInv ==
  /\ TypeOK /\ RosterFits /\ feed \in Seq(Message)
  /\ ListFits /\ LogFits /\ ListAgrees /\ FailureNeedsRemoval
=============================================================================
