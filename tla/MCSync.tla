------------------------------- MODULE MCSync -------------------------------
(* The client's copies of what the server holds: updates and counters, the  *)
(* participants of a chat, the names of peers.  They share no state, so one *)
(* run checks the three; each of its behaviours is of one of them.          *)
EXTENDS Integers, Sequences

CONSTANTS MaxUpdates, MaxLosses, MaxKills, MaxAhead,
          Members, MaxVersion, MaxFeed, MaxRepeats, MaxStarts,
          Users, Chats, Names, None, Blank, MaxAnswers, MaxQueue, MaxRestarts

VARIABLES
  part,   \* which of the three runs, which never changes
  log, sent, again, wire, asked, mem, disk, written, phase, useLog, handled,
  skipped, due, torn, losses, kills,
  roster, feed, chat, chatLog, chatLogged, failed, heard, whole, repeats, starts,
  table, replay, logging, contacts, dialogs, calls, done, running, answers,
  restarts

\* Upd with the lemmas of its proofs, which SyncProofs cites.
Upd  == INSTANCE UpdatesProofs
Chat == INSTANCE Participants
Peer == INSTANCE PeerNames

ASSUME ConstantsAssumption ==
  Upd!UpdatesAssumption /\ Chat!ParticipantsAssumption /\ Peer!PeersAssumption

update_vars == <<log, sent, again, wire, asked, mem, disk, written, phase, useLog,
                 handled, skipped, due, torn, losses, kills>>
roster_vars == <<roster, feed, chat, chatLog, chatLogged, failed, heard, whole,
                 repeats, starts>>
names_vars  == <<table, replay, logging, contacts, dialogs, calls, done, running,
                 answers, restarts>>
sync_vars   == <<part, update_vars, roster_vars, names_vars>>

\* What a part that does not run may choose is fixed.
Init ==
  /\ part \in {"updates", "chat", "peers"}
  /\ Upd!Init /\ Chat!Init /\ Peer!Init
  /\ part = "updates" \/ (~useLog /\ disk = Upd!Zero)
  /\ part = "chat" \/ (~chatLogged /\ roster = <<{CHOOSE u \in Members : TRUE}>>)
  /\ part = "peers" \/ ~logging

Runs(p) == part = p /\ UNCHANGED part
OnlyUpdates == Runs("updates") /\ UNCHANGED <<roster_vars, names_vars>>
OnlyChat    == Runs("chat")    /\ UNCHANGED <<update_vars, names_vars>>
OnlyPeers   == Runs("peers")   /\ UNCHANGED <<update_vars, roster_vars>>

Next ==
  \/ OnlyUpdates /\ Upd!Next
  \/ OnlyChat /\ Chat!Next
  \/ OnlyPeers /\ Peer!Next

Fairness ==
  /\ WF_sync_vars(OnlyUpdates /\ Upd!Receive)
  /\ WF_sync_vars(OnlyUpdates /\ Upd!ServerAnswers)

Spec == Init /\ [][Next]_sync_vars /\ Fairness

\* Updates: what is behind the counters was handled ...
UpdatesRight == Upd!TypeOK /\ Upd!NothingMissed
\* ... the counters do not go back ...
NeverBack == Upd!NeverBack
\* ... and a difference that is asked for is worked off.
CatchesUp == Upd!CatchesUp

\* Participants: the list is the server's, and an assertion fails only where
\* somebody left ...
ParticipantsRight == Chat!TypeOK /\ Chat!ListAgrees /\ Chat!FailureNeedsRemoval
\* ... and an older list never replaces a newer one.
ListNeverOlder == Chat!ListNeverOlder

\* PeerNames: print names tell peers apart, and a replay of the event log gives
\* them again ...
NamesRight == Peer!TypeOK /\ Peer!NamesUnique /\ Peer!ReplayRebuilds
\* ... and a command reaches another peer only under a wrong name.
AstrayOnlyUnderWrongName == Peer!AstrayOnlyUnderWrongName
=============================================================================
