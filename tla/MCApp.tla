------------------------------- MODULE MCApp -------------------------------
(* The parts of App for TLC, and below them the contents of messages, which  *)
(* need recursive operators.  One run checks the ten; each of its            *)
(* behaviours is of one of them.                                             *)
EXTENDS App

CONSTANTS
  MaxBodies, MaxReplays

\* The sizes of the files to load: one that is padded, and one that is not.
FileSize == [f \in Files |-> IF f \in Encrypted THEN 5 ELSE 4]

VARIABLES
  contents, eventLog, misread, bodies, opened, replays

Body == INSTANCE Contents

ASSUME ConstantsAssumption == Body!ContentsAssumption

body_vars == <<contents, eventLog, misread, bodies, opened, replays>>
all_vars  == <<app_vars, body_vars>>

Init == AppInit /\ Body!Init

OnlyApp   == UNCHANGED body_vars
RunsBelow == part = "below" /\ UNCHANGED app_vars

Next ==
  \/ AppNext /\ OnlyApp
  \/ RunsBelow /\ Body!Next

Fairness ==
  /\ WF_all_vars(OnlyKeys /\ Key!Progress /\ OnlyApp)
  /\ WF_all_vars(OnlySignIn /\ Sign!Progress /\ OnlyApp)
  /\ WF_all_vars(OnlySignIn /\ Sign!UserAnswers /\ OnlyApp)
  /\ WF_all_vars(OnlyUploads /\ Up!Answered /\ OnlyApp)
  /\ WF_all_vars(OnlyDownloads /\ Down!PartAnswered /\ OnlyApp)
  /\ WF_all_vars(OnlyTyping /\ Out!SendTimer /\ OnlyApp)
  /\ WF_all_vars(OnlyCalls /\ Front!DialogTimer /\ OnlyApp)

Spec == Init /\ [][Next]_all_vars /\ Fairness

\* Handshake and SignIn: an exchange of keys ends, and the client comes to its
\* main loop.
StartEnds ==
  /\ part = "keys" => Key!ExchangeEnds
  /\ part = "signin" => Sign!SignInEnds

\* Uploads and Downloads: every upload and every download ends.
FilesEnd ==
  /\ part = "uploads" => Up!UploadsEnd
  /\ part = "downloads" => Down!DownloadsEnd

\* Frontend and Outbox: after a message the list of dialogs is asked for, and what
\* was typed is handed over.
FrontLive ==
  /\ part = "calls" => Front!ListAskedFor
  /\ part = "typing" => Out!AllHandedOver

\* Contents: a message has the content it was sent with, also after the event log
\* is replayed.  Handshake: the generator that is accepted is a square.
StructuresRight ==
  /\ part = "below" => Body!TypeOK /\ Body!ContentsKept
  /\ part = "keys" => Key!GeneratorIsSquare
=============================================================================
