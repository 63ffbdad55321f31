-------------------------------- MODULE App --------------------------------
(***************************************************************************)
(* What surrounds the queries: the exchange of keys, the byte streams of a *)
(* connection, the sign in, files sent and loaded, the messages as the     *)
(* interface knows them, its calls, what is typed there, and the trees it  *)
(* all is kept in.  They share no state, so one specification has the      *)
(* nine; each of its behaviours is of the part that is named by part.  In  *)
(* those of "below" nothing here happens (see MCApp).                      *)
(***************************************************************************)
EXTENDS Integers, Sequences

CONSTANTS
  DCs, Moduli, MaxNonce, MaxLosses, MaxSleeps, MaxStarts, MaxCalls, MaxCrashes,
  Slots, Sizes, FirstPart, MaxPart, MaxParts, MaxFiles, MaxRefusals,
  Files, Encrypted, Size, Part, Align, Loads, MaxLoads,
  Messages, Mine, Dates, Media, NoMedia,
  Groups, Titles, Members, MaxTyped, MaxNews,
  Chunk, Short, Lengths, MaxSent, MaxFails,
  Keys, Priorities

VARIABLES
  part,   \* which of the parts runs, which never changes
  cState, nonce, success, turn, conn, wire, authKey, flags, clock, kept, logs, dh,
  agreed, alive, why, losses, sleeps, started,
  pc, known, keys, auth, working, fresh, saved, keepsLog, register, mode, asking,
  reply, queue, page, calling, place, registered, home, missed, unsaved, refused,
  arrived, calls, crashes,
  file, waits, last, uploading, uploaded, progress, process, stored, torn,
  overlapped, files, refusals,
  load, disk, downloading, downloaded, running, resumed, spoiled, padded, loads,
  partRefusals, ends,
  date, media, stage, messages, messageDates, usersMessages, lists, messageMedias,
  fileOf, clashed, early,
  sendQueue, sendTimer, typed, handed, dialogTimer, dialogAgain, fires, news, cameNews,
  listing, dialogs, group, waiting, contacts, prints, taken, added, late, unmet,
  retitled,
  given, outChain, outBytes, onWire, served, unread, inChain, inBytes, delivered,
  framed, fails,
  tree, held, sound

Key   == INSTANCE Handshake
Sign  == INSTANCE SignIn
Up    == INSTANCE Uploads
Down  == INSTANCE Downloads
Index == INSTANCE MessageIndex
Front == INSTANCE Frontend
Out   == INSTANCE Outbox
Buf   == INSTANCE Buffers
Tree  == INSTANCE TreapProofs  \* with the lemmas that AppProofs cites

ASSUME AppAssumption ==
  /\ Key!HandshakeAssumption /\ Sign!SignInAssumption /\ Up!UploadsAssumption
  /\ Down!DownloadsAssumption /\ Index!MessagesAssumption
  /\ Front!FrontendAssumption /\ Out!OutboxAssumption /\ Buf!BuffersAssumption
  /\ Tree!TreapAssumption

key_vars   == <<cState, nonce, success, turn, conn, wire, authKey, flags, clock, kept,
                logs, dh, agreed, alive, why, losses, sleeps, started>>
sign_vars  == <<pc, known, keys, auth, working, fresh, saved, keepsLog, register, mode,
                asking, reply, queue, page, calling, place, registered, home, missed,
                unsaved, refused, arrived, calls, crashes>>
up_vars    == <<file, waits, last, uploading, uploaded, progress, process, stored, torn,
                overlapped, files, refusals>>
down_vars  == <<load, disk, downloading, downloaded, running, resumed, spoiled, padded,
                loads, partRefusals, ends>>
index_vars == <<date, media, stage, messages, messageDates, usersMessages, lists,
                messageMedias, fileOf, clashed, early>>
list_vars  == <<dialogTimer, dialogAgain, fires, news, cameNews, listing, dialogs,
                group, waiting, contacts, prints, taken, added, late, unmet, retitled>>
out_vars   == <<sendQueue, sendTimer, typed, handed>>
front_vars == <<list_vars, out_vars>>
buf_vars   == <<given, outChain, outBytes, onWire, served, unread, inChain, inBytes,
                delivered, framed, fails>>
tree_vars  == <<tree, held, sound>>
app_vars   == <<part, key_vars, sign_vars, up_vars, down_vars, index_vars, front_vars,
                buf_vars, tree_vars>>

\* What a part that does not run may choose is fixed.
AppInit ==
  /\ part \in {"keys", "signin", "uploads", "downloads", "messages", "calls", "typing",
               "streams", "trees", "below"}
  /\ Key!Init /\ Sign!Init /\ Up!Init /\ Down!Init /\ Index!Init /\ Front!Init
  /\ Out!Init /\ Buf!Init /\ Tree!Init
  /\ part = "keys" \/ ~logs
  /\ part = "signin" \/ (~keepsLog /\ ~register /\ ~registered /\ place = 1)
  /\ part = "messages" \/ \A m \in Messages : date[m] = 1 /\ media[m] = NoMedia

Runs(p) == part = p /\ UNCHANGED part
OnlyKeys ==
  /\ Runs("keys")
  /\ UNCHANGED <<sign_vars, up_vars, down_vars, index_vars, front_vars, buf_vars,
                 tree_vars>>
OnlySignIn ==
  /\ Runs("signin")
  /\ UNCHANGED <<key_vars, up_vars, down_vars, index_vars, front_vars, buf_vars,
                 tree_vars>>
OnlyUploads ==
  /\ Runs("uploads")
  /\ UNCHANGED <<key_vars, sign_vars, down_vars, index_vars, front_vars, buf_vars,
                 tree_vars>>
OnlyDownloads ==
  /\ Runs("downloads")
  /\ UNCHANGED <<key_vars, sign_vars, up_vars, index_vars, front_vars, buf_vars,
                 tree_vars>>
OnlyMessages ==
  /\ Runs("messages")
  /\ UNCHANGED <<key_vars, sign_vars, up_vars, down_vars, front_vars, buf_vars,
                 tree_vars>>
OnlyCalls ==
  /\ Runs("calls")
  /\ UNCHANGED <<key_vars, sign_vars, up_vars, down_vars, index_vars, out_vars, buf_vars,
                 tree_vars>>
OnlyTyping ==
  /\ Runs("typing")
  /\ UNCHANGED <<key_vars, sign_vars, up_vars, down_vars, index_vars, list_vars, buf_vars,
                 tree_vars>>
OnlyStreams ==
  /\ Runs("streams")
  /\ UNCHANGED <<key_vars, sign_vars, up_vars, down_vars, index_vars, front_vars,
                 tree_vars>>
OnlyTrees ==
  /\ Runs("trees")
  /\ UNCHANGED <<key_vars, sign_vars, up_vars, down_vars, index_vars, front_vars,
                 buf_vars>>

AppNext ==
  \/ OnlyKeys /\ Key!Next
  \/ OnlySignIn /\ Sign!Next
  \/ OnlyUploads /\ Up!Next
  \/ OnlyDownloads /\ Down!Next
  \/ OnlyMessages /\ Index!Next
  \/ OnlyCalls /\ Front!Next
  \/ OnlyTyping /\ Out!Next
  \/ OnlyStreams /\ Buf!Next
  \/ OnlyTrees /\ Tree!Next

AppSpec == AppInit /\ [][AppNext]_app_vars

\* Handshake: a key is one the server has, and the process stops in the exchange
\* only for the reasons listed.
KeysRight == part = "keys" => Key!TypeOK /\ Key!KeysAgree /\ Key!StopsOnlyFor

\* SignIn: the client is at home where its account is, registers once, and stops
\* only when it is refused.
HomeRight == part = "signin" =>
  Sign!TypeOK /\ Sign!HomeKept /\ Sign!SignedInOnce /\ Sign!StopsOnlyWhenRefused

\* Uploads: every part is there before the message, no file has more of them than
\* the server takes, the totals shown are those of the uploads under way, and the
\* process stops only for files that are known.
UploadsRight == part = "uploads" =>
  /\ Up!TypeOK /\ Up!PartsBeforeMessage /\ Up!PartsFew /\ Up!TotalsAgree
  /\ Up!ProgressCleared /\ Up!StopsOnlyForKnownFiles

\* Downloads: a file reported as loaded is the server's, and the totals are
\* those of the downloads under way.
DownloadsRight == part = "downloads" =>
  Down!TypeOK /\ Down!LoadedRight /\ Down!DownloadTotals

\* MessageIndex: a message is found under its id, and nothing leads to one that
\* has gone.
IndexRight == part = "messages" =>
  Index!TypeOK /\ Index!EachUnderItsId /\ Index!NoDangling

\* Frontend: the users chosen for a new group are added to the group that is called
\* by its title.  Outbox: what was typed is handed over in order, each once.
FrontRight ==
  /\ part = "calls" => Front!TypeOK /\ Front!GroupsAsChosen
  /\ part = "typing" => Out!TypeOK /\ Out!HandedInOrder

\* Buffers: the bytes the socket takes are the packets that were given, and the
\* packets that are executed are those the server sent, each as soon as it is there.
StreamsRight == part = "streams" => Buf!TypeOK /\ Buf!StreamsKept

\* Treap: a tree holds what was put into it and not taken out, in order, and no
\* assertion of its operations fails.
TreesRight == part = "trees" => Tree!TypeOK /\ Tree!HoldsKeys
=============================================================================
