------------------------------ MODULE Contents ------------------------------
(* What is in a message, word by word.  A message that comes is measured with  *)
(* the fetch_skip functions (structures.c), what they passed over is copied    *)
(* into an event (binlog.c), and the event is read with the fetch functions,   *)
(* at once and at every restart.  Two functions for each structure have to     *)
(* agree on each of its constructors: one word too many, and the next message, *)
(* or every later event of the log, is read as something else.                 *)
(*                                                                             *)
(* A token is a word, a string (its bytes are not followed; what is encrypted  *)
(* in one is), the code of a constructor, or a vector's code with its count.   *)
(* A layout is a sequence of fields; a structure is its layouts, by code.      *)
EXTENDS Naturals, Sequences, TLC

CONSTANTS
  MaxBodies,    \* bound: messages that come
  MaxReplays    \* bound: restarts

ContentsAssumption == MaxBodies \in Nat /\ MaxReplays \in Nat

Words(n) == <<"words", n>>
Str == <<"str", 1>>
A(structure) == <<structure, 1>>
Vector(field) == <<"vector", field>>

Word(w) == <<"word", w>>
Code(c) == <<c, 0>>
Text(inner) == <<"str", inner>>
Count(k) == <<"vector", k>>
Zeros(n) == [i \in 1..n |-> Word(0)]

-----------------------------------------------------------------------------
(* What the fetch_skip functions pass over                                   *)

SkipFileLocation == [unavailable |-> <<Words(5)>>, location |-> <<Words(6)>>]

SkipPhotoSize ==
  [size |-> <<Str, A("location"), Words(2), Words(1)>>,
   cached |-> <<Str, A("location"), Words(2), Str>>,
   empty |-> <<Str>>]

SkipGeo == [point |-> <<Words(4)>>, empty |-> <<>>]

SkipPhoto ==
  [photo |-> <<Words(2), Words(4), Str, A("geo"), Vector(A("photo_size"))>>,
   empty |-> <<Words(2)>>]

\* Slip: a word fewer than there is.
SkipVideo_AWordFewer ==
  [video |-> <<Words(2), Words(4), Str, Words(2), A("photo_size"), Words(2)>>,
   empty |-> <<Words(2)>>]

SkipVideo ==
  [video |-> <<Words(2), Words(4), Str, Words(2), A("photo_size"), Words(3)>>,
   empty |-> <<Words(2)>>]

SkipAudio == [audio |-> <<Words(2), Words(7)>>, empty |-> <<Words(2)>>]

SkipDocument ==
  [document |-> <<Words(2), Words(4), Str, Str, Words(1), A("photo_size"), Words(1)>>,
   empty |-> <<Words(2)>>]

SkipMessageAction ==
  [empty |-> <<>>, geo_chat_create |-> <<Str, Str>>, geo_chat_checkin |-> <<>>,
   chat_create |-> <<Str, Vector(Words(1))>>, chat_edit_title |-> <<Str>>,
   chat_edit_photo |-> <<A("photo")>>, chat_delete_photo |-> <<>>,
   chat_add_user |-> <<Words(1)>>, chat_delete_user |-> <<Words(1)>>]

SkipMessageMedia ==
  [empty |-> <<>>, photo |-> <<A("photo")>>, video |-> <<A("video")>>,
   audio |-> <<A("audio")>>, document |-> <<A("document")>>, geo |-> <<A("geo")>>,
   contact |-> <<Str, Str, Str, Words(1)>>, unsupported |-> <<Str>>]

SkipMessageMediaEncrypted ==
  [empty |-> <<>>,
   photo |-> <<Str, Words(5), Str, Str>>,
   video |-> <<Str, Words(6), Str, Str>>,
   audio |-> <<Words(2), Str, Str>>,
   document |-> <<Str, Words(2), Str, Str, Words(1), Str, Str>>,
   geo_point |-> <<Words(4)>>,
   contact |-> <<Str, Str, Str, Words(1)>>]

SkipMessageActionEncrypted == [set_message_ttl |-> <<Words(1)>>]

SkipEncryptedMessageFile == [file |-> <<Words(7)>>, empty |-> <<>>]

\* fetch_peer_id
PeerId == [user |-> <<Words(1)>>, chat |-> <<Words(1)>>]

Skips ==
  [location |-> SkipFileLocation, photo_size |-> SkipPhotoSize, geo |-> SkipGeo,
   photo |-> SkipPhoto, video |-> SkipVideo, audio |-> SkipAudio,
   document |-> SkipDocument, action |-> SkipMessageAction,
   media |-> SkipMessageMedia, encr_media |-> SkipMessageMediaEncrypted,
   encr_action |-> SkipMessageActionEncrypted,
   encr_file |-> SkipEncryptedMessageFile, peer |-> PeerId]

-----------------------------------------------------------------------------
(* What the fetch functions read                                             *)

Int == Words(1)
Long == Words(2)
Double == Words(2)

\* dc, volume, local_id, secret
FetchFileLocation ==
  [unavailable |-> <<Long, Int, Long>>, location |-> <<Int, Long, Int, Long>>]

\* type, loc, w, h, size or data
FetchPhotoSize ==
  [size |-> <<Str, A("location"), Int, Int, Int>>,
   cached |-> <<Str, A("location"), Int, Int, Str>>,
   empty |-> <<Str>>]

FetchGeo == [point |-> <<Double, Double>>, empty |-> <<>>]

\* id, access_hash, user_id, date, caption, geo, sizes
FetchPhoto ==
  [photo |-> <<Long, Long, Int, Int, Str, A("geo"), Vector(A("photo_size"))>>,
   empty |-> <<Long>>]

\* id, access_hash, user_id, date, caption, duration, size, thumb, dc_id, w, h
FetchVideo ==
  [video |-> <<Long, Long, Int, Int, Str, Int, Int, A("photo_size"), Int, Int, Int>>,
   empty |-> <<Long>>]

\* id, access_hash, user_id, date, duration, size, dc_id
FetchAudio ==
  [audio |-> <<Long, Long, Int, Int, Int, Int, Int>>, empty |-> <<Long>>]

\* id, access_hash, user_id, date, caption, mime_type, size, thumb, dc_id
FetchDocument ==
  [document |-> <<Long, Long, Int, Int, Str, Str, Int, A("photo_size"), Int>>,
   empty |-> <<Long>>]

FetchMessageAction ==
  [empty |-> <<>>, geo_chat_create |-> <<Str, Str>>, geo_chat_checkin |-> <<>>,
   chat_create |-> <<Str, Vector(Int)>>, chat_edit_title |-> <<Str>>,
   chat_edit_photo |-> <<A("photo")>>, chat_delete_photo |-> <<>>,
   chat_add_user |-> <<Int>>, chat_delete_user |-> <<Int>>]

\* contact: phone, first_name, last_name, user_id
FetchMessageMedia ==
  [empty |-> <<>>, photo |-> <<A("photo")>>, video |-> <<A("video")>>,
   audio |-> <<A("audio")>>, document |-> <<A("document")>>, geo |-> <<A("geo")>>,
   contact |-> <<Str, Str, Str, Int>>, unsupported |-> <<Str>>]

\* the thumb and its size, the duration, the size of the picture, that of the
\* file, or the names of the document; then key and iv
FetchMessageMediaEncrypted ==
  [empty |-> <<>>,
   photo |-> <<Str, Int, Int, Int, Int, Int, Str, Str>>,
   video |-> <<Str, Int, Int, Int, Int, Int, Int, Str, Str>>,
   audio |-> <<Int, Int, Str, Str>>,
   document |-> <<Str, Int, Int, Str, Str, Int, Str, Str>>,
   geo_point |-> <<Double, Double>>,
   contact |-> <<Str, Str, Str, Int>>]

FetchMessageActionEncrypted == [set_message_ttl |-> <<Int>>]

\* id, access_hash, size, dc_id, key_fingerprint
FetchEncryptedMessageFile == [file |-> <<Long, Long, Int, Int, Int>>, empty |-> <<>>]

\* Its assertions: a picture or a film has a file, and what has one is a picture,
\* a film, a sound or a document.
FileFits(kind, file) ==
  IF file = "empty" THEN kind \notin {"photo", "video"}
  ELSE kind \in {"document", "photo", "video", "audio"}

Fetches ==
  [location |-> FetchFileLocation, photo_size |-> FetchPhotoSize, geo |-> FetchGeo,
   photo |-> FetchPhoto, video |-> FetchVideo, audio |-> FetchAudio,
   document |-> FetchDocument, action |-> FetchMessageAction,
   media |-> FetchMessageMedia, encr_media |-> FetchMessageMediaEncrypted,
   encr_action |-> FetchMessageActionEncrypted,
   encr_file |-> FetchEncryptedMessageFile, peer |-> PeerId]

-----------------------------------------------------------------------------
(* Reading: the place after the fields, 0 if the input does not have them     *)

Lost == 0

WordsAt(in, p, n) == p + n <= Len(in) + 1 /\ \A i \in p .. p+n-1 : in[i][1] = "word"

RECURSIVE After(_, _, _, _)
After(structures, in, p, fields) ==
  IF p = Lost \/ fields = <<>> THEN p
  ELSE
    LET field == Head(fields)
        kind == field[1]
        inside ==
          IF kind = "words" THEN IF WordsAt(in, p, field[2]) THEN p + field[2] ELSE Lost
          ELSE IF p > Len(in) THEN Lost
          ELSE IF kind = "str" THEN IF in[p][1] = "str" THEN p + 1 ELSE Lost
          ELSE IF kind = "vector"
          THEN IF in[p][1] = "vector"
               THEN After(structures, in, p + 1, [i \in 1 .. in[p][2] |-> field[2]])
               ELSE Lost
          ELSE IF in[p][1] \in DOMAIN structures[kind]
          THEN After(structures, in, p + 1, structures[kind][in[p][1]])
          ELSE Lost
    IN  After(structures, in, inside, Tail(fields))

-----------------------------------------------------------------------------
(* The events                                                                *)

\* What bl_do_create_message_* and bl_do_send_message_text write before the
\* content: id, from_id, to_type, to_id, date, and fwd, fwd_date.  No code writes
\* the events text_fwd and service_fwd.
Written ==
  [text |-> 5, send_text |-> 6, text_fwd |-> 7, media |-> 5, media_encr |-> 6,
   media_fwd |-> 7, service |-> 5, service_encr |-> 6, service_fwd |-> 7]

Event(op, id, content) == <<Code(op), Word(id)>> \o Zeros(Written[op] - 1) \o content

\* What replay_log_event reads: from_id, to_type, to_id, date behind the id ...
Header(id) == <<id, Int, Int, Int, Int>>
Forward == <<Int, Int>>

\* ... and the content
ReplayText ==
  [text |-> [header |-> Header(Int), content |-> <<Str>>],
   send_text |-> [header |-> Header(Long), content |-> <<Str>>],
   text_fwd |-> [header |-> Header(Int) \o Forward, content |-> <<Str>>]]

ReplayMedia ==
  [media |-> [header |-> Header(Int), content |-> <<Str, A("media")>>],
   media_encr |-> [header |-> Header(Long),
                   content |-> <<Str, A("encr_media"), A("encr_file")>>],
   media_fwd |-> [header |-> Header(Int) \o Forward, content |-> <<Str, A("media")>>]]

ReplayService ==
  [service |-> [header |-> Header(Int), content |-> <<A("action")>>],
   service_encr |-> [header |-> Header(Long), content |-> <<A("encr_action")>>],
   service_fwd |-> [header |-> Header(Int) \o Forward, content |-> <<A("action")>>]]

Replays == ReplayText @@ ReplayMedia @@ ReplayService

\* fetch_encrypted_message_file for the media of a secret message
FileAsserted(op, content) ==
  op = "media_encr" =>
    LET file == After(Fetches, content, 1, <<Str, A("encr_media")>>)
    IN  FileFits(content[2][1], content[file][1])

\* replay_log_event at one place: the message with its content, and where the
\* event ends; a message that has a content already is an assertion.
Replayed(s, in, p) ==
  IF in[p][1] \notin DOMAIN Replays THEN [s |-> s, end |-> Lost]
  ELSE
    LET op == in[p][1]
        from == After(Fetches, in, p + 1, Replays[op].header)
        end == After(Fetches, in, from, Replays[op].content)
        content == SubSeq(in, from, end - 1)
        id == in[p + 1][2]
    IN  IF end = Lost THEN [s |-> s, end |-> Lost]
        ELSE IF id \notin DOMAIN s \/ ~FileAsserted(op, content)
        THEN [s |-> s, end |-> Lost]
        ELSE IF s[id] # <<>> THEN [s |-> s, end |-> Lost]
        ELSE [s |-> [s EXCEPT ![id] = content], end |-> end]

\* replay_log: until nothing is left
RECURSIVE ReplayedLog(_, _, _)
ReplayedLog(s, in, p) ==
  IF p = Len(in) + 1 THEN [s |-> s, end |-> p]
  ELSE LET next == Replayed(s, in, p)
       IN  IF next.end = Lost THEN next ELSE ReplayedLog(next.s, in, next.end)

-----------------------------------------------------------------------------
(* Fetching a message                                                        *)

\* fetch_message, fetch_message_short and its kin for chats: what comes before
\* the content, the content that becomes the event, and what comes after it
Plainly ==
  [short |-> [before |-> <<Words(2)>>, content |-> <<Str>>,
              after |-> <<Words(3)>>, op |-> "text"],
   short_chat |-> [before |-> <<Words(3)>>, content |-> <<Str>>,
                   after |-> <<Words(3)>>, op |-> "text"],
   message_empty |-> [before |-> <<Words(1)>>, content |-> <<>>,
                      after |-> <<>>, op |-> "none"],
   message |-> [before |-> <<Words(2), A("peer"), Words(3)>>,
                content |-> <<Str, A("media")>>, after |-> <<>>, op |-> "media"],
   forwarded |-> [before |-> <<Words(4), A("peer"), Words(3)>>,
                  content |-> <<Str, A("media")>>, after |-> <<>>, op |-> "media_fwd"],
   service |-> [before |-> <<Words(2), A("peer"), Words(3)>>,
                content |-> <<A("action")>>, after |-> <<>>, op |-> "service"]]

NoMessage == [end |-> Lost, op |-> "none", content |-> <<>>]

FetchMessage(in) ==
  LET form == Plainly[in[1][1]]
      from == After(Skips, in, 2, form.before)
      to   == After(Skips, in, from, form.content)
  IN  IF to = Lost THEN NoMessage
      ELSE [end |-> After(Skips, in, to, form.after), op |-> form.op,
            content |-> SubSeq(in, from, to - 1)]

\* decrypt_encrypted_message and what fetch_encrypted_message asks before it:
\* the chat is known, its key has the fingerprint, and the hash agrees.
Readable(chat) == chat = "known"

\* fetch_encrypted_message: the string is opened only for a message that has no
\* content yet; the file outside of it is passed over in any case.
FetchEncryptedMessage(in, isNew, chat) ==
  LET ok    == Readable(chat) /\ isNew
      blob  == After(Skips, in, 2, <<Words(4)>>)
      inner == in[blob][2]
      layer == After(Skips, inner, 1, <<Words(1)>>)
      kind  == IF inner[layer][1] = "layer" THEN layer + 2 ELSE layer
      from  == After(Skips, inner, kind + 1, <<Words(2), Str>>)
      to    == After(Skips, inner, from, IF inner[kind][1] = "decrypted_message"
                                         THEN <<Str, A("encr_media")>>
                                         ELSE <<A("encr_action")>>)
      opened == ok => to # Lost
      end   == IF ~opened THEN Lost
               ELSE IF in[1][1] = "encrypted_message"
               THEN After(Skips, in, blob + 1, <<A("encr_file")>>)
               ELSE blob + 1
      op    == IF ~ok THEN "none"
               ELSE IF in[1][1] = "encrypted_message"
               THEN IF inner[kind][1] = "decrypted_message" THEN "media_encr" ELSE "none"
               ELSE IF inner[kind][1] = "decrypted_message_service" THEN "service_encr"
               ELSE "none"
  IN  IF end = Lost THEN NoMessage
      ELSE [end |-> end, op |-> op,
            content |-> IF op = "none" THEN <<>>
                        ELSE SubSeq(inner, from, to - 1) \o SubSeq(in, blob + 1, end - 1)]

Fetched(in, isNew, chat) ==
  IF in[1][1] \in DOMAIN Plainly THEN FetchMessage(in)
  ELSE FetchEncryptedMessage(in, isNew, chat)

-----------------------------------------------------------------------------
(* External: what the server and the peer send                               *)

\* How the structures inside are chosen
Styles == {"full", "cached", "bare", "none"}
Chosen(structure, style) ==
  CASE structure = "location" -> IF style = "full" THEN "location" ELSE "unavailable"
    [] structure = "photo_size" -> IF style = "full" THEN "size"
                                   ELSE IF style = "cached" THEN "cached" ELSE "empty"
    [] structure = "geo" -> IF style \in {"full", "bare"} THEN "point" ELSE "empty"
    [] structure \in {"photo", "video", "audio", "document"} ->
         IF style = "none" THEN "empty" ELSE structure
HowMany(style) == IF style = "full" THEN 2 ELSE IF style = "none" THEN 0 ELSE 1

RECURSIVE Made(_, _)
Made(fields, style) ==
  IF fields = <<>> THEN <<>>
  ELSE
    LET field == Head(fields)
        kind == field[1]
        first ==
          IF kind = "words" THEN Zeros(field[2])
          ELSE IF kind = "str" THEN <<Text(<<>>)>>
          ELSE IF kind = "vector"
          THEN <<Count(HowMany(style))>>
               \o Made([i \in 1 .. HowMany(style) |-> field[2]], style)
          ELSE LET c == Chosen(kind, style)
               IN  <<Code(c)>> \o Made(Fetches[kind][c], style)
    IN  first \o Made(Tail(fields), style)

All(structure) ==
  {<<Code(c)>> \o Made(Fetches[structure][c], style) :
     c \in DOMAIN Fetches[structure], style \in Styles}

Textual(contents_) == {<<Text(<<>>)>> \o c : c \in contents_}
From == <<Code("user")>> \o Zeros(1)

\* A message: what comes, and its content, <<>> if it has none
PlainMessages ==
  LET Sent(code, before, content, after) ==
        [body |-> <<Code(code)>> \o before \o content \o after, content |-> content]
  IN  {Sent("short", Zeros(2), <<Text(<<>>)>>, Zeros(3)),
       Sent("short_chat", Zeros(3), <<Text(<<>>)>>, Zeros(3)),
       Sent("message_empty", Zeros(1), <<>>, <<>>)}
      \cup {Sent("message", Zeros(2) \o From \o Zeros(3), c, <<>>) :
              c \in Textual(All("media"))}
      \cup {Sent("forwarded", Zeros(4) \o From \o Zeros(3), c, <<>>) :
              c \in Textual(All("media"))}
      \cup {Sent("service", Zeros(2) \o From \o Zeros(3), c, <<>>) : c \in All("action")}

Layers == {<<>>, <<Code("layer"), Word(0)>>}
SecretMessages ==
  LET Blob(layer, code, content) ==
        Text(Zeros(1) \o layer \o <<Code(code)>> \o Zeros(2) \o <<Text(<<>>)>> \o content)
      Sent(outer, layer, code, content, file) ==
        [body |-> <<Code(outer)>> \o Zeros(4) \o <<Blob(layer, code, content)>> \o file,
         content |-> content \o file]
      File(c) == <<Code(c)>> \o Made(FetchEncryptedMessageFile[c], "full")
  IN  {Sent("encrypted_message", layer, "decrypted_message", cf[1], cf[2]) :
         layer \in Layers,
         cf \in {x \in Textual(All("encr_media")) \X {File("file"), File("empty")} :
                   FileFits(x[1][2][1], x[2][1][1])}}
      \cup {Sent("encrypted_service", layer, "decrypted_message_service", c, <<>>) :
              layer \in Layers, c \in All("encr_action")}

Message == PlainMessages \cup SecretMessages
Chats == {"known", "unknown", "wrong key", "wrong hash"}

-----------------------------------------------------------------------------

VARIABLES
  contents,    \* the content of each message, <<>> while it has none
  eventLog,    \* the event log
  misread,     \* an assertion failed, or something was read as what it is not
  bodies,      \* the messages there are
  opened,      \* history: those that came in a form that shows their content
  replays

contents_vars == <<contents, eventLog, misread, bodies, opened, replays>>

Nothing == [m \in 0..MaxBodies |-> <<>>]

Init ==
  /\ contents = Nothing /\ eventLog = <<>> /\ misread = FALSE
  /\ bodies = <<>> /\ opened = {} /\ replays = 0

\* add_log_event: the event is read at once, to its end, and then written.
AddLogEvent(event) ==
  LET read == Replayed(contents, event, 1)
  IN  /\ misread' = (read.end # Len(event) + 1)
      /\ contents' = read.s
      /\ eventLog' = IF misread' THEN eventLog ELSE eventLog \o event

\* do_send_message: the message of this client is number 0.
SendMessage ==
  /\ ~misread /\ contents[0] = <<>>
  /\ AddLogEvent(Event("send_text", 0, <<Text(<<>>)>>))
  /\ opened' = opened \cup {0}
  /\ UNCHANGED <<bodies, replays>>

\* fetch_alloc_message and its kin: a message that has a content is only passed
\* over.  What is left of it would be read as what follows it (in_ptr == in_end).
FetchAllocMessage(id, chat) ==
  LET body == bodies[id].body
      isNew == contents[id] = <<>>
      got == Fetched(body, isNew, chat)
  IN  /\ ~misread
      /\ IF got.end # Len(body) + 1
         THEN misread' = TRUE /\ UNCHANGED <<contents, eventLog>>
         ELSE IF isNew /\ got.op # "none"
         THEN AddLogEvent(Event(got.op, id, got.content))
         ELSE UNCHANGED <<contents, eventLog, misread>>
      /\ opened' = IF bodies[id] \in SecretMessages /\ ~Readable(chat) THEN opened
                   ELSE opened \cup {id}
      /\ UNCHANGED <<bodies, replays>>

\* replay_log at a restart
ReplayLog ==
  LET read == ReplayedLog(Nothing, eventLog, 1)
  IN  /\ ~misread /\ replays < MaxReplays /\ replays' = replays + 1
      /\ misread' = (read.end = Lost) /\ contents' = read.s
      /\ UNCHANGED <<eventLog, bodies, opened>>

\* External: a message for this client
MessageSent(m) ==
  /\ Len(bodies) < MaxBodies /\ bodies' = Append(bodies, m)
  /\ UNCHANGED <<contents, eventLog, misread, opened, replays>>

Next ==
  \/ SendMessage \/ ReplayLog
  \/ \E m \in Message : MessageSent(m)
  \/ \E id \in DOMAIN bodies, chat \in Chats : FetchAllocMessage(id, chat)

Spec == Init /\ [][Next]_contents_vars

-----------------------------------------------------------------------------

\* Every variable has its type.
TypeOK ==
  /\ DOMAIN contents = 0..MaxBodies /\ misread \in BOOLEAN
  /\ \A i \in DOMAIN bodies : bodies[i] \in Message
  /\ opened \subseteq 0..MaxBodies /\ replays \in 0..MaxReplays

Sent(id) == IF id = 0 THEN <<Text(<<>>)>> ELSE bodies[id].content

\* What passes over a structure and what reads it agree on every constructor: no
\* message is read into the next, no event into the one after it, and a message
\* has, also after a restart, the content it was sent with, as soon as it came in
\* a form that shows it (the two functions of each structure in structures.c, and
\* the writers and the reader of binlog.c, are written apart).
ContentsKept ==
  /\ ~misread
  /\ \A id \in 0..MaxBodies : contents[id] = IF id \in opened THEN Sent(id) ELSE <<>>
=============================================================================
