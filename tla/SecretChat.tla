----------------------------- MODULE SecretChat -----------------------------
(***************************************************************************)
(* One secret chat of this client: the requests of queries.c, the objects  *)
(* fetch_encrypted_chat of structures.c takes from the server, the events  *)
(* binlog.c applies, and what a restart finds in the event log or, without *)
(* one (the default), in the secret chat file of loop.c.                   *)
(*                                                                         *)
(* The server and the peer are external.  The answers to requests and the  *)
(* updates come in one stream, in which a message may overtake another, as *)
(* after a lost connection, when answers wait for a resend and updates do  *)
(* not.  An update may come twice.                                         *)
(*                                                                         *)
(* Keys are abstract: <<"own", 0>> is the exponent of a chat we requested, *)
(* <<"shared", n>> the key agreed with our n-th exponent, and <<"bad", 0>> *)
(* what comes of raising anything else.  Fingerprint n is that of the key  *)
(* <<"shared", n>>, and 0 is none.                                         *)
(***************************************************************************)
EXTENDS Naturals, Sequences, SequencesExt

CONSTANTS
  MaxRepeats,     \* bound: updates handled again
  MaxCrashes,     \* bound: restarts of the client
  MaxKeys         \* bound: exponents this client generates for the chat

ASSUME ConstantsAssumption ==
  /\ MaxRepeats \in Nat /\ MaxCrashes \in Nat /\ MaxKeys \in Nat

NoKey == <<"zero", 0>>
OwnExponent == <<"own", 0>>
Shared(n) == <<"shared", n>>
BadKey == <<"bad", 0>>
Key == {NoKey, OwnExponent, BadKey} \cup {Shared(n) : n \in 1..MaxKeys}

SecretChatState == {"none", "waiting", "request", "ok", "deleted"}
Chat == [created : BOOLEAN, state : SecretChatState, key : Key,
         g_key : BOOLEAN, fingerprint : 0..MaxKeys]
NoChat == [created |-> FALSE, state |-> "none", key |-> NoKey, g_key |-> FALSE,
           fingerprint |-> 0]

\* What the server says of a chat, and the query it answers.
Object == [for : {"update", "request", "accept"},
           kind : {"waiting", "requested", "chat", "discarded"},
           fingerprint : 0..MaxKeys]
Obj(for, kind, n) == [for |-> for, kind |-> kind, fingerprint |-> n]

VARIABLES
  chat,       \* struct secret_chat, with FLAG_CREATED as created
  file,       \* what a restart would find of it
  creating,   \* a get_dh_config with do_send_create_encr_chat is outstanding
  accepting,  \* how many with do_send_accept_encr_chat are
  queries,    \* the outstanding queries: 0 the request, n an accept
  keys,       \* how many exponents were generated, a history variable
  aborted,    \* "no", "assertion" failed, or "null" pointer used
  inbox,      \* what the server has sent and the client has not handled
  requests,   \* the queries on their way to the server
  srv,        \* the server's state of the chat
  peerKey,    \* the n of the key the peer computed, 0 if none
  dropped,    \* history: a discard was ignored, the chat had no state yet
  overtaken,  \* history: a message was handled before one sent earlier
  binlog_enabled, \* the configuration variable, which never changes
  repeats, crashes

client  == <<chat, file, creating, accepting, queries, keys, aborted, dropped>>
network == <<inbox, requests>>
others  == <<srv, peerKey>>
fixed   == <<binlog_enabled, crashes>>
bounds  == <<fixed, overtaken, repeats>>
vars    == <<client, network, others, bounds>>

\* Every variable has its type (structers-only.h: struct secret_chat).
TypeOK ==
  /\ chat \in Chat /\ file \in Chat
  /\ creating \in BOOLEAN /\ accepting \in Nat
  /\ keys \in 0..MaxKeys /\ queries \subseteq 0..MaxKeys
  /\ aborted \in {"no", "assertion", "null"}
  /\ inbox \in Seq(Object)
  /\ requests \subseteq 0..MaxKeys
  /\ srv \in {"none", "asked", "waiting", "requested", "ok", "discarded"}
  /\ peerKey \in 0..MaxKeys
  /\ dropped \in BOOLEAN /\ overtaken \in BOOLEAN /\ binlog_enabled \in BOOLEAN
  /\ repeats \in 0..MaxRepeats /\ crashes \in 0..MaxCrashes

Init ==
  /\ chat = NoChat /\ file = NoChat
  /\ creating = FALSE /\ accepting = 0 /\ queries = {} /\ keys = 0
  /\ aborted = "no"
  /\ inbox = <<>> /\ requests = {}
  /\ srv = "none" /\ peerKey = 0
  /\ dropped = FALSE /\ overtaken = FALSE /\ binlog_enabled \in BOOLEAN
  /\ repeats = 0 /\ crashes = 0

-----------------------------------------------------------------------------
(* The events of the log (binlog.c): what each makes of a chat             *)

Initialised(c) == [c EXCEPT !.created = TRUE, !.key = OwnExponent, !.g_key = TRUE]

Requested(c) ==
  IF c.state # "none" THEN c
  ELSE [c EXCEPT !.created = TRUE, !.state = "request", !.g_key = TRUE]

Deleted(c) ==
  IF ~c.created \/ c.state \in {"none", "deleted"} THEN c
  ELSE [c EXCEPT !.state = "deleted", !.key = NoKey, !.g_key = FALSE]

\* do_create_keys_end: a wrong fingerprint is reported, and the state that is
\* set then is overwritten by the caller.
KeysEnd(k) == IF k = OwnExponent THEN Shared(1) ELSE BadKey

Accepted_InAnyState(c, n) ==
  [c EXCEPT !.g_key = TRUE, !.fingerprint = n, !.state = "ok",
            !.key = IF c.state = "waiting" THEN KeysEnd(c.key) ELSE c.key]

Accepted_KeysAlways(c, n) ==
  IF c.state \notin {"waiting", "request"} THEN c
  ELSE [c EXCEPT !.g_key = TRUE, !.fingerprint = n, !.state = "ok",
                 !.key = KeysEnd(c.key)]

Accepted(c, n) ==
  IF c.state \notin {"waiting", "request"} THEN c
  ELSE [c EXCEPT !.g_key = TRUE, !.fingerprint = n, !.state = "ok",
                 !.key = IF c.state = "waiting" THEN KeysEnd(c.key) ELSE c.key]

KeySet(c, n) == [c EXCEPT !.key = Shared(n), !.fingerprint = n]

-----------------------------------------------------------------------------
(* Files                                                                   *)

\* write_secret_chat_file leaves out chats without a state and deleted ones,
\* and the g_key of a waiting one.
Written(c) ==
  IF c.state \in {"none", "deleted"} THEN NoChat
  ELSE [c EXCEPT !.g_key = c.state # "waiting"]

\* The chat becomes c; saved tells whether the code writes the file then.
\* The event log has every event, so a restart finds all of a created chat.
Becomes(c, saved) ==
  /\ chat' = c
  /\ file' = IF binlog_enabled THEN (IF c.created THEN c ELSE NoChat)
             ELSE IF saved THEN Written(c) ELSE file

-----------------------------------------------------------------------------
(* The server's objects: fetch_encrypted_chat                              *)

Fetched_RequestReopens(c, o) ==
  CASE o.kind = "discarded" -> Deleted(c)
    [] o.kind = "requested" ->
         [c EXCEPT !.created = TRUE, !.state = "request", !.g_key = TRUE]
    [] o.kind = "waiting" -> IF c.created THEN [c EXCEPT !.state = "waiting"] ELSE c
    [] o.kind = "chat" -> IF c.created THEN Accepted(c, o.fingerprint) ELSE c

Fetched(c, o) ==
  CASE o.kind = "discarded" -> Deleted(c)
    [] o.kind = "requested" -> IF c.created THEN c ELSE Requested(c)
    [] o.kind = "waiting" -> IF c.created THEN [c EXCEPT !.state = "waiting"] ELSE c
    [] o.kind = "chat" -> IF c.created THEN Accepted(c, o.fingerprint) ELSE c

Saves_NotWaiting(c, o) ==
  IF c.created THEN o.kind \in {"chat", "discarded"} ELSE o.kind = "requested"

\* Whether it writes the file: not for a chat it does not know, unless that is
\* requested, and not for a request it knows.
Saves(c, o) == c.created <=> o.kind # "requested"

FetchEncryptedChat(o) ==
  /\ Becomes(Fetched(chat, o), Saves(chat, o))
  /\ dropped' = (dropped \/ (o.kind = "discarded" /\ chat.state = "none"))

\* Handling the i-th message; an update may stay to be handled again.
Take(i) ==
  /\ overtaken' = (overtaken \/ i > 1)
  /\ \/ inbox' = RemoveAt(inbox, i) /\ UNCHANGED repeats
     \/ /\ inbox[i].for = "update" /\ repeats < MaxRepeats
        /\ repeats' = repeats + 1
        /\ UNCHANGED inbox

UpdateEncryption_NotAccepted ==
  /\ aborted = "no"
  /\ \E i \in 1..Len(inbox) :
       inbox[i].for = "update" /\ Take(i) /\ FetchEncryptedChat(inbox[i])
  /\ UNCHANGED <<creating, accepting, queries, keys, aborted, requests, others, fixed>>

\* update_encryption: a requested chat is accepted, by asking for the
\* parameters of the key exchange (do_accept_encr_chat_request).
UpdateEncryption ==
  /\ aborted = "no"
  /\ \E i \in 1..Len(inbox) :
       /\ inbox[i].for = "update"
       /\ Take(i)
       /\ FetchEncryptedChat(inbox[i])
       /\ accepting' = IF chat'.state = "request" THEN accepting + 1 ELSE accepting
  /\ UNCHANGED <<creating, queries, keys, aborted, requests, others, fixed>>

\* send_encr_request_on_answer asserts that the chat is deleted or waiting.
SendEncrRequestOnAnswer ==
  /\ aborted = "no"
  /\ \E i \in 1..Len(inbox) :
       /\ inbox[i].for = "request" /\ 0 \in queries
       /\ queries' = queries \ {0}
       /\ Take(i)
       /\ FetchEncryptedChat(inbox[i])
       /\ aborted' = IF chat'.state \in {"deleted", "waiting"} THEN "no" ELSE "assertion"
  /\ UNCHANGED <<creating, accepting, keys, requests, others, fixed>>

SendEncrAcceptOnAnswer ==
  /\ aborted = "no"
  /\ \E i \in 1..Len(inbox) :
       /\ inbox[i].for = "accept" /\ inbox[i].fingerprint \in queries
       /\ queries' = queries \ {inbox[i].fingerprint}
       /\ Take(i)
       /\ FetchEncryptedChat(inbox[i])
  /\ UNCHANGED <<creating, accepting, keys, aborted, requests, others, fixed>>

\* query_result: the answer to a query of an earlier life finds no query.
NoSuchQuery ==
  /\ aborted = "no"
  /\ \E i \in 1..Len(inbox) :
       /\ inbox[i].for # "update" /\ inbox[i].fingerprint \notin queries
       /\ Take(i)
  /\ UNCHANGED <<client, requests, others, fixed>>

-----------------------------------------------------------------------------
(* Requests                                                                *)

\* do_create_encr_chat_request, on a command of the user.
CreateEncrChatRequest ==
  /\ aborted = "no" /\ srv = "none"
  /\ srv' = "asked"
  /\ creating' = TRUE
  /\ UNCHANGED <<chat, file, accepting, queries, keys, aborted, dropped, network, peerKey,
                 bounds>>

\* get_dh_config_on_answer, then do_send_create_encr_chat.
SendCreateEncrChat ==
  /\ aborted = "no" /\ creating /\ keys < MaxKeys
  /\ creating' = FALSE
  /\ keys' = keys + 1
  /\ Becomes(Initialised(chat), TRUE)
  /\ queries' = queries \cup {0} /\ requests' = requests \cup {0}
  /\ UNCHANGED <<accepting, aborted, dropped, inbox, others, bounds>>

\* The same, then do_send_accept_encr_chat: if there is a key, nothing; else
\* g_a is raised, which the deletion of the chat has freed; the file is not
\* written.
SendAcceptEncrChat ==
  /\ aborted = "no" /\ accepting > 0
  /\ accepting' = accepting - 1
  /\ \/ /\ chat.key # NoKey
        /\ UNCHANGED <<chat, file, queries, keys, aborted, requests>>
     \/ /\ chat.key = NoKey /\ ~chat.g_key
        /\ aborted' = "null"
        /\ UNCHANGED <<chat, file, queries, keys, requests>>
     \/ /\ chat.key = NoKey /\ chat.g_key /\ keys < MaxKeys
        /\ keys' = keys + 1
        /\ Becomes(KeySet(chat, keys'), FALSE)
        /\ queries' = queries \cup {keys'} /\ requests' = requests \cup {keys'}
        /\ UNCHANGED aborted
  /\ UNCHANGED <<creating, dropped, inbox, others, bounds>>

\* A restart forgets the queries and what only memory had.
Restart ==
  /\ crashes < MaxCrashes
  /\ crashes' = crashes + 1
  /\ chat' = file
  /\ creating' = FALSE /\ accepting' = 0 /\ queries' = {}
  /\ aborted' = "no"
  /\ UNCHANGED <<file, keys, dropped, network, others, overtaken, binlog_enabled,
                 repeats>>

-----------------------------------------------------------------------------
(* External: the server and the peer                                       *)

Send(o) == inbox' = Append(inbox, o)

\* The peer requests a chat with us.
PeerRequests ==
  /\ srv = "none"
  /\ srv' = "requested"
  /\ Send(Obj("update", "requested", 0))
  /\ UNCHANGED <<client, requests, peerKey, bounds>>

\* messages.requestEncryption is taken, or the chat comes back discarded.
ServerTakesRequest ==
  /\ srv = "asked" /\ 0 \in requests
  /\ requests' = requests \ {0}
  /\ \/ srv' = "waiting" /\ Send(Obj("request", "waiting", 0))
     \/ srv' = "discarded" /\ Send(Obj("request", "discarded", 0))
  /\ UNCHANGED <<client, peerKey, bounds>>

\* The peer accepts our chat: it has the shared key, and we are told.
PeerAccepts ==
  /\ srv = "waiting"
  /\ srv' = "ok" /\ peerKey' = 1
  /\ Send(Obj("update", "chat", 1))
  /\ UNCHANGED <<client, requests, bounds>>

\* messages.acceptEncryption is taken while the chat is requested; otherwise
\* the server answers with an error, which query_error only reports.
ServerTakesAccept ==
  \E n \in requests \ {0} :
    /\ requests' = requests \ {n}
    /\ IF srv = "requested"
       THEN srv' = "ok" /\ peerKey' = n /\ Send(Obj("accept", "chat", n))
       ELSE UNCHANGED <<srv, peerKey, inbox>>
    /\ UNCHANGED <<client, bounds>>

PeerDiscards ==
  /\ srv \in {"waiting", "requested", "ok"}
  /\ srv' = "discarded"
  /\ Send(Obj("update", "discarded", 0))
  /\ UNCHANGED <<client, requests, peerKey, bounds>>

-----------------------------------------------------------------------------

Next ==
  \/ UpdateEncryption \/ SendEncrRequestOnAnswer \/ SendEncrAcceptOnAnswer \/ NoSuchQuery
  \/ CreateEncrChatRequest \/ SendCreateEncrChat \/ SendAcceptEncrChat
  \/ Restart
  \/ PeerRequests \/ ServerTakesRequest \/ PeerAccepts \/ ServerTakesAccept
  \/ PeerDiscards

Spec == Init /\ [][Next]_vars

Fairness ==
  /\ WF_vars(UpdateEncryption) /\ WF_vars(SendEncrRequestOnAnswer)
  /\ WF_vars(SendEncrAcceptOnAnswer) /\ WF_vars(NoSuchQuery)
  /\ WF_vars(SendCreateEncrChat) /\ WF_vars(SendAcceptEncrChat)
  /\ WF_vars(ServerTakesRequest) /\ WF_vars(ServerTakesAccept) /\ WF_vars(PeerAccepts)

\* The client handles what it is sent, the server takes what it is sent (the
\* query engine resends it until it does), and the peer's client accepts.
FairSpec == Spec /\ Fairness

-----------------------------------------------------------------------------
(* Properties                                                              *)

\* An established chat has the key the peer has, and knows its fingerprint,
\* whatever was repeated, overtaken or lost in a restart on the way
\* (do_send_accept_encr_chat, do_create_keys_end).
OkKeysAgree ==
  chat.state = "ok" =>
    /\ chat.key \in {Shared(n) : n \in 1..MaxKeys}
    /\ chat.key = Shared(chat.fingerprint)
    /\ peerKey = chat.fingerprint

\* The process aborts only over a chat that was discarded.
AbortNeedsDiscard == aborted # "no" => srv = "discarded"

\* Whatever is repeated, overtaken or lost in a restart, a chat established here
\* has the key of the peer, and the handlers, each of which asserts the state the
\* chat was in when it asked, meet a state they do not expect only after a discard.
ChatRight == TypeOK /\ OkKeysAgree /\ AbortNeedsDiscard

\* A discard that was handled is remembered for good, through late and repeated
\* updates, and through restarts with the event log, unless it came before the
\* chat had a state.  (The file leaves deleted chats out: a late request would
\* bring one back after a restart.)
DiscardRemembered ==
  /\ srv = "discarded" /\ aborted = "no" /\ ~dropped
  /\ binlog_enabled \/ crashes = 0
  /\ \A i \in 1..Len(inbox) : inbox[i].kind # "discarded"
  => chat.state \in {"none", "deleted"}

\* What a restart finds of a chat that waits or is established is the chat:
\* its key is never lost.
Durable ==
  chat.state \in {"waiting", "ok"} =>
    file.state = chat.state /\ file.key = chat.key /\ file.fingerprint = chat.fingerprint

\* A chat only goes forward, but for a restart: no late object brings back an
\* earlier state, although the handler of "waiting" sets it unconditionally.
Forward ==
  [][ \/ crashes' # crashes
      \/ chat'.state = chat.state
      \/ chat.state = "none" /\ chat'.state \in {"waiting", "request"}
      \/ chat.state \in {"waiting", "request"} /\ chat'.state \in {"ok", "deleted"}
      \/ chat.state = "ok" /\ chat'.state = "deleted" ]_vars

\* A chat that was asked for, by us or the peer, is established on both sides in
\* the end, if nobody discards it, messages keep their order and this client is
\* not started anew.
Established ==
  [](srv \in {"asked", "requested"} =>
       <>(srv = "discarded" \/ (srv = "ok" /\ chat.state = "ok")
          \/ overtaken \/ crashes > 0))

\* A chat that was discarded does not stay in use here, if messages keep their
\* order.
DiscardTakesEffect ==
  [](srv = "discarded" =>
       <>(chat.state \in {"none", "deleted"} \/ aborted # "no" \/ overtaken))

\* A chat that was begun comes to an end that both sides know: established, or
\* discarded and out of use, while messages keep their order.
Concluded == Established /\ DiscardTakesEffect

\* send_encr_request_on_answer asserts that a request that is answered leaves
\* the chat deleted or waiting (queries.c:2267).
AnswerIsExpected == aborted # "assertion"

-----------------------------------------------------------------------------
(* The inductive invariant                                                 *)

Sent == {inbox[i] : i \in 1..Len(inbox)}

\* What each state of a chat says of the rest of it.
Shape(c) ==
  /\ c.state = "none" => c = NoChat \/ c = Initialised(NoChat)
  /\ c.state # "none" => c.created
  /\ c.state = "waiting" => c.key = OwnExponent
  /\ c.state = "request" =>
       c.g_key /\ c.key = IF c.fingerprint = 0 THEN NoKey ELSE Shared(c.fingerprint)
  /\ c.state = "ok" =>
       /\ c.fingerprint = peerKey /\ peerKey # 0 /\ c.key = Shared(peerKey)
       /\ srv \in {"ok", "discarded"}
  /\ c.state = "deleted" => c.key = NoKey /\ ~c.g_key /\ srv = "discarded"

\* The chat is one we requested: no request of the peer's is about.
Ours ==
  /\ requests \subseteq {0} /\ queries \subseteq {0} /\ accepting = 0
  /\ chat.state # "request"
  /\ srv # "requested" /\ peerKey \in {0, 1}
  /\ \A o \in Sent : o.kind # "requested" /\ o.for # "accept"

\* The chat is one the peer requested: nothing of our own request is about.
Theirs ==
  /\ 0 \notin requests /\ 0 \notin queries /\ ~creating
  /\ chat.state # "waiting" /\ chat # Initialised(NoChat)
  /\ srv \notin {"asked", "waiting"}
  /\ \A o \in Sent : o.for # "request" /\ (o.kind = "chat" => o.for = "accept")

\* What the client has outstanding fits the chat.
Outstanding ==
  /\ creating => srv = "asked" /\ chat = NoChat /\ queries = {} /\ requests = {}
  /\ accepting > 0 => chat.state \in {"request", "ok", "deleted"}
  /\ 0 \in queries => chat = Initialised(NoChat)
  /\ \A n \in queries \ {0} : chat.state = "deleted" \/ chat.fingerprint = n

\* What the server has sent fits what it knows.
SentFits ==
  /\ srv \in {"none", "asked"} => inbox = <<>> /\ chat.state = "none"
  /\ srv = "none" => requests = {} /\ queries = {} /\ chat = NoChat /\ file = NoChat
  /\ srv \notin {"ok", "discarded"} => peerKey = 0
  /\ srv = "waiting" \/ 0 \in requests => keys > 0
  /\ 0 \in requests => srv = "asked"
  /\ \A o \in Sent :
       /\ o.kind = "chat" => o.fingerprint = peerKey /\ peerKey # 0
                             /\ srv \in {"ok", "discarded"} /\ o.for # "request"
       /\ o.kind = "waiting" => o.for = "request"
       /\ o.kind = "discarded" => srv = "discarded"
       /\ o.for = "request" => o.kind \in {"waiting", "discarded"}
       /\ o.for = "accept" => o.kind = "chat"

\* What a restart would find fits the chat: all of it with the event log; without,
\* what was written, in which a key we set when accepting may be missing.
FileFits ==
  IF binlog_enabled THEN file = chat
  ELSE \/ file = Written(chat)
       \/ chat.state = "request" /\ file.state = "request"

\* A discard is remembered, or the server took no request to begin with.
DiscardKept ==
  /\ srv = "discarded" /\ ~dropped
  /\ binlog_enabled \/ crashes = 0
  /\ \A o \in Sent : o.kind # "discarded"
  => chat.state = "deleted" \/ (chat.state = "none" /\ inbox = <<>>)

\* If the answer to our request is that it is discarded, it is all there is.
Refused ==
  (\E o \in Sent : o.for = "request" /\ o.kind = "discarded") =>
    Len(inbox) = 1 /\ chat.state = "none"

\* Inductive: each action keeps it.
IInv ==
  /\ TypeOK /\ Shape(chat) /\ Shape(file)
  /\ Ours \/ Theirs
  /\ Outstanding /\ SentFits /\ FileFits /\ Refused /\ DiscardKept
  /\ AbortNeedsDiscard
=============================================================================
