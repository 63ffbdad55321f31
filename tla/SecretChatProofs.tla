-------------------------- MODULE SecretChatProofs --------------------------
(***************************************************************************)
(* What holds of SecretChat for all bounds.  IInv is inductive: the lemmas *)
(* on the inbox say what handling and sending a message do to it, those on *)
(* the chat what the events and the files do, and each action has a lemma  *)
(* of its own.                                                             *)
(***************************************************************************)
EXTENDS SecretChat, SequenceTheorems, TLAPS

-----------------------------------------------------------------------------
(* The inbox                                                               *)

(* Taking one element out of a sequence leaves a sequence one shorter, of  *)
(* the other elements in their order.                                      *)
LEMMA RemoveAtProperties ==
  ASSUME NEW S, NEW s \in Seq(S), NEW i \in 1..Len(s)
  PROVE  /\ RemoveAt(s, i) \in Seq(S)
         /\ Len(RemoveAt(s, i)) = Len(s) - 1
         /\ \A j \in 1..Len(s) - 1 :
              RemoveAt(s, i)[j] = IF j < i THEN s[j] ELSE s[j + 1]
<1> DEFINE left == SubSeq(s, 1, i - 1)
           right == SubSeq(s, i + 1, Len(s))
<1>0. Len(s) \in Nat /\ i \in 1..Len(s) /\ \A j \in 1..Len(s) : s[j] \in S
  BY LenProperties, ElementOfSeq
<1>1. /\ left \in Seq(S) /\ Len(left) = i - 1
      /\ \A j \in 1..i - 1 : left[j] = s[j]
  BY <1>0, SubSeqProperties
<1>2. /\ right \in Seq(S) /\ Len(right) = Len(s) - i
      /\ \A j \in 1..Len(s) - i : right[j] = s[i + j]
  <2>1. \A j \in i + 1..Len(s) : s[j] \in S
    BY <1>0
  <2>2. i + 1 \in Int /\ Len(s) \in Int
    BY <1>0
  <2>3. /\ right \in Seq(S) /\ Len(right) = IF i + 1 <= Len(s) THEN Len(s) - (i + 1) + 1 ELSE 0
        /\ \A j \in 1..Len(s) - (i + 1) + 1 : right[j] = s[i + 1 + j - 1]
    BY <2>1, <2>2, SubSeqProperties
  <2> QED
    BY <1>0, <2>3
<1> HIDE DEF left, right
<1>3. /\ left \o right \in Seq(S)
      /\ Len(left \o right) = Len(left) + Len(right)
      /\ \A j \in 1..Len(left) + Len(right) :
           (left \o right)[j] = IF j <= Len(left) THEN left[j] ELSE right[j - Len(left)]
  BY <1>1, <1>2, ConcatProperties
<1>4. RemoveAt(s, i) = left \o right
  BY DEF RemoveAt, left, right
<1>5. Len(left \o right) = Len(s) - 1
  BY <1>0, <1>1, <1>2, <1>3
<1>6. ASSUME NEW j \in 1..Len(s) - 1
      PROVE  (left \o right)[j] = IF j < i THEN s[j] ELSE s[j + 1]
  <2>1. CASE j < i
    BY <1>0, <1>1, <1>3, <1>5, <2>1
  <2>2. CASE j >= i
    <3>1. (left \o right)[j] = right[j - (i - 1)]
      BY <1>0, <1>1, <1>3, <1>5, <2>2
    <3>2. j - (i - 1) \in 1..Len(s) - i /\ i + (j - (i - 1)) = j + 1
      BY <1>0, <2>2
    <3> QED
      BY <1>0, <1>2, <2>2, <3>1, <3>2
  <2>3. j < i \/ j >= i
    BY <1>0
  <2> QED
    BY <2>1, <2>2, <2>3, Zenon
<1>7. \A j \in 1..Len(s) - 1 :
        RemoveAt(s, i)[j] = IF j < i THEN s[j] ELSE s[j + 1]
  BY <1>4, <1>6
<1>8. RemoveAt(s, i) \in Seq(S) /\ Len(RemoveAt(s, i)) = Len(s) - 1
  BY <1>3, <1>4, <1>5
<1> QED
  BY <1>7, <1>8

(* Handling the i-th message: what is left was sent, and what was sent and *)
(* is not left is that message.                                            *)
LEMMA TakeProperties ==
  ASSUME TypeOK, NEW i \in 1..Len(inbox), Take(i)
  PROVE  /\ inbox' \in Seq(Object)
         /\ inbox[i] \in Object /\ inbox[i] \in Sent
         /\ Sent' \subseteq Sent /\ Sent \subseteq Sent' \cup {inbox[i]}
         /\ overtaken' \in BOOLEAN /\ repeats' \in 0..MaxRepeats
         /\ Len(inbox) \in Nat
         /\ inbox[i].for # "update" => Len(inbox') = Len(inbox) - 1
         /\ Len(inbox') = Len(inbox) - 1 \/ inbox' = inbox
<1>1. inbox \in Seq(Object) /\ overtaken \in BOOLEAN /\ repeats \in 0..MaxRepeats
  BY DEF TypeOK
<1>2. inbox[i] \in Object /\ Len(inbox) \in Nat
  BY <1>1, ElementOfSeq, LenProperties
<1>3. inbox[i] \in Sent
  BY DEF Sent
<1>4. overtaken' \in BOOLEAN
  BY <1>1 DEF Take
<1>5. CASE inbox' = RemoveAt(inbox, i) /\ UNCHANGED repeats
  <2>1. /\ inbox' \in Seq(Object) /\ Len(inbox') = Len(inbox) - 1
        /\ \A j \in 1..Len(inbox) - 1 :
             inbox'[j] = IF j < i THEN inbox[j] ELSE inbox[j + 1]
    BY <1>1, <1>5, RemoveAtProperties
  <2>2. Sent' \subseteq Sent
    <3>1. ASSUME NEW j \in 1..Len(inbox') PROVE inbox'[j] \in Sent
      BY <1>2, <2>1 DEF Sent
    <3> QED
      BY <3>1 DEF Sent
  <2>3. Sent \subseteq Sent' \cup {inbox[i]}
    <3>1. ASSUME NEW j \in 1..Len(inbox) PROVE inbox[j] \in Sent' \cup {inbox[i]}
      <4>1. CASE j < i
        <5>1. j \in 1..Len(inbox') /\ inbox'[j] = inbox[j]
          BY <1>2, <2>1, <4>1
        <5> QED
          BY <5>1 DEF Sent
      <4>2. CASE j > i
        <5>1. j - 1 \in 1..Len(inbox') /\ inbox'[j - 1] = inbox[j]
          BY <1>2, <2>1, <4>2
        <5> QED
          BY <5>1 DEF Sent
      <4> QED
        BY <4>1, <4>2
    <3> QED
      BY <3>1 DEF Sent
  <2> QED
    BY <1>1, <1>2, <1>3, <1>4, <1>5, <2>1, <2>2, <2>3
<1>6. CASE /\ inbox[i].for = "update" /\ repeats < MaxRepeats
           /\ repeats' = repeats + 1
           /\ UNCHANGED inbox
  <2>1. repeats' \in 0..MaxRepeats
    BY <1>1, <1>6, ConstantsAssumption
  <2>2. Sent' = Sent
    BY <1>6 DEF Sent
  <2> QED
    BY <1>1, <1>2, <1>3, <1>4, <1>6, <2>1, <2>2
<1> QED
  BY <1>5, <1>6 DEF Take

(* Sending a message adds it to what was sent.                             *)
LEMMA SendProperties ==
  ASSUME TypeOK, NEW o \in Object, Send(o)
  PROVE  /\ inbox' \in Seq(Object) /\ Len(inbox') = Len(inbox) + 1
         /\ Len(inbox) \in Nat
         /\ Sent' = Sent \cup {o}
<1>1. inbox \in Seq(Object) /\ Len(inbox) \in Nat
  BY LenProperties DEF TypeOK
<1>2. /\ inbox' \in Seq(Object) /\ Len(inbox') = Len(inbox) + 1
      /\ \A j \in 1..Len(inbox) : inbox'[j] = inbox[j]
      /\ inbox'[Len(inbox) + 1] = o
  BY <1>1, AppendProperties DEF Send
<1>3. Sent' \subseteq Sent \cup {o}
  <2>1. ASSUME NEW j \in 1..Len(inbox') PROVE inbox'[j] \in Sent \cup {o}
    BY <1>1, <1>2 DEF Sent
  <2> QED
    BY <2>1 DEF Sent
<1>4. Sent \cup {o} \subseteq Sent'
  <2>1. ASSUME NEW j \in 1..Len(inbox) PROVE inbox[j] \in Sent'
    <3>1. j \in 1..Len(inbox') /\ inbox'[j] = inbox[j]
      BY <1>1, <1>2
    <3> QED
      BY <3>1 DEF Sent
  <2>2. o \in Sent'
    <3>1. Len(inbox) + 1 \in 1..Len(inbox')
      BY <1>1, <1>2
    <3> QED
      BY <1>2, <3>1 DEF Sent
  <2> QED
    BY <2>1, <2>2 DEF Sent
<1> QED
  BY <1>1, <1>2, <1>3, <1>4

-----------------------------------------------------------------------------
(* The chat and its file                                                   *)

(* No two kinds of keys are the same, nor the shared keys of two exponents. *)
LEMMA KeysDiffer ==
  /\ NoKey # OwnExponent /\ NoKey # BadKey /\ OwnExponent # BadKey
  /\ \A m, n \in Nat : Shared(n) \notin {NoKey, OwnExponent, BadKey}
                      /\ (Shared(m) = Shared(n) => m = n)
  /\ NoKey \in Key /\ OwnExponent \in Key /\ BadKey \in Key
  /\ \A n \in 1..MaxKeys : Shared(n) \in Key
BY DEF NoKey, OwnExponent, BadKey, Shared, Key

(* The chat of which nothing is known, and the one just begun.             *)
LEMMA FirstChats ==
  /\ NoChat \in Chat /\ Initialised(NoChat) \in Chat
  /\ ~NoChat.created /\ NoChat.state = "none" /\ NoChat.key = NoKey
  /\ NoChat.fingerprint = 0 /\ ~NoChat.g_key
  /\ Initialised(NoChat).created /\ Initialised(NoChat).state = "none"
  /\ Initialised(NoChat).key = OwnExponent /\ Initialised(NoChat).g_key
  /\ Initialised(NoChat).fingerprint = 0
  /\ NoChat # Initialised(NoChat)
<1>1. NoKey \in Key /\ OwnExponent \in Key /\ 0 \in 0..MaxKeys
  BY KeysDiffer, ConstantsAssumption
<1> QED
  BY <1>1 DEF NoChat, Initialised, Chat, SecretChatState

(* A chat that keeps to its state and is written, if that is due, leaves a *)
(* file that fits it.                                                      *)
LEMMA BecomesFits ==
  ASSUME IInv, NEW c \in Chat, NEW saved \in BOOLEAN, Becomes(c, saved), Shape(c),
         UNCHANGED <<binlog_enabled, srv, peerKey>>,
         saved \/ c = chat \/ (chat.state = "request" /\ c.state = "request")
  PROVE  chat' = c /\ file' \in Chat /\ Shape(chat)' /\ Shape(file)' /\ FileFits'
<1>1. chat' = c /\ Shape(chat)'
  BY DEF Becomes, Shape
<1>2. CASE binlog_enabled
  <2>1. c.created \/ c = NoChat
    BY FirstChats DEF Shape
  <2>2. file' = c
    BY <1>2, <2>1 DEF Becomes
  <2> QED
    BY <1>1, <1>2, <2>2 DEF Shape, FileFits
<1>3. CASE ~binlog_enabled /\ saved
  <2>1. file' = Written(c)
    BY <1>3 DEF Becomes
  <2>2. CASE c.state \in {"none", "deleted"}
    <3>1. file' = NoChat
      BY <2>1, <2>2 DEF Written
    <3>2. Shape(file)'
      BY <3>1, FirstChats DEF Shape
    <3> QED
      BY <1>1, <1>3, <2>1, <3>1, <3>2, FirstChats DEF FileFits
  <2>3. CASE c.state \notin {"none", "deleted"}
    <3>1. file' = [c EXCEPT !.g_key = c.state # "waiting"]
      BY <2>1, <2>3 DEF Written
    <3>2. /\ file' \in Chat /\ file'.state = c.state /\ file'.created = c.created
          /\ file'.key = c.key /\ file'.fingerprint = c.fingerprint
          /\ file'.g_key = (c.state # "waiting")
      BY <3>1 DEF Chat
    <3>3. Shape(file)'
      BY <2>3, <3>2 DEF Shape
    <3> QED
      BY <1>1, <1>3, <2>1, <3>2, <3>3 DEF FileFits
  <2> QED
    BY <2>2, <2>3
<1>4. CASE ~binlog_enabled /\ ~saved
  <2>1. file' = file
    BY <1>4 DEF Becomes
  <2>2. FileFits'
    <3>1. CASE c = chat
      BY <1>1, <1>4, <2>1, <3>1 DEF FileFits, IInv
    <3>2. CASE chat.state = "request" /\ c.state = "request"
      <4>1. file.state = "request"
        BY <1>4, <3>2 DEF IInv, FileFits, Written, TypeOK, Chat
      <4> QED
        BY <1>1, <1>4, <2>1, <3>2, <4>1 DEF FileFits
    <3> QED
      BY <1>4, <3>1, <3>2
  <2> QED
    BY <1>1, <2>1, <2>2 DEF IInv, Shape, TypeOK
<1> QED
  BY <1>2, <1>3, <1>4

(* What a file that fits says of the chat.                                 *)
LEMMA FileStates ==
  ASSUME TypeOK, Shape(chat), FileFits
  PROVE  /\ file.state = chat.state
            \/ (file = NoChat /\ chat.state \in {"none", "deleted"})
         /\ file = Initialised(NoChat) => chat = Initialised(NoChat)
         /\ chat.state \in {"waiting", "ok"} =>
              file.key = chat.key /\ file.fingerprint = chat.fingerprint
<1>1. CASE binlog_enabled
  BY <1>1 DEF FileFits
<1>2. CASE ~binlog_enabled
  <2>1. CASE file = Written(chat) /\ chat.state \in {"none", "deleted"}
    BY <2>1, FirstChats DEF Written
  <2>2. CASE file = Written(chat) /\ chat.state \notin {"none", "deleted"}
    <3>1. /\ file.state = chat.state /\ file.key = chat.key
          /\ file.fingerprint = chat.fingerprint
      BY <2>2 DEF Written, TypeOK, Chat
    <3> QED
      BY <2>2, <3>1, FirstChats
  <2>3. CASE chat.state = "request" /\ file.state = "request"
    BY <2>3, FirstChats
  <2> QED
    BY <1>2, <2>1, <2>2, <2>3 DEF FileFits
<1> QED
  BY <1>1, <1>2

-----------------------------------------------------------------------------
(* The server's objects                                                    *)

(* An object the client takes: an update, or the answer to a query it has  *)
(* outstanding.                                                            *)
Taken(o) ==
  /\ o \in Sent /\ o \in Object
  /\ \/ o.for = "update"
     \/ o.for = "request" /\ 0 \in queries
     \/ o.for = "accept" /\ o.fingerprint \in queries

(* What an object makes of the chat.                                       *)
Steps(o, c) ==
  \/ c = chat
  \/ chat = NoChat /\ c.state = "request" /\ o.kind = "requested"
  \/ chat = Initialised(NoChat) /\ c.state = "waiting" /\ o.kind = "waiting"
  \/ chat.state \in {"waiting", "request"} /\ c.state = "ok" /\ o.kind = "chat"
  \/ chat.state \notin {"none", "deleted"} /\ c.state = "deleted" /\ o.kind = "discarded"

(* An object that is taken leaves a chat that keeps to its state, which is *)
(* written if it changed.                                                  *)
LEMMA FetchedRight ==
  ASSUME IInv, NEW o, Taken(o)
  PROVE  /\ Fetched(chat, o) \in Chat /\ Shape(Fetched(chat, o))
         /\ Saves(chat, o) \in BOOLEAN
         /\ Saves(chat, o) \/ Fetched(chat, o) = chat
         /\ Steps(o, Fetched(chat, o))
         /\ Fetched(chat, o).fingerprint = chat.fingerprint \/ queries \subseteq {0}
         /\ o.kind = "discarded" => Fetched(chat, o).state \in {"none", "deleted"}
<1> DEFINE c == Fetched(chat, o)
<1>0. Saves(chat, o) \in BOOLEAN
  BY DEF Saves
<1>1. chat \in Chat /\ Shape(chat) /\ o \in Object /\ (~chat.created => chat = NoChat)
  BY FirstChats DEF IInv, TypeOK, Taken, Shape
<1>2. CASE o.kind = "discarded"
  <2>1. c = Deleted(chat) /\ srv = "discarded" /\ (chat.created <=> Saves(chat, o))
    BY <1>1, <1>2 DEF Fetched, Saves, IInv, SentFits, Taken, Chat
  <2>2. CASE ~chat.created \/ chat.state \in {"none", "deleted"}
    <3>1. c = chat
      BY <2>1, <2>2 DEF Deleted
    <3>2. chat.state \in {"none", "deleted"}
      BY <1>1, <2>2, FirstChats
    <3> QED
      BY <1>0, <1>1, <3>1, <3>2 DEF Steps
  <2>3. CASE chat.created /\ chat.state \notin {"none", "deleted"}
    <3>1. c = [chat EXCEPT !.state = "deleted", !.key = NoKey, !.g_key = FALSE]
      BY <2>1, <2>3 DEF Deleted
    <3>2. /\ c \in Chat /\ c.state = "deleted" /\ c.key = NoKey /\ ~c.g_key /\ c.created
          /\ c.fingerprint = chat.fingerprint
      BY <1>1, <2>3, <3>1, KeysDiffer DEF Chat, SecretChatState
    <3>3. Shape(c)
      BY <2>1, <3>2 DEF Shape
    <3> QED
      BY <1>0, <1>2, <2>1, <2>3, <3>2, <3>3 DEF Steps
  <2> QED
    BY <2>2, <2>3
<1>3. CASE o.kind = "requested"
  <2>1. CASE chat.created
    <3>1. c = chat
      BY <1>3, <2>1 DEF Fetched
    <3> QED
      BY <1>0, <1>1, <1>3, <3>1 DEF Steps
  <2>2. CASE ~chat.created
    <3>1. chat = NoChat
      BY <1>1, <2>2
    <3>2. c = [chat EXCEPT !.created = TRUE, !.state = "request", !.g_key = TRUE]
      BY <1>3, <2>2, <3>1, FirstChats DEF Fetched, Requested
    <3>3. /\ c \in Chat /\ c.state = "request" /\ c.key = NoKey /\ c.g_key /\ c.created
          /\ c.fingerprint = 0 /\ chat.fingerprint = 0
      BY <1>1, <3>1, <3>2, FirstChats DEF Chat, SecretChatState
    <3>4. Shape(c)
      BY <3>3 DEF Shape
    <3>5. Saves(chat, o)
      BY <1>3, <2>2 DEF Saves
    <3> QED
      BY <1>0, <1>3, <3>1, <3>3, <3>4, <3>5 DEF Steps
  <2> QED
    BY <2>1, <2>2
<1>4. CASE o.kind = "waiting"
  <2>1. chat = Initialised(NoChat)
    BY <1>4 DEF Taken, IInv, SentFits, Outstanding
  <2>2. c = [chat EXCEPT !.state = "waiting"] /\ Saves(chat, o)
    BY <1>1, <1>4, <2>1, FirstChats DEF Fetched, Saves
  <2>3. /\ c \in Chat /\ c.state = "waiting" /\ c.key = OwnExponent /\ c.created
        /\ c.fingerprint = chat.fingerprint
    BY <1>1, <2>1, <2>2, FirstChats DEF Chat, SecretChatState
  <2>4. Shape(c)
    BY <2>3 DEF Shape
  <2> QED
    BY <1>0, <1>4, <2>1, <2>2, <2>3, <2>4 DEF Steps
<1>5. CASE o.kind = "chat"
  <2>1. /\ o.fingerprint = peerKey /\ peerKey # 0 /\ srv \in {"ok", "discarded"}
        /\ o.for # "request" /\ peerKey \in 0..MaxKeys
    BY <1>5 DEF Taken, IInv, SentFits, TypeOK
  <2>2. CASE ~chat.created \/ chat.state \notin {"waiting", "request"}
    <3>1. c = chat
      BY <1>5, <2>2 DEF Fetched, Accepted
    <3> QED
      BY <1>0, <1>1, <1>5, <3>1 DEF Steps
  <2>3. CASE chat.created /\ chat.state \in {"waiting", "request"}
    <3>1. c = [chat EXCEPT !.g_key = TRUE, !.fingerprint = o.fingerprint, !.state = "ok",
                 !.key = IF chat.state = "waiting" THEN KeysEnd(chat.key) ELSE chat.key]
      BY <1>5, <2>3 DEF Fetched, Accepted
    <3>2. (IF chat.state = "waiting" THEN KeysEnd(chat.key) ELSE chat.key) = Shared(peerKey)
          /\ (chat.fingerprint = o.fingerprint \/ queries \subseteq {0})
      <4>1. CASE chat.state = "waiting"
        <5>1. Ours
          BY <4>1 DEF IInv, Theirs
        <5>2. peerKey = 1 /\ queries \subseteq {0}
          BY <2>1, <5>1 DEF Ours
        <5> QED
          BY <1>1, <4>1, <5>2 DEF Shape, KeysEnd
      <4>2. CASE chat.state = "request"
        <5>1. Theirs
          BY <4>2 DEF IInv, Ours
        <5>2. o.fingerprint \in queries \ {0}
          BY <1>5, <2>1, <5>1 DEF Theirs, Taken
        <5>3. chat.fingerprint = o.fingerprint
          BY <4>2, <5>2 DEF IInv, Outstanding
        <5> QED
          BY <1>1, <2>1, <4>2, <5>3 DEF Shape
      <4> QED
        BY <2>3, <4>1, <4>2
    <3>3. Shared(peerKey) \in Key
      BY <2>1, KeysDiffer, ConstantsAssumption
    <3> HIDE DEF c
    <3>4. c = [chat EXCEPT !.g_key = TRUE, !.fingerprint = peerKey, !.state = "ok",
                           !.key = Shared(peerKey)]
      BY <2>1, <3>1, <3>2
    <3>5. /\ c \in Chat /\ c.state = "ok" /\ c.key = Shared(peerKey) /\ c.created
          /\ c.fingerprint = peerKey
      BY <1>1, <2>1, <2>3, <3>3, <3>4 DEF Chat, SecretChatState
    <3>6. Shape(c)
      BY <2>1, <3>5 DEF Shape
    <3>7. Saves(chat, o)
      BY <1>5, <2>3 DEF Saves
    <3> QED
      BY <1>0, <1>5, <2>1, <2>3, <3>2, <3>5, <3>6, <3>7 DEF Steps, c
  <2> QED
    BY <2>2, <2>3
<1> QED
  BY <1>1, <1>2, <1>3, <1>4, <1>5 DEF Object

(* The i-th message is taken, and the query it answers is no longer        *)
(* outstanding: every part of the invariant is kept that the assertion of  *)
(* the caller has no part in.                                              *)
LEMMA FetchKeepsIInv ==
  ASSUME IInv, NEW i \in 1..Len(inbox), Taken(inbox[i]), Take(i),
         FetchEncryptedChat(inbox[i]),
         queries' \subseteq queries,
         inbox[i].for = "request" => 0 \notin queries',
         accepting' = accepting \/ (accepting' = accepting + 1 /\ chat'.state = "request"),
         UNCHANGED <<creating, keys, requests, others, fixed>>,
         aborted' \in {"no", "assertion", "null"}, AbortNeedsDiscard'
  PROVE  IInv' /\ Steps(inbox[i], chat')
<1> DEFINE o == inbox[i]
           c == Fetched(chat, o)
<1>1. /\ inbox' \in Seq(Object) /\ o \in Object /\ o \in Sent
      /\ Sent' \subseteq Sent /\ Sent \subseteq Sent' \cup {o}
      /\ overtaken' \in BOOLEAN /\ repeats' \in 0..MaxRepeats /\ Len(inbox) \in Nat
      /\ o.for # "update" => Len(inbox') = Len(inbox) - 1
      /\ Len(inbox') = Len(inbox) - 1 \/ inbox' = inbox
  BY TakeProperties DEF IInv
<1>2. /\ c \in Chat /\ Shape(c) /\ Saves(chat, o) \in BOOLEAN
      /\ Saves(chat, o) \/ c = chat
      /\ Steps(o, c)
      /\ c.fingerprint = chat.fingerprint \/ queries \subseteq {0}
      /\ o.kind = "discarded" => c.state \in {"none", "deleted"}
  BY FetchedRight
<1> HIDE DEF c
<1>3. Becomes(c, Saves(chat, o))
  BY DEF FetchEncryptedChat, c
<1>4. chat' = c /\ file' \in Chat /\ Shape(chat)' /\ Shape(file)' /\ FileFits'
  BY <1>2, <1>3, BecomesFits DEF others, fixed
<1>5. inbox # <<>>
  BY <1>1, EmptySeq
<1>6. /\ srv \notin {"none", "asked"} /\ ~creating
      /\ srv' = srv /\ creating' = creating /\ peerKey' = peerKey /\ requests' = requests
      /\ keys' = keys /\ binlog_enabled' = binlog_enabled /\ crashes' = crashes
  BY <1>5 DEF IInv, SentFits, Outstanding, others, fixed
<1>7. dropped' = (dropped \/ (o.kind = "discarded" /\ chat.state = "none"))
  BY DEF FetchEncryptedChat
<1>8. TypeOK'
  BY <1>1, <1>2, <1>4, <1>6, <1>7 DEF IInv, TypeOK
<1>9. (Ours \/ Theirs)'
  <2>1. CASE Ours
    <3>1. c.state # "request"
      BY <1>1, <1>2, <2>1 DEF Ours, Steps
    <3> QED
      BY <1>1, <1>4, <1>6, <2>1, <3>1 DEF Ours
  <2>2. CASE Theirs
    <3>1. o.for # "request" /\ o.kind # "waiting"
      BY <1>1, <2>2 DEF Theirs, IInv, SentFits
    <3>2. c.state # "waiting" /\ c # Initialised(NoChat)
      BY <1>2, <2>2, <3>1, FirstChats DEF Theirs, Steps
    <3> QED
      BY <1>1, <1>4, <1>6, <2>2, <3>2 DEF Theirs
  <2> QED
    BY <2>1, <2>2 DEF IInv
<1>10. Outstanding'
  <2>1. accepting' > 0 => c.state \in {"request", "ok", "deleted"}
    <3>1. accepting > 0 => c.state \in {"request", "ok", "deleted"}
      BY <1>2, FirstChats DEF Steps, IInv, Outstanding
    <3> QED
      BY <1>4, <3>1
  <2>2. 0 \in queries' => c = Initialised(NoChat)
    <3>1. ASSUME 0 \in queries' PROVE c = Initialised(NoChat)
      <4>1. chat = Initialised(NoChat) /\ o.for # "request"
        BY <3>1 DEF IInv, Outstanding
      <4>2. o.kind # "waiting"
        BY <1>1, <4>1 DEF IInv, SentFits
      <4> QED
        BY <1>2, <4>1, <4>2, FirstChats DEF Steps
    <3> QED
      BY <3>1
  <2>3. \A n \in queries' \ {0} : c.state = "deleted" \/ c.fingerprint = n
    <3>1. ASSUME NEW n \in queries' \ {0} PROVE c.state = "deleted" \/ c.fingerprint = n
      <4>1. chat.state = "deleted" \/ chat.fingerprint = n
        BY <3>1 DEF IInv, Outstanding
      <4>2. c.fingerprint = chat.fingerprint
        BY <1>2, <3>1
      <4> QED
        BY <1>2, <4>1, <4>2, FirstChats DEF Steps
    <3> QED
      BY <3>1
  <2> QED
    BY <1>4, <1>6, <2>1, <2>2, <2>3 DEF Outstanding
<1>11. SentFits'
  BY <1>1, <1>6 DEF IInv, SentFits
<1>12. Refused'
  <2>1. ASSUME \E p \in Sent' : p.for = "request" /\ p.kind = "discarded"
        PROVE  Len(inbox') = 1 /\ c.state = "none"
    <3>1. Len(inbox) = 1 /\ chat.state = "none"
      BY <1>1, <2>1 DEF IInv, Refused
    <3>2. PICK p \in Sent' : p.for = "request" /\ p.kind = "discarded"
      BY <2>1
    <3>3. o = p
      <4>1. i = 1 /\ \A q \in Sent : q = inbox[1]
        BY <3>1 DEF Sent
      <4> QED
        BY <1>1, <3>2, <4>1
    <3>4. inbox' = <<>>
      <4>1. Len(inbox') = 0
        BY <1>1, <3>1, <3>2, <3>3
      <4> QED
        BY <1>1, <4>1, EmptySeq
    <3> QED
      BY <3>2, <3>4, EmptySeq DEF Sent
  <2> QED
    BY <1>4, <2>1 DEF Refused
<1>13. DiscardKept'
  <2>1. ASSUME srv = "discarded", ~dropped', binlog_enabled \/ crashes = 0,
               \A p \in Sent' : p.kind # "discarded"
        PROVE  c.state = "deleted"
    <3>1. CASE o.kind = "discarded"
      BY <1>2, <1>7, <2>1, <3>1 DEF Steps
    <3>2. CASE o.kind # "discarded"
      <4>1. \A p \in Sent : p.kind # "discarded"
        BY <1>1, <2>1, <3>2
      <4>2. chat.state = "deleted"
        BY <1>5, <1>7, <2>1, <4>1 DEF IInv, DiscardKept
      <4> QED
        BY <1>2, <4>2, FirstChats DEF Steps
    <3> QED
      BY <3>1, <3>2
  <2> QED
    BY <1>4, <1>6, <2>1 DEF DiscardKept
<1> QED
  BY <1>2, <1>4, <1>8, <1>9, <1>10, <1>11, <1>12, <1>13 DEF IInv

-----------------------------------------------------------------------------
(* The actions                                                             *)

(* At first there is no chat.                                              *)
LEMMA InitIInv == Init => IInv
<1> SUFFICES ASSUME Init PROVE IInv
  OBVIOUS
<1>1. inbox \in Seq(Object) /\ Len(inbox) = 0 /\ Sent = {}
  BY EmptySeq DEF Init, Sent
<1>2. TypeOK
  <2>1. chat \in Chat /\ file \in Chat
    BY FirstChats DEF Init
  <2>2. /\ accepting \in Nat /\ keys \in 0..MaxKeys /\ peerKey \in 0..MaxKeys
        /\ repeats \in 0..MaxRepeats /\ crashes \in 0..MaxCrashes
    BY ConstantsAssumption DEF Init
  <2> QED
    BY <1>1, <2>1, <2>2 DEF Init, TypeOK
<1>3. Shape(chat) /\ Shape(file)
  BY FirstChats DEF Init, Shape
<1>4. Ours
  BY <1>1, FirstChats DEF Init, Ours
<1>5. FileFits
  BY FirstChats DEF Init, FileFits, Written
<1>6. Outstanding
  BY FirstChats DEF Init, Outstanding
<1>7. SentFits
  BY <1>1, FirstChats DEF Init, SentFits
<1>8. Refused /\ DiscardKept /\ AbortNeedsDiscard
  BY <1>1 DEF Init, Refused, DiscardKept, AbortNeedsDiscard
<1> QED
  BY <1>2, <1>3, <1>4, <1>5, <1>6, <1>7, <1>8 DEF IInv

(* An update: a chat that is requested afterwards is being accepted.       *)
LEMMA UpdateEncryptionKeepsIInv ==
  ASSUME IInv, UpdateEncryption
  PROVE  IInv' /\ \E o \in Sent : Steps(o, chat')
<1>1. PICK i \in 1..Len(inbox) :
        /\ inbox[i].for = "update" /\ Take(i) /\ FetchEncryptedChat(inbox[i])
        /\ accepting' = IF chat'.state = "request" THEN accepting + 1 ELSE accepting
  BY DEF UpdateEncryption
<1>2. Taken(inbox[i])
  BY <1>1, TakeProperties DEF Taken, IInv
<1>3. IInv' /\ Steps(inbox[i], chat')
  BY <1>1, <1>2, FetchKeepsIInv
  DEF UpdateEncryption, IInv, TypeOK, AbortNeedsDiscard, others, fixed
<1> QED
  BY <1>2, <1>3 DEF Taken

(* The answer to our request: the assertion it comes to can fail only if   *)
(* that is a refusal.                                                      *)
LEMMA SendEncrRequestOnAnswerKeepsIInv ==
  ASSUME IInv, SendEncrRequestOnAnswer
  PROVE  IInv' /\ \E o \in Sent : Steps(o, chat')
<1>1. PICK i \in 1..Len(inbox) :
        /\ inbox[i].for = "request" /\ 0 \in queries /\ queries' = queries \ {0}
        /\ Take(i) /\ FetchEncryptedChat(inbox[i])
        /\ aborted' = IF chat'.state \in {"deleted", "waiting"} THEN "no" ELSE "assertion"
  BY DEF SendEncrRequestOnAnswer
<1>2. Taken(inbox[i])
  BY <1>1, TakeProperties DEF Taken, IInv
<1>3. AbortNeedsDiscard'
  <2>1. CASE inbox[i].kind = "waiting"
    <3>1. chat = Initialised(NoChat)
      BY <1>1 DEF IInv, Outstanding
    <3>2. chat' = [chat EXCEPT !.state = "waiting"]
      BY <1>1, <2>1, <3>1, FirstChats DEF FetchEncryptedChat, Becomes, Fetched
    <3>3. chat'.state = "waiting"
      BY <3>2 DEF IInv, TypeOK, Chat
    <3> QED
      BY <1>1, <3>3 DEF AbortNeedsDiscard
  <2>2. CASE inbox[i].kind = "discarded"
    <3>1. srv' = "discarded"
      BY <1>2, <2>2 DEF IInv, SentFits, Taken, SendEncrRequestOnAnswer, others
    <3> QED
      BY <3>1 DEF AbortNeedsDiscard
  <2> QED
    BY <1>1, <1>2, <2>1, <2>2 DEF IInv, SentFits, Taken
<1>4. IInv' /\ Steps(inbox[i], chat')
  BY <1>1, <1>2, <1>3, FetchKeepsIInv DEF SendEncrRequestOnAnswer
<1> QED
  BY <1>2, <1>4 DEF Taken

(* The answer to our acceptance.                                           *)
LEMMA SendEncrAcceptOnAnswerKeepsIInv ==
  ASSUME IInv, SendEncrAcceptOnAnswer
  PROVE  IInv' /\ \E o \in Sent : Steps(o, chat')
<1>1. PICK i \in 1..Len(inbox) :
        /\ inbox[i].for = "accept" /\ inbox[i].fingerprint \in queries
        /\ queries' = queries \ {inbox[i].fingerprint}
        /\ Take(i) /\ FetchEncryptedChat(inbox[i])
  BY DEF SendEncrAcceptOnAnswer
<1>2. Taken(inbox[i])
  BY <1>1, TakeProperties DEF Taken, IInv
<1>3. IInv' /\ Steps(inbox[i], chat')
  BY <1>1, <1>2, FetchKeepsIInv
  DEF SendEncrAcceptOnAnswer, IInv, TypeOK, AbortNeedsDiscard, others, fixed
<1> QED
  BY <1>2, <1>3 DEF Taken

(* An answer nobody waits for is lost; it may be the refusal of a request  *)
(* made in an earlier life.                                                *)
LEMMA NoSuchQueryKeepsIInv ==
  ASSUME IInv, NoSuchQuery
  PROVE  IInv' /\ chat' = chat
<1>1. PICK i \in 1..Len(inbox) :
        inbox[i].for # "update" /\ inbox[i].fingerprint \notin queries /\ Take(i)
  BY DEF NoSuchQuery
<1> DEFINE o == inbox[i]
<1>2. /\ inbox' \in Seq(Object) /\ o \in Object /\ o \in Sent
      /\ Sent' \subseteq Sent /\ Sent \subseteq Sent' \cup {o}
      /\ overtaken' \in BOOLEAN /\ repeats' \in 0..MaxRepeats /\ Len(inbox) \in Nat
      /\ Len(inbox') = Len(inbox) - 1
  BY <1>1, TakeProperties DEF IInv
<1>3. UNCHANGED <<chat, file, creating, accepting, queries, keys, aborted, dropped,
                  requests, srv, peerKey, binlog_enabled, crashes>>
  BY DEF NoSuchQuery, client, others, fixed
<1>4. TypeOK'
  BY <1>2, <1>3 DEF IInv, TypeOK
<1>5. (Ours \/ Theirs)'
  BY <1>2, <1>3 DEF IInv, Ours, Theirs
<1>6. inbox # <<>>
  BY <1>2, EmptySeq
<1>7. SentFits'
  BY <1>2, <1>3, <1>6 DEF IInv, SentFits
<1>8. Outstanding' /\ FileFits' /\ Shape(chat)' /\ Shape(file)' /\ AbortNeedsDiscard'
  BY <1>3 DEF IInv, Outstanding, FileFits, Shape, AbortNeedsDiscard
<1>9. ASSUME NEW p \in Sent, p.for = "request", p.kind = "discarded"
      PROVE  inbox' = <<>> /\ chat.state = "none"
  <2>1. Len(inbox) = 1 /\ chat.state = "none"
    BY <1>9 DEF IInv, Refused
  <2>2. Len(inbox') = 0
    BY <1>2, <2>1
  <2> QED
    BY <1>2, <2>1, <2>2, EmptySeq
<1>10. Refused'
  BY <1>2, <1>9, EmptySeq DEF Refused, Sent
<1>11. DiscardKept'
  <2>1. CASE o.kind = "discarded"
    <3>1. o.for = "request"
      BY <1>1, <1>2, <2>1 DEF IInv, SentFits, Object
    <3> QED
      BY <1>2, <1>3, <1>9, <2>1, <3>1 DEF DiscardKept
  <2>2. CASE o.kind # "discarded"
    <3>1. (\A p \in Sent' : p.kind # "discarded") => \A p \in Sent : p.kind # "discarded"
      BY <1>2, <2>2
    <3> QED
      BY <1>3, <1>6, <3>1 DEF IInv, DiscardKept
  <2> QED
    BY <2>1, <2>2
<1> QED
  BY <1>3, <1>4, <1>5, <1>7, <1>8, <1>10, <1>11 DEF IInv

(* Our request begins when nothing is known of the chat.                   *)
LEMMA CreateEncrChatRequestKeepsIInv ==
  ASSUME IInv, CreateEncrChatRequest
  PROVE  IInv' /\ chat' = chat
<1>1. /\ srv = "none" /\ srv' = "asked" /\ creating' = TRUE
      /\ UNCHANGED <<chat, file, accepting, queries, keys, aborted, dropped, inbox, requests,
                     peerKey, binlog_enabled, crashes, overtaken, repeats>>
  BY DEF CreateEncrChatRequest, network, bounds, fixed
<1>2. /\ inbox = <<>> /\ chat = NoChat /\ file = NoChat /\ queries = {} /\ requests = {}
      /\ peerKey = 0
  BY <1>1 DEF IInv, SentFits
<1>3. accepting = 0
  BY <1>2, FirstChats DEF IInv, Outstanding, TypeOK
<1>4. Sent = {} /\ Sent' = {}
  BY <1>1, <1>2, EmptySeq DEF Sent
<1>5. TypeOK'
  BY <1>1 DEF IInv, TypeOK
<1>6. Ours'
  BY <1>1, <1>2, <1>3, <1>4, FirstChats DEF Ours
<1>7. Shape(chat)' /\ Shape(file)' /\ FileFits'
  BY <1>1, <1>2, FirstChats DEF Shape, IInv, FileFits
<1>8. Outstanding' /\ SentFits'
  BY <1>1, <1>2, <1>3, <1>4, FirstChats DEF Outstanding, SentFits
<1>9. Refused' /\ DiscardKept' /\ AbortNeedsDiscard'
  BY <1>1, <1>4 DEF IInv, Refused, DiscardKept, AbortNeedsDiscard
<1> QED
  BY <1>1, <1>5, <1>6, <1>7, <1>8, <1>9 DEF IInv

(* The chat is begun with an exponent of its own.                          *)
LEMMA SendCreateEncrChatKeepsIInv ==
  ASSUME IInv, SendCreateEncrChat
  PROVE  IInv' /\ chat'.state = chat.state
<1>1. /\ creating /\ keys < MaxKeys /\ creating' = FALSE /\ keys' = keys + 1
      /\ Becomes(Initialised(chat), TRUE)
      /\ queries' = queries \cup {0} /\ requests' = requests \cup {0}
      /\ UNCHANGED <<accepting, aborted, dropped, inbox, srv, peerKey,
                     binlog_enabled, crashes, overtaken, repeats>>
  BY DEF SendCreateEncrChat, others, bounds, fixed
<1>2. /\ srv = "asked" /\ chat = NoChat /\ queries = {} /\ requests = {} /\ inbox = <<>>
      /\ Ours
  BY <1>1 DEF IInv, Outstanding, SentFits, Theirs
<1>3. Shape(Initialised(chat)) /\ Initialised(chat) \in Chat
  BY <1>2, FirstChats DEF Shape
<1>4. /\ chat' = Initialised(NoChat) /\ file' \in Chat
      /\ Shape(chat)' /\ Shape(file)' /\ FileFits'
  BY <1>1, <1>2, <1>3, BecomesFits
<1>5. keys' \in 1..MaxKeys
  BY <1>1, ConstantsAssumption DEF IInv, TypeOK
<1>6. TypeOK'
  <2>1. chat' \in Chat /\ file' \in Chat
    BY <1>4, FirstChats
  <2>2. 0 \in 0..MaxKeys /\ keys' \in 0..MaxKeys
    BY <1>5, ConstantsAssumption
  <2> QED
    BY <1>1, <2>1, <2>2 DEF IInv, TypeOK
<1>7. Sent = {} /\ Sent' = {}
  BY <1>1, <1>2, EmptySeq DEF Sent
<1>8. Ours'
  BY <1>1, <1>2, <1>4, <1>7, FirstChats DEF Ours
<1>9. Outstanding'
  BY <1>1, <1>2, <1>4 DEF Outstanding, Ours
<1>10. SentFits'
  BY <1>1, <1>2, <1>4, <1>5, <1>7, FirstChats DEF SentFits, IInv
<1>11. Refused' /\ DiscardKept' /\ AbortNeedsDiscard'
  BY <1>1, <1>2, <1>7 DEF IInv, Refused, DiscardKept, AbortNeedsDiscard
<1> QED
  BY <1>2, <1>4, <1>6, <1>8, <1>9, <1>10, <1>11, FirstChats DEF IInv

(* The chat is accepted with a key of its own, if it has none yet; the     *)
(* pointer that is used then is null only of a chat that is deleted.       *)
LEMMA SendAcceptEncrChatKeepsIInv ==
  ASSUME IInv, SendAcceptEncrChat
  PROVE  IInv' /\ chat'.state = chat.state
<1>1. /\ accepting > 0 /\ accepting' = accepting - 1
      /\ UNCHANGED <<creating, dropped, inbox, srv, peerKey,
                     binlog_enabled, crashes, overtaken, repeats>>
  BY DEF SendAcceptEncrChat, others, bounds, fixed
<1>2. Theirs /\ accepting' \in Nat /\ Sent' = Sent
      /\ chat.state \in {"request", "ok", "deleted"}
  BY <1>1 DEF IInv, Ours, Outstanding, TypeOK, Sent
<1>3. CASE UNCHANGED <<chat, file, queries, keys, requests>> /\ (aborted' = aborted
                        \/ (aborted' = "null" /\ chat.key = NoKey /\ ~chat.g_key))
  <2>1. AbortNeedsDiscard'
    <3>1. CASE chat.key = NoKey /\ ~chat.g_key
      <4>1. chat.state = "deleted"
        BY <1>2, <3>1, KeysDiffer DEF IInv, Shape, TypeOK
      <4> QED
        BY <1>1, <4>1 DEF IInv, Shape, AbortNeedsDiscard
    <3> QED
      BY <1>1, <1>3, <3>1 DEF IInv, AbortNeedsDiscard
  <2>2. TypeOK'
    BY <1>1, <1>2, <1>3 DEF IInv, TypeOK
  <2>3. Theirs' /\ Outstanding' /\ SentFits'
    BY <1>1, <1>2, <1>3 DEF IInv, Theirs, Outstanding, SentFits
  <2>4. Shape(chat)' /\ Shape(file)' /\ FileFits' /\ Refused' /\ DiscardKept'
    BY <1>1, <1>2, <1>3 DEF IInv, Shape, FileFits, Refused, DiscardKept
  <2> QED
    BY <1>3, <2>1, <2>2, <2>3, <2>4 DEF IInv
<1>4. CASE /\ chat.key = NoKey /\ chat.g_key /\ keys < MaxKeys
           /\ keys' = keys + 1
           /\ Becomes(KeySet(chat, keys'), FALSE)
           /\ queries' = queries \cup {keys'} /\ requests' = requests \cup {keys'}
           /\ UNCHANGED aborted
  <2> DEFINE c == KeySet(chat, keys')
  <2>1. keys' \in 1..MaxKeys /\ Shared(keys') \in Key
    <3>1. keys' \in 1..MaxKeys
      BY <1>4, ConstantsAssumption DEF IInv, TypeOK
    <3> QED
      BY <3>1, KeysDiffer
  <2>2. chat.state = "request" /\ chat.fingerprint = 0
    BY <1>2, <1>4, KeysDiffer DEF IInv, Shape, TypeOK, Chat
  <2>3. /\ c \in Chat /\ c.state = "request" /\ c.key = Shared(keys') /\ c.g_key
        /\ c.created /\ c.fingerprint = keys'
    <3>1. chat \in Chat /\ chat.created
      BY <2>2 DEF IInv, TypeOK, Shape
    <3>2. keys' \in 0..MaxKeys
      BY <2>1
    <3> QED
      BY <1>4, <2>1, <2>2, <3>1, <3>2 DEF KeySet, Chat
  <2> HIDE DEF c
  <2>4. Shape(c)
    BY <2>1, <2>3 DEF Shape
  <2>5. Becomes(c, FALSE)
    BY <1>4 DEF c
  <2>6. chat' = c /\ file' \in Chat /\ Shape(chat)' /\ Shape(file)' /\ FileFits'
    BY <1>1, <2>2, <2>3, <2>4, <2>5, BecomesFits
  <2>7. queries = {}
    BY <1>2, <2>2 DEF IInv, Outstanding, Theirs
  <2>8. TypeOK'
    BY <1>1, <1>2, <1>4, <2>1, <2>3, <2>6 DEF IInv, TypeOK
  <2>9. c # Initialised(NoChat)
    BY <2>3, FirstChats
  <2>10. Theirs'
    BY <1>1, <1>2, <1>4, <2>1, <2>3, <2>6, <2>9 DEF Theirs
  <2>11. Outstanding'
    BY <1>1, <1>2, <1>4, <2>1, <2>3, <2>6, <2>7 DEF Outstanding, Theirs
  <2>12. srv \notin {"none", "asked", "waiting"}
    BY <1>2, <2>2, FirstChats DEF IInv, SentFits, Theirs
  <2>13. SentFits'
    BY <1>1, <1>2, <1>4, <2>1, <2>6, <2>3, <2>12 DEF IInv, SentFits, Theirs
  <2>14. Refused' /\ DiscardKept' /\ AbortNeedsDiscard'
    BY <1>1, <1>2, <1>4, <2>2, <2>12 DEF IInv, Refused, DiscardKept, AbortNeedsDiscard
  <2> QED
    BY <2>2, <2>3, <2>6, <2>8, <2>10, <2>11, <2>13, <2>14 DEF IInv
<1> QED
  BY <1>3, <1>4 DEF SendAcceptEncrChat

(* A restart finds a chat that fits what the server knows.                 *)
LEMMA RestartKeepsIInv ==
  ASSUME IInv, Restart
  PROVE  IInv' /\ crashes' # crashes
<1>1. /\ crashes < MaxCrashes /\ crashes' = crashes + 1 /\ chat' = file
      /\ creating' = FALSE /\ accepting' = 0 /\ queries' = {} /\ aborted' = "no"
      /\ UNCHANGED <<file, keys, dropped, inbox, requests, srv, peerKey, overtaken,
                     binlog_enabled, repeats>>
  BY DEF Restart, network, others
<1>2. /\ file.state = chat.state \/ (file = NoChat /\ chat.state \in {"none", "deleted"})
      /\ file = Initialised(NoChat) => chat = Initialised(NoChat)
  BY FileStates DEF IInv
<1>3. Sent' = Sent
  BY <1>1 DEF Sent
<1>4. crashes' \in 0..MaxCrashes /\ crashes' > 0 /\ crashes' # crashes
  BY <1>1, ConstantsAssumption DEF IInv, TypeOK
<1>5. TypeOK'
  <2>1. creating' \in BOOLEAN /\ accepting' \in Nat /\ queries' \subseteq 0..MaxKeys
    BY <1>1
  <2> QED
    BY <1>1, <1>4, <2>1 DEF IInv, TypeOK
<1>6. Shape(chat)' /\ Shape(file)'
  BY <1>1 DEF IInv, Shape
<1>7. (Ours \/ Theirs)'
  <2>1. CASE Ours
    <3>1. file.state # "request"
      BY <1>2, <2>1, FirstChats DEF Ours
    <3> QED
      BY <1>1, <1>3, <2>1, <3>1 DEF Ours
  <2>2. CASE Theirs
    BY <1>1, <1>2, <1>3, <2>2, FirstChats DEF Theirs
  <2> QED
    BY <2>1, <2>2 DEF IInv
<1>8. Outstanding'
  BY <1>1 DEF Outstanding
<1>9. SentFits'
  BY <1>1, <1>2, <1>3, FirstChats DEF IInv, SentFits
<1>10. FileFits'
  <2>1. CASE binlog_enabled
    BY <1>1, <2>1 DEF FileFits
  <2>2. CASE ~binlog_enabled /\ file.state = "request"
    BY <1>1, <2>2 DEF FileFits
  <2>3. CASE ~binlog_enabled /\ file = Written(chat) /\ file.state # "request"
    <3>1. CASE file = NoChat
      BY <1>1, <2>3, <3>1, FirstChats DEF FileFits, Written
    <3>2. CASE file # NoChat
      <4>1. file = [chat EXCEPT !.g_key = chat.state # "waiting"]
        BY <2>3, <3>2 DEF Written
      <4>2. file.state = chat.state /\ chat.state \notin {"none", "deleted"}
            /\ file = [file EXCEPT !.g_key = file.state # "waiting"]
        BY <2>3, <3>2, <4>1 DEF Written, IInv, TypeOK, Chat
      <4>3. file = Written(file)
        BY <4>2 DEF Written
      <4> QED
        BY <1>1, <2>3, <4>3 DEF FileFits
    <3> QED
      BY <3>1, <3>2
  <2> QED
    BY <2>1, <2>2, <2>3 DEF IInv, FileFits
<1>11. Refused'
  BY <1>1, <1>2, <1>3, FirstChats DEF IInv, Refused
<1>12. DiscardKept'
  <2>1. CASE binlog_enabled
    <3>1. chat' = chat
      BY <1>1, <2>1 DEF IInv, FileFits
    <3> QED
      BY <1>1, <1>3, <2>1, <3>1 DEF IInv, DiscardKept
  <2>2. CASE ~binlog_enabled
    BY <1>1, <1>4, <2>2 DEF DiscardKept
  <2> QED
    BY <2>1, <2>2
<1>13. AbortNeedsDiscard'
  BY <1>1 DEF AbortNeedsDiscard
<1> QED
  BY <1>4, <1>5, <1>6, <1>7, <1>8, <1>9, <1>10, <1>11, <1>12, <1>13 DEF IInv

-----------------------------------------------------------------------------
(* The server and the peer                                                 *)

(* The steps of the server and the peer leave the client alone.            *)
LEMMA ExternalKeepsClient ==
  ASSUME PeerRequests \/ ServerTakesRequest \/ PeerAccepts \/ ServerTakesAccept
         \/ PeerDiscards
  PROVE  UNCHANGED <<chat, file, creating, accepting, queries, keys, aborted, dropped,
                     overtaken, binlog_enabled, repeats, crashes>>
BY DEF PeerRequests, ServerTakesRequest, PeerAccepts, ServerTakesAccept, PeerDiscards,
   client, bounds, fixed

(* What the server goes to, the key the peer has and what has been sent    *)
(* must fit; the rest of the invariant follows.                            *)
LEMMA ExternalKeepsIInv ==
  ASSUME IInv,
         UNCHANGED <<chat, file, creating, accepting, queries, keys, aborted, dropped,
                     overtaken, binlog_enabled, repeats, crashes>>,
         NEW o \in Object, Send(o),
         requests' \subseteq requests, peerKey' \in 0..MaxKeys,
         srv' \in {"waiting", "requested", "ok", "discarded"},
         srv = "discarded" => srv' = "discarded",
         srv = "ok" => srv' \in {"ok", "discarded"},
         srv \in {"ok", "discarded"} => peerKey' = peerKey,
         ~creating, 0 \notin requests',
         (Ours \/ Theirs)', SentFits', Refused',
         srv' = "discarded" => o.kind = "discarded"
  PROVE  IInv'
<1>1. inbox' \in Seq(Object) /\ Sent' = Sent \cup {o}
  BY SendProperties DEF IInv
<1>2. TypeOK'
  BY <1>1 DEF IInv, TypeOK
<1>3. Shape(chat)' /\ Shape(file)'
  BY DEF IInv, Shape
<1>4. Outstanding' /\ FileFits' /\ AbortNeedsDiscard'
  BY DEF IInv, Outstanding, FileFits, AbortNeedsDiscard
<1>5. DiscardKept'
  BY <1>1 DEF DiscardKept
<1> QED
  BY <1>2, <1>3, <1>4, <1>5 DEF IInv

(* A request of the peer's finds no chat.                                  *)
LEMMA PeerRequestsKeepsIInv ==
  ASSUME IInv, PeerRequests
  PROVE  IInv'
<1> DEFINE o == Obj("update", "requested", 0)
<1>1. /\ srv = "none" /\ srv' = "requested" /\ Send(o) /\ requests' = requests
      /\ peerKey' = peerKey
      /\ UNCHANGED <<chat, file, creating, accepting, queries, keys, aborted, dropped,
                     overtaken, binlog_enabled, repeats, crashes>>
  BY ExternalKeepsClient DEF PeerRequests
<1>2. o \in Object /\ o.for = "update" /\ o.kind = "requested"
  BY ConstantsAssumption DEF Obj, Object
<1> HIDE DEF o
<1>3. /\ inbox = <<>> /\ chat = NoChat /\ queries = {} /\ requests = {} /\ ~creating
      /\ peerKey = 0 /\ peerKey \in 0..MaxKeys
  BY <1>1 DEF IInv, SentFits, Outstanding, TypeOK
<1>4. Sent = {} /\ Sent' = {o}
  BY <1>1, <1>2, <1>3, SendProperties, EmptySeq DEF IInv, Sent
<1>5. Theirs'
  BY <1>1, <1>2, <1>3, <1>4, FirstChats DEF Theirs
<1>6. SentFits'
  BY <1>1, <1>2, <1>3, <1>4 DEF SentFits
<1>7. Refused'
  BY <1>2, <1>4 DEF Refused
<1> QED
  BY <1>1, <1>2, <1>3, <1>5, <1>6, <1>7, ExternalKeepsIInv

(* Our request is taken, or refused.                                       *)
LEMMA ServerTakesRequestKeepsIInv ==
  ASSUME IInv, ServerTakesRequest
  PROVE  IInv'
<1>1. /\ srv = "asked" /\ 0 \in requests /\ requests' = requests \ {0}
      /\ peerKey' = peerKey
      /\ UNCHANGED <<chat, file, creating, accepting, queries, keys, aborted, dropped,
                     overtaken, binlog_enabled, repeats, crashes>>
  BY ExternalKeepsClient DEF ServerTakesRequest
<1>2. PICK o \in Object :
        /\ Send(o) /\ o.for = "request"
        /\ \/ srv' = "waiting" /\ o.kind = "waiting"
           \/ srv' = "discarded" /\ o.kind = "discarded"
  <2>1. \A k \in {"waiting", "discarded"} :
          /\ Obj("request", k, 0) \in Object
          /\ Obj("request", k, 0).for = "request" /\ Obj("request", k, 0).kind = k
    BY ConstantsAssumption DEF Obj, Object
  <2> QED
    BY <2>1 DEF ServerTakesRequest
<1>3. /\ inbox = <<>> /\ chat.state = "none" /\ peerKey = 0 /\ ~creating /\ keys > 0 /\ Ours
      /\ peerKey \in 0..MaxKeys
  BY <1>1 DEF IInv, SentFits, Outstanding, Theirs, TypeOK
<1>4. Sent = {} /\ Sent' = {o} /\ Len(inbox') = 1
  BY <1>2, <1>3, SendProperties, EmptySeq DEF IInv, Sent
<1>5. Ours'
  BY <1>1, <1>2, <1>3, <1>4 DEF Ours
<1>6. SentFits'
  BY <1>1, <1>2, <1>3, <1>4 DEF SentFits
<1>7. Refused'
  BY <1>1, <1>3, <1>4 DEF Refused
<1> QED
  BY <1>1, <1>2, <1>3, <1>5, <1>6, <1>7, ExternalKeepsIInv DEF Ours

(* The peer accepts what we requested, with the key of our only exponent.  *)
LEMMA PeerAcceptsKeepsIInv ==
  ASSUME IInv, PeerAccepts
  PROVE  IInv'
<1> DEFINE o == Obj("update", "chat", 1)
<1>1. /\ srv = "waiting" /\ srv' = "ok" /\ Send(o) /\ requests' = requests /\ peerKey' = 1
      /\ UNCHANGED <<chat, file, creating, accepting, queries, keys, aborted, dropped,
                     overtaken, binlog_enabled, repeats, crashes>>
  BY ExternalKeepsClient DEF PeerAccepts
<1>2. keys > 0 /\ ~creating /\ Ours /\ 0 \notin requests
  BY <1>1 DEF IInv, SentFits, Outstanding, Theirs
<1>3. 1 \in 0..MaxKeys
  BY <1>2, ConstantsAssumption DEF IInv, TypeOK
<1>4. o \in Object /\ o.for = "update" /\ o.kind = "chat" /\ o.fingerprint = 1
  BY <1>3 DEF Obj, Object
<1> HIDE DEF o
<1>5. Sent' = Sent \cup {o}
  BY <1>1, <1>4, SendProperties DEF IInv
<1>6. Ours'
  BY <1>1, <1>2, <1>4, <1>5 DEF Ours
<1>7. SentFits'
  BY <1>1, <1>2, <1>4, <1>5 DEF IInv, SentFits
<1>8. Refused'
  BY <1>1, <1>4, <1>5 DEF IInv, SentFits, Refused
<1> QED
  BY <1>1, <1>2, <1>3, <1>4, <1>6, <1>7, <1>8, ExternalKeepsIInv

(* Our acceptance is taken while the chat is requested, with its key.      *)
LEMMA ServerTakesAcceptKeepsIInv ==
  ASSUME IInv, ServerTakesAccept
  PROVE  IInv'
<1>0. UNCHANGED <<chat, file, creating, accepting, queries, keys, aborted, dropped,
                  overtaken, binlog_enabled, repeats, crashes>>
  BY ExternalKeepsClient
<1>1. PICK n \in requests \ {0} :
        /\ requests' = requests \ {n}
        /\ IF srv = "requested"
           THEN srv' = "ok" /\ peerKey' = n /\ Send(Obj("accept", "chat", n))
           ELSE UNCHANGED <<srv, peerKey, inbox>>
  BY DEF ServerTakesAccept
<1>2. Theirs /\ n \in 1..MaxKeys /\ n # 0
  BY <1>1, ConstantsAssumption DEF IInv, Ours, TypeOK
<1>3. CASE srv = "requested"
  <2> DEFINE o == Obj("accept", "chat", n)
  <2>1. o \in Object /\ o.for = "accept" /\ o.kind = "chat" /\ o.fingerprint = n
    BY <1>2 DEF Obj, Object
  <2>2. srv' = "ok" /\ peerKey' = n /\ Send(o)
    BY <1>1, <1>3
  <2> HIDE DEF o
  <2>3. Sent' = Sent \cup {o}
    BY <2>1, <2>2, SendProperties DEF IInv
  <2>4. \A p \in Sent : p.kind # "chat" /\ p.kind # "discarded"
    BY <1>3 DEF IInv, SentFits
  <2>5. Theirs'
    BY <1>0, <1>1, <1>2, <2>1, <2>2, <2>3 DEF Theirs
  <2>6. SentFits'
    BY <1>0, <1>1, <1>2, <1>3, <2>1, <2>2, <2>3, <2>4 DEF IInv, SentFits, Theirs
  <2>7. Refused'
    BY <2>1, <2>3, <2>4 DEF Refused
  <2>8. requests' \subseteq requests /\ 0 \notin requests' /\ ~creating /\ peerKey' \in 0..MaxKeys
    BY <1>1, <1>2, <2>2 DEF Theirs
  <2> QED
    BY <1>0, <1>3, <2>1, <2>2, <2>5, <2>6, <2>7, <2>8, ExternalKeepsIInv
<1>4. CASE srv # "requested"
  <2>1. /\ srv' = srv /\ peerKey' = peerKey /\ inbox' = inbox /\ Sent' = Sent
        /\ requests' \subseteq requests
    BY <1>1, <1>4 DEF Sent
  <2>2. TypeOK' /\ Shape(chat)' /\ Shape(file)' /\ FileFits'
    BY <1>0, <2>1 DEF IInv, TypeOK, Shape, FileFits
  <2>3. Theirs' /\ SentFits'
    BY <1>0, <1>2, <2>1 DEF IInv, Theirs, SentFits
  <2>4. Outstanding'
    BY <1>0, <1>2, <2>1 DEF IInv, Theirs, Outstanding
  <2>5. Refused' /\ DiscardKept' /\ AbortNeedsDiscard'
    BY <1>0, <2>1 DEF IInv, Refused, DiscardKept, AbortNeedsDiscard
  <2> QED
    BY <2>2, <2>3, <2>4, <2>5 DEF IInv
<1> QED
  BY <1>3, <1>4

(* A discard of the peer's is sent, and not yet handled.                   *)
LEMMA PeerDiscardsKeepsIInv ==
  ASSUME IInv, PeerDiscards
  PROVE  IInv'
<1> DEFINE o == Obj("update", "discarded", 0)
<1>1. /\ srv \in {"waiting", "requested", "ok"} /\ srv' = "discarded" /\ Send(o)
      /\ requests' = requests /\ peerKey' = peerKey
      /\ UNCHANGED <<chat, file, creating, accepting, queries, keys, aborted, dropped,
                     overtaken, binlog_enabled, repeats, crashes>>
  BY ExternalKeepsClient DEF PeerDiscards
<1>2. o \in Object /\ o.for = "update" /\ o.kind = "discarded"
  BY ConstantsAssumption DEF Obj, Object
<1> HIDE DEF o
<1>3. Sent' = Sent \cup {o}
  BY <1>1, <1>2, SendProperties DEF IInv
<1>4. ~creating /\ 0 \notin requests /\ peerKey \in 0..MaxKeys
  BY <1>1 DEF IInv, Outstanding, SentFits, TypeOK
<1>5. (Ours \/ Theirs)'
  BY <1>1, <1>2, <1>3 DEF IInv, Ours, Theirs
<1>6. SentFits'
  BY <1>1, <1>2, <1>3, <1>4 DEF IInv, SentFits
<1>7. Refused'
  BY <1>1, <1>2, <1>3 DEF IInv, SentFits, Refused
<1> QED
  BY <1>1, <1>2, <1>4, <1>5, <1>6, <1>7, ExternalKeepsIInv

-----------------------------------------------------------------------------
(* The theorems                                                            *)

(* What Forward says of a step.                                            *)
GoesForward ==
  \/ crashes' # crashes
  \/ chat'.state = chat.state
  \/ chat.state = "none" /\ chat'.state \in {"waiting", "request"}
  \/ chat.state \in {"waiting", "request"} /\ chat'.state \in {"ok", "deleted"}
  \/ chat.state = "ok" /\ chat'.state = "deleted"

(* Every step keeps the invariant, and but for a restart the chat only     *)
(* goes forward.                                                           *)
LEMMA NextIInv == IInv /\ [Next]_vars => IInv' /\ (GoesForward \/ UNCHANGED vars)
<1> SUFFICES ASSUME IInv, [Next]_vars
             PROVE  IInv' /\ (GoesForward \/ UNCHANGED vars)
  OBVIOUS
<1>0. ASSUME NEW o, Steps(o, chat') PROVE GoesForward
  BY <1>0, FirstChats DEF Steps, GoesForward, IInv, TypeOK, Chat, SecretChatState
<1>1. CASE UpdateEncryption
  BY <1>0, <1>1, UpdateEncryptionKeepsIInv
<1>2. CASE SendEncrRequestOnAnswer
  BY <1>0, <1>2, SendEncrRequestOnAnswerKeepsIInv
<1>3. CASE SendEncrAcceptOnAnswer
  BY <1>0, <1>3, SendEncrAcceptOnAnswerKeepsIInv
<1>4. CASE NoSuchQuery
  BY <1>4, NoSuchQueryKeepsIInv DEF GoesForward
<1>5. CASE CreateEncrChatRequest
  BY <1>5, CreateEncrChatRequestKeepsIInv DEF GoesForward
<1>6. CASE SendCreateEncrChat
  BY <1>6, SendCreateEncrChatKeepsIInv DEF GoesForward
<1>7. CASE SendAcceptEncrChat
  BY <1>7, SendAcceptEncrChatKeepsIInv DEF GoesForward
<1>8. CASE Restart
  BY <1>8, RestartKeepsIInv DEF GoesForward
<1>9. CASE PeerRequests
  BY <1>9, PeerRequestsKeepsIInv, ExternalKeepsClient DEF GoesForward
<1>10. CASE ServerTakesRequest
  BY <1>10, ServerTakesRequestKeepsIInv, ExternalKeepsClient DEF GoesForward
<1>11. CASE PeerAccepts
  BY <1>11, PeerAcceptsKeepsIInv, ExternalKeepsClient DEF GoesForward
<1>12. CASE ServerTakesAccept
  BY <1>12, ServerTakesAcceptKeepsIInv, ExternalKeepsClient DEF GoesForward
<1>13. CASE PeerDiscards
  BY <1>13, PeerDiscardsKeepsIInv, ExternalKeepsClient DEF GoesForward
<1>14. CASE UNCHANGED vars
  <2>1. IInv'
    BY <1>14 DEF vars, client, network, others, bounds, fixed, IInv, TypeOK, Shape, Ours,
       Theirs, Outstanding, SentFits, FileFits, Refused, DiscardKept, AbortNeedsDiscard, Sent
  <2> QED
    BY <1>14, <2>1
<1> QED
  BY <1>1, <1>2, <1>3, <1>4, <1>5, <1>6, <1>7, <1>8, <1>9, <1>10, <1>11, <1>12, <1>13, <1>14
  DEF Next

(* The invariant holds in every state.                                     *)
LEMMA IInvAlways == Spec => []IInv
BY InitIInv, NextIInv, PTL DEF Spec

(* A chat established here has the key of the peer, and the handlers abort *)
(* only over a chat that was discarded, whatever is repeated, overtaken or *)
(* lost in a restart (fetch_encrypted_chat, do_send_accept_encr_chat,      *)
(* send_encr_request_on_answer).                                           *)
THEOREM ChatIsRight == Spec => []ChatRight
<1>1. IInv => ChatRight
  <2> SUFFICES ASSUME IInv PROVE ChatRight
    OBVIOUS
  <2>1. peerKey # 0 => peerKey \in 1..MaxKeys
    BY ConstantsAssumption DEF IInv, TypeOK
  <2> QED
    BY <2>1 DEF IInv, Shape, ChatRight, OkKeysAgree
<1> QED
  BY <1>1, IInvAlways, PTL

(* What a restart finds of a chat that waits or is established is the      *)
(* chat, from the event log or from the secret chat file.                  *)
THEOREM KeysAreDurable == Spec => []Durable
<1>1. IInv => Durable
  BY FileStates DEF IInv, Durable
<1> QED
  BY <1>1, IInvAlways, PTL

(* A discard that was handled is remembered for good, unless it came       *)
(* before the chat had a state, or a restart found only the file.          *)
THEOREM DiscardsAreRemembered == Spec => []DiscardRemembered
<1>1. IInv => DiscardRemembered
  BY DEF IInv, DiscardKept, DiscardRemembered, Sent
<1> QED
  BY <1>1, IInvAlways, PTL

(* No late object brings back an earlier state of a chat.                  *)
THEOREM ChatsGoForward == Spec => Forward
<1>1. IInv /\ [Next]_vars => [GoesForward]_vars
  BY NextIInv
<1> QED
  BY <1>1, IInvAlways, PTL DEF Spec, Forward, GoesForward
=============================================================================
