------------------------- MODULE MessageStoreProofs -------------------------
(***************************************************************************)
(* What holds of MessageStore for every set of messages and all bounds.    *)
(* The lemmas on the events say what each makes of the fields of a store;  *)
(* they are used twice, for the structures and for what the log would      *)
(* build.  IInv is inductive, with a lemma for each action.                *)
(***************************************************************************)
EXTENDS MessageStore, TLAPS

-----------------------------------------------------------------------------
(* Stores                                                                  *)

(* The cells of messages of ours and of the peer's are no numbers.         *)
LEMMA Cells ==
  /\ 0 \notin Cell /\ \A c \in Local \cup Incoming : c \in Cell /\ c \notin Nat
  /\ \A i \in 1..MaxId : i \in Cell /\ i \notin Local /\ i \notin Incoming /\ i \in Nat
  /\ \A c \in Cell : c \notin Nat => c \in Local \cup Incoming
  /\ Plain \subseteq Local /\ Encrypted \subseteq Local /\ Local \cap Incoming = {}
  /\ Plain \cap Encrypted = {} /\ \A m \in Local : m \in Plain \/ m \in Encrypted
BY ConstantsAssumption DEF Cell, Plain

(* A store with no messages.                                               *)
LEMMA EmptyStoreFields ==
  /\ EmptyStore \in Store /\ ~EmptyStore.failed
  /\ EmptyStore.tree = {} /\ EmptyStore.created = {} /\ EmptyStore.pending = {}
  /\ EmptyStore.unsent = {} /\ EmptyStore.unread = {} /\ EmptyStore.listed = {}
  /\ EmptyStore.use = {} /\ \A c \in Cell : EmptyStore.id[c] = c
BY DEF EmptyStore, Store

(* A pending message has its own id, and no other has it.                  *)
LEMMA PendingHasOwnId ==
  ASSUME NEW s, Consistent(s), NEW m \in s.pending
  PROVE  /\ m \in Local /\ m \in Cell /\ m \in s.tree /\ m \in s.created /\ m \in s.unsent
         /\ s.id[m] = m /\ Found(s, m) = {m}
<1>1. m \in Local /\ m \in Cell /\ m \in s.tree /\ m \in s.created /\ m \in s.unsent
  BY Cells DEF Consistent
<1>2. s.id[m] = m
  BY <1>1 DEF Consistent
<1>3. Found(s, m) = {m}
  BY <1>1, <1>2 DEF Consistent, Found
<1> QED
  BY <1>1, <1>2, <1>3

-----------------------------------------------------------------------------
(* The events: t is what an event makes of s                               *)

Sends(s, t, m) ==
  /\ t \in Store /\ ~t.failed /\ t.id = s.id
  /\ t.tree = s.tree \cup {m} /\ t.created = s.created \cup {m}
  /\ t.pending = s.pending \cup {m} /\ t.unsent = s.unsent \cup {m}
  /\ t.unread = s.unread \cup {m} /\ t.listed = s.listed \cup {m}
  /\ t.use = s.use \cup {m}

Creates(s, t, c, unread) ==
  /\ t \in Store /\ ~t.failed /\ t.id = s.id
  /\ t.tree = s.tree \cup {c} /\ t.created = s.created \cup {c}
  /\ t.pending = s.pending /\ t.unsent = s.unsent
  /\ t.unread = IF unread THEN s.unread \cup {c} ELSE s.unread \ {c}
  /\ t.listed = s.listed \cup {c} /\ t.use = s.use \cup {c}

Reads(s, t, i) ==
  /\ t \in Store /\ ~t.failed /\ t.id = s.id
  /\ t.tree = s.tree /\ t.created = s.created
  /\ t.pending = s.pending /\ t.unsent = s.unsent
  /\ t.unread = s.unread \ Found(s, i)
  /\ t.listed = s.listed /\ t.use = s.use

Sents(s, t, m) ==
  /\ t \in Store /\ ~t.failed /\ t.id = s.id
  /\ t.tree = s.tree /\ t.created = s.created
  /\ t.pending = s.pending \ {m} /\ t.unsent = s.unsent \ {m}
  /\ t.unread = s.unread /\ t.listed = s.listed /\ t.use = s.use

Deletes(s, t, m) ==
  /\ t \in Store /\ ~t.failed /\ t.id = s.id
  /\ t.tree = s.tree \ {m} /\ t.created = s.created \ {m}
  /\ t.pending = s.pending \ {m} /\ t.unsent = s.unsent \ {m}
  /\ t.unread = s.unread \ {m} /\ t.listed = s.listed \ {m}
  /\ t.use = s.use \ {m}

Renames(s, t, m, new) ==
  LET merged == \E c \in s.tree \ {m} : s.id[c] = new
  IN  /\ t \in Store /\ ~t.failed
      /\ t.id = [c \in Cell |-> IF c = m THEN new ELSE s.id[c]]
      /\ t.pending = s.pending \ {m} /\ t.unsent = s.unsent \ {m}
      /\ t.use = s.use
      /\ merged => /\ t.tree = s.tree \ {m} /\ t.created = s.created \ {m}
                   /\ t.listed = s.listed \ {m} /\ t.unread = s.unread \ {m}
      /\ ~merged => /\ t.tree = s.tree /\ t.created = s.created
                    /\ t.listed = s.listed /\ t.unread = s.unread

(* binlog_send_message_text                                                *)
LEMMA SendTextFields ==
  ASSUME NEW s \in Store, NEW m \in Cell,
         ~s.failed, \A d \in s.listed : s.id[d] # s.id[m]
  PROVE  Sends(s, SendText(s, m), m)
BY DEF Sends, SendText, Inserted, Store

(* binlog_create_message_text and its kin                                  *)
LEMMA CreateFields ==
  ASSUME NEW s \in Store, NEW c \in Cell, NEW unread \in BOOLEAN,
         ~s.failed, Found(s, c) \cap s.created = {}, \A d \in s.listed : s.id[d] # s.id[c]
  PROVE  Creates(s, Create(s, c, unread), c, unread)
BY DEF Creates, Create, Inserted, Store

(* binlog_set_unread                                                       *)
LEMMA SetReadFields ==
  ASSUME NEW s \in Store, NEW i, ~s.failed, Found(s, i) # {}
  PROVE  Reads(s, SetRead(s, i), i)
BY DEF Reads, SetRead, Store

(* binlog_set_message_sent, of a pending message                           *)
LEMMA SetSentFields ==
  ASSUME NEW s, Consistent(s), NEW m \in s.pending
  PROVE  Sents(s, SetSent(s, m), m)
<1>1. Found(s, m) = {m} /\ m \in s.unsent /\ s \in Store /\ ~s.failed
  BY PendingHasOwnId DEF Consistent
<1> QED
  BY <1>1 DEF Sents, SetSent, RemovedUnsent, Store

(* binlog_delete_msg, of a pending message                                 *)
LEMMA DeleteMsgFields ==
  ASSUME NEW s, Consistent(s), NEW m \in s.pending
  PROVE  Deletes(s, DeleteMsg(s, m), m)
<1>1. Found(s, m) = {m} /\ m \in s.unsent /\ s \in Store /\ ~s.failed
  BY PendingHasOwnId DEF Consistent
<1>2. Found(s, m) \cap s.pending = {m}
  BY <1>1
<1> DEFINE r == RemovedUnsent(s, {m})
<1>3. /\ r \in Store /\ ~r.failed /\ r.tree = s.tree /\ r.id = s.id /\ r.created = s.created
      /\ r.pending = s.pending \ {m} /\ r.unsent = s.unsent \ {m} /\ r.unread = s.unread
      /\ r.listed = s.listed /\ r.use = s.use
  BY <1>1 DEF RemovedUnsent, Store
<1>4. DeleteMsg(s, m) =
        [r EXCEPT !.tree = @ \ {m}, !.listed = @ \ {m}, !.use = @ \ {m}, !.created = @ \ {m},
                  !.unread = @ \ {m}, !.failed = @ \/ {m} = {}]
  BY <1>1, <1>2 DEF DeleteMsg
<1> DEFINE t == DeleteMsg(s, m)
<1> HIDE DEF r, t
<1>5. t = [r EXCEPT !.tree = @ \ {m}, !.listed = @ \ {m}, !.use = @ \ {m},
                    !.created = @ \ {m}, !.unread = @ \ {m}]
  <2>1. r.failed \/ {m} = {} <=> r.failed
    OBVIOUS
  <2>2. r = [r EXCEPT !.failed = r.failed \/ {m} = {}]
    BY <1>3, <2>1 DEF Store
  <2> QED
    BY <1>3, <1>4, <2>1, <2>2 DEF t, Store
<1>6. /\ t \in Store /\ ~t.failed /\ t.id = r.id
      /\ t.tree = r.tree \ {m} /\ t.created = r.created \ {m}
      /\ t.pending = r.pending /\ t.unsent = r.unsent
      /\ t.unread = r.unread \ {m} /\ t.listed = r.listed \ {m} /\ t.use = r.use \ {m}
  BY <1>3, <1>5 DEF Store
<1> QED
  BY <1>3, <1>6 DEF t, Deletes

(* binlog_set_msg_id, of a pending message: whether a message with the new *)
(* id is there decides what becomes of it.                                 *)
LEMMA SetMsgIdFields ==
  ASSUME NEW s, Consistent(s), NEW m \in s.pending, NEW new \in Cell, new # m
  PROVE  Renames(s, SetMsgId(s, m, new), m, new)
<1> DEFINE r == RemovedUnsent(s, {m})
           u == [r EXCEPT !.tree = @ \ {m}, !.listed = @ \ {m},
                     !.id = [c \in Cell |-> IF c \in {m} THEN new ELSE @[c]],
                     !.failed = @ \/ {m} = {}]
           merged == \E c \in s.tree \ {m} : s.id[c] = new
<1>1. /\ Found(s, m) = {m} /\ m \in s.unsent /\ s \in Store /\ ~s.failed /\ m \in Cell
      /\ m \in s.tree /\ m \in s.created /\ m \in s.listed
  BY PendingHasOwnId DEF Consistent
<1>2. Found(s, m) \cap s.pending = {m}
  BY <1>1
<1>3. /\ r \in Store /\ ~r.failed /\ r.tree = s.tree /\ r.id = s.id /\ r.created = s.created
      /\ r.pending = s.pending \ {m} /\ r.unsent = s.unsent \ {m} /\ r.unread = s.unread
      /\ r.listed = s.listed /\ r.use = s.use
  BY <1>1 DEF RemovedUnsent, Store
<1>4. SetMsgId(s, m, new) =
        IF Found(u, new) # {} THEN [u EXCEPT !.created = @ \ {m}, !.unread = @ \ {m}]
        ELSE [u EXCEPT !.tree = @ \cup {m}, !.listed = @ \cup {m},
                       !.failed = @ \/ \E d \in u.listed : u.id[d] = new]
  BY <1>1, <1>2 DEF SetMsgId
<1> HIDE DEF r
<1>5. /\ u \in Store /\ ~u.failed /\ u.tree = s.tree \ {m} /\ u.listed = s.listed \ {m}
      /\ u.id = [c \in Cell |-> IF c = m THEN new ELSE s.id[c]] /\ u.created = s.created
      /\ u.pending = s.pending \ {m} /\ u.unsent = s.unsent \ {m} /\ u.unread = s.unread
      /\ u.use = s.use
  BY <1>1, <1>3 DEF Store
<1> HIDE DEF u
<1>6. Found(u, new) # {} <=> merged
  <2>1. s.tree \subseteq Cell
    BY <1>1 DEF Store
  <2> QED
    BY <1>5, <2>1 DEF Found
<1>7. CASE merged
  <2>1. SetMsgId(s, m, new) = [u EXCEPT !.created = @ \ {m}, !.unread = @ \ {m}]
    BY <1>4, <1>6, <1>7
  <2> QED
    BY <1>5, <1>7, <2>1 DEF Store, Renames
<1>8. CASE ~merged
  <2>1. ~\E d \in u.listed : u.id[d] = new
    BY <1>1, <1>5, <1>8 DEF Consistent, Store
  <2>2. SetMsgId(s, m, new) = [u EXCEPT !.tree = @ \cup {m}, !.listed = @ \cup {m},
                                        !.failed = FALSE]
    BY <1>4, <1>5, <1>6, <1>8, <2>1
  <2>3. s.tree = u.tree \cup {m} /\ s.listed = u.listed \cup {m}
    BY <1>1, <1>5
  <2> DEFINE t == SetMsgId(s, m, new)
  <2> HIDE DEF t
  <2>4. t = [u EXCEPT !.tree = @ \cup {m}, !.listed = @ \cup {m}, !.failed = FALSE]
    BY <2>2 DEF t
  <2>5. m \in Cell
    BY <1>1
  <2>6. /\ t \in Store /\ ~t.failed /\ t.tree = u.tree \cup {m} /\ t.listed = u.listed \cup {m}
        /\ t.id = u.id /\ t.created = u.created /\ t.pending = u.pending
        /\ t.unsent = u.unsent /\ t.unread = u.unread /\ t.use = u.use
    BY <1>5, <2>4, <2>5 DEF Store
  <2> QED
    BY <1>5, <1>8, <2>3, <2>6 DEF t, Renames
<1> QED
  BY <1>7, <1>8 DEF Renames

-----------------------------------------------------------------------------
(* The log                                                                 *)

(* What the log would build is a consistent store too.                     *)
LEMMA LogConsistent ==
  ASSUME IInv
  PROVE  Consistent(logged)
<1>1. CASE binlog_enabled
  BY <1>1 DEF IInv, LogFits, Logs, Consistent
<1>2. CASE ~binlog_enabled
  BY <1>2, EmptyStoreFields DEF IInv, LogFits, Consistent
<1> QED
  BY <1>1, <1>2

(* What the log would build follows the structures, event by event.        *)
LEMMA SendFollows ==
  ASSUME NEW s, NEW t, NEW l, NEW k, NEW m, Logs(l, s), Sends(s, t, m), Sends(l, k, m)
  PROVE  Logs(k, t)
BY DEF Logs, Sends, Store

(* The same of a message that is marked sent.                              *)
LEMMA SentFollows ==
  ASSUME NEW s, NEW t, NEW l, NEW k, NEW m, Logs(l, s), Sents(s, t, m), Sents(l, k, m)
  PROVE  Logs(k, t)
BY DEF Logs, Sents, Store

(* The same of a message that is deleted.                                  *)
LEMMA DeleteFollows ==
  ASSUME NEW s, NEW t, NEW l, NEW k, NEW m, Logs(l, s), Deletes(s, t, m), Deletes(l, k, m)
  PROVE  Logs(k, t)
BY DEF Logs, Deletes, Store

(* The same of a message that is renamed, and merged in both or in none.   *)
LEMMA RenameFollows ==
  ASSUME NEW s, NEW t, NEW l, NEW k, NEW m, NEW new,
         Logs(l, s), Renames(s, t, m, new), Renames(l, k, m, new),
         (\E c \in s.tree \ {m} : s.id[c] = new) <=> \E c \in l.tree \ {m} : l.id[c] = new
  PROVE  Logs(k, t)
<1>1. CASE \E c \in s.tree \ {m} : s.id[c] = new
  BY <1>1 DEF Logs, Renames, Store
<1>2. CASE ~\E c \in s.tree \ {m} : s.id[c] = new
  BY <1>2 DEF Logs, Renames, Store
<1> QED
  BY <1>1, <1>2

(* The same of messages that are read.                                     *)
LEMMA ReadFollows ==
  ASSUME NEW s, NEW t, NEW l, NEW k, NEW i, Logs(l, s), Reads(s, t, i), Reads(l, k, i),
         s.unread \subseteq s.created, Found(l, i) = Found(s, i) \cap s.created
  PROVE  Logs(k, t)
BY DEF Logs, Reads, Store

(* The same of a message that is created, if it is not one of ours.        *)
LEMMA CreateFollows ==
  ASSUME NEW s, NEW t, NEW l, NEW k, NEW c, NEW unread \in BOOLEAN, c \notin Encrypted,
         Logs(l, s), Creates(s, t, c, unread), Creates(l, k, c, unread)
  PROVE  Logs(k, t)
BY DEF Logs, Creates, Store

(* add_log_event of an event that fails no assertion is written, too.      *)
LEMMA EventIsLogged ==
  ASSUME NEW e, AddLogEvent(e), ~Replayed(store, e).failed
  PROVE  /\ store' = Replayed(store, e)
         /\ logged' = IF binlog_enabled THEN Replayed(logged, e) ELSE logged
BY DEF AddLogEvent

(* The event of a message that is sent.                                    *)
LEMMA SendIsLogged ==
  ASSUME IInv, NEW m \in Local \ started, AddLogEvent([op |-> "send", id |-> m]),
         binlog_enabled' = binlog_enabled
  PROVE  Sends(store, store', m) /\ LogFits'
<1> DEFINE e == [op |-> "send", id |-> m]
<1>1. \A s : Replayed(s, e) = SendText(s, m)
  BY DEF Replayed
<1> HIDE DEF e
<1>2. m \in Cell /\ m \notin Nat /\ sid[m] = 0
  BY Cells DEF IInv, ServerFits, TypeOK
<1>3. ASSUME NEW s, Consistent(s) PROVE Sends(s, SendText(s, m), m)
  <2>1. s \in Store /\ ~s.failed /\ m \notin s.tree /\ s.id[m] = m /\ s.listed \subseteq Cell
    BY <1>2, <1>3 DEF Consistent, Store
  <2>2. ASSUME NEW d \in s.listed PROVE s.id[d] # m
    <3>1. d # m /\ d \in Cell
      BY <1>3, <2>1 DEF Consistent
    <3>2. s.id[d] = d \/ (d \in Local /\ s.id[d] = sid[d])
      BY <1>3, <3>1, Cells DEF Consistent
    <3>3. d \in Local => sid[d] \in Nat
      BY DEF IInv, TypeOK
    <3> QED
      BY <1>2, <3>1, <3>2, <3>3
  <2> QED
    BY <1>2, <2>1, <2>2, SendTextFields
<1>4. Sends(store, SendText(store, m), m) /\ Sends(logged, SendText(logged, m), m)
  BY <1>3, LogConsistent DEF IInv
<1>5. store' = SendText(store, m)
      /\ logged' = IF binlog_enabled THEN SendText(logged, m) ELSE logged
  BY <1>1, <1>4, EventIsLogged DEF Sends, e
<1>6. LogFits'
  <2>1. CASE binlog_enabled
    BY <1>4, <1>5, <2>1, SendFollows DEF IInv, LogFits
  <2>2. CASE ~binlog_enabled
    BY <1>5, <2>2 DEF IInv, LogFits
  <2> QED
    BY <2>1, <2>2
<1> QED
  BY <1>4, <1>5, <1>6

(* The event of a message that was sent.                                   *)
LEMMA SentIsLogged ==
  ASSUME IInv, NEW m \in store.pending, AddLogEvent([op |-> "sent", id |-> m]),
         binlog_enabled' = binlog_enabled
  PROVE  Sents(store, store', m) /\ LogFits'
<1> DEFINE e == [op |-> "sent", id |-> m]
<1>1. \A s : Replayed(s, e) = SetSent(s, m)
  BY DEF Replayed
<1> HIDE DEF e
<1>2. Sents(store, SetSent(store, m), m)
  BY SetSentFields DEF IInv
<1>3. store' = SetSent(store, m)
      /\ logged' = IF binlog_enabled THEN SetSent(logged, m) ELSE logged
  BY <1>1, <1>2, EventIsLogged DEF Sents, e
<1>4. LogFits'
  <2>1. CASE binlog_enabled
    <3>1. m \in logged.pending
      BY <2>1 DEF IInv, LogFits, Logs
    <3>2. Sents(logged, SetSent(logged, m), m)
      BY <3>1, LogConsistent, SetSentFields
    <3> QED
      BY <1>2, <1>3, <2>1, <3>2, SentFollows DEF IInv, LogFits
  <2>2. CASE ~binlog_enabled
    BY <1>3, <2>2 DEF IInv, LogFits
  <2> QED
    BY <2>1, <2>2
<1> QED
  BY <1>2, <1>3, <1>4

(* The event of a message that was refused.                                *)
LEMMA DeleteIsLogged ==
  ASSUME IInv, NEW m \in store.pending, AddLogEvent([op |-> "delete", id |-> m]),
         binlog_enabled' = binlog_enabled
  PROVE  Deletes(store, store', m) /\ LogFits'
<1> DEFINE e == [op |-> "delete", id |-> m]
<1>1. \A s : Replayed(s, e) = DeleteMsg(s, m)
  BY DEF Replayed
<1> HIDE DEF e
<1>2. Deletes(store, DeleteMsg(store, m), m)
  BY DeleteMsgFields DEF IInv
<1>3. store' = DeleteMsg(store, m)
      /\ logged' = IF binlog_enabled THEN DeleteMsg(logged, m) ELSE logged
  BY <1>1, <1>2, EventIsLogged DEF Deletes, e
<1>4. LogFits'
  <2>1. CASE binlog_enabled
    <3>1. m \in logged.pending
      BY <2>1 DEF IInv, LogFits, Logs
    <3>2. Deletes(logged, DeleteMsg(logged, m), m)
      BY <3>1, LogConsistent, DeleteMsgFields
    <3> QED
      BY <1>2, <1>3, <2>1, <3>2, DeleteFollows DEF IInv, LogFits
  <2>2. CASE ~binlog_enabled
    BY <1>3, <2>2 DEF IInv, LogFits
  <2> QED
    BY <2>1, <2>2
<1> QED
  BY <1>2, <1>3, <1>4

(* The event of a message that gets its id: the log has another message    *)
(* with that id exactly when the structures do.                            *)
LEMMA RenameIsLogged ==
  ASSUME IInv, NEW m \in store.pending, sid[m] # 0,
         AddLogEvent([op |-> "set_id", id |-> m, new |-> sid[m]]),
         binlog_enabled' = binlog_enabled
  PROVE  Renames(store, store', m, sid[m]) /\ LogFits'
<1> DEFINE e == [op |-> "set_id", id |-> m, new |-> sid[m]]
           new == sid[m]
<1>1. \A s : Replayed(s, e) = SetMsgId(s, m, new)
  BY DEF Replayed
<1> HIDE DEF e
<1>2. m \in Local /\ m \notin Nat
  BY PendingHasOwnId, Cells DEF IInv
<1>3. new \in 1..MaxId
  BY <1>2, ConstantsAssumption DEF IInv, TypeOK
<1>4. new \in Cell /\ new # m /\ new \in Nat
  BY <1>2, <1>3, Cells
<1> HIDE DEF new
<1>5. Renames(store, SetMsgId(store, m, new), m, new)
  BY <1>4, SetMsgIdFields DEF IInv
<1>6. store' = SetMsgId(store, m, new)
      /\ logged' = IF binlog_enabled THEN SetMsgId(logged, m, new) ELSE logged
  BY <1>1, <1>5, EventIsLogged DEF Renames, e, new
<1>7. LogFits'
  <2>1. CASE binlog_enabled
    <3>1. /\ logged.tree = store.created /\ logged.created = store.created
          /\ logged.id = store.id /\ logged.pending = store.pending
          /\ logged.unsent = store.unsent /\ logged.listed = store.listed
          /\ logged.use = store.use /\ logged.unread \subseteq logged.created
          /\ logged.unread = store.unread \cup (Encrypted \cap logged.unread)
      BY <2>1 DEF IInv, LogFits, Logs
    <3>2. Renames(logged, SetMsgId(logged, m, new), m, new)
      BY <1>4, <3>1, LogConsistent, SetMsgIdFields
    <3>3. (\E c \in store.tree \ {m} : store.id[c] = new)
            <=> \E c \in logged.tree \ {m} : logged.id[c] = new
      <4>1. ASSUME NEW c \in store.tree \ {m}, store.id[c] = new PROVE c \in store.created
        <5>1. CASE c \in Incoming
          <6>1. store.id[c] = c
            BY <5>1, Cells DEF IInv, Consistent
          <6> QED
            BY <1>4, <4>1, <5>1, <6>1, Cells
        <5>2. CASE c \notin Incoming
          BY <5>2 DEF IInv, Consistent
        <5> QED
          BY <5>1, <5>2
      <4>2. store.created \subseteq store.tree
        BY DEF IInv, Consistent
      <4> QED
        BY <3>1, <4>1, <4>2
    <3> QED
      BY <1>5, <1>6, <2>1, <3>2, <3>3, RenameFollows DEF IInv, LogFits
  <2>2. CASE ~binlog_enabled
    BY <1>6, <2>2 DEF IInv, LogFits
  <2> QED
    BY <2>1, <2>2
<1> QED
  BY <1>5, <1>6, <1>7 DEF new

(* The event of a message that is read.                                    *)
LEMMA ReadIsLogged ==
  ASSUME IInv, NEW i, Found(store, i) \cap store.unread # {},
         AddLogEvent([op |-> "read", id |-> i]), binlog_enabled' = binlog_enabled
  PROVE  Reads(store, store', i) /\ LogFits'
<1> DEFINE e == [op |-> "read", id |-> i]
<1>1. \A s : Replayed(s, e) = SetRead(s, i)
  BY DEF Replayed
<1> HIDE DEF e
<1>2. Reads(store, SetRead(store, i), i)
  <2>1. store \in Store /\ ~store.failed /\ Found(store, i) # {}
    BY DEF IInv, Consistent
  <2> QED
    BY <2>1, SetReadFields
<1>3. store' = SetRead(store, i)
      /\ logged' = IF binlog_enabled THEN SetRead(logged, i) ELSE logged
  BY <1>1, <1>2, EventIsLogged DEF Reads, e
<1>4. LogFits'
  <2>1. CASE binlog_enabled
    <3>1. Found(logged, i) = Found(store, i) \cap store.created
      BY <2>1 DEF IInv, LogFits, Logs, Found, Consistent
    <3>2. Found(logged, i) # {}
      BY <3>1 DEF IInv, Consistent
    <3>3. Reads(logged, SetRead(logged, i), i)
      <4>1. logged \in Store /\ ~logged.failed
        BY LogConsistent DEF Consistent
      <4> QED
        BY <3>2, <4>1, SetReadFields
    <3>4. store.unread \subseteq store.created
      BY DEF IInv, Consistent
    <3> QED
      BY <1>2, <1>3, <2>1, <3>1, <3>3, <3>4, ReadFollows DEF IInv, LogFits
  <2>2. CASE ~binlog_enabled
    BY <1>3, <2>2 DEF IInv, LogFits
  <2> QED
    BY <2>1, <2>2
<1> QED
  BY <1>2, <1>3, <1>4

(* The event of a message that is created, with an id that no message with *)
(* a content has.                                                          *)
LEMMA CreateIsLogged ==
  ASSUME IInv, NEW c \in Cell, NEW unread \in BOOLEAN, c \notin Local,
         Found(store, c) \cap store.created = {},
         AddLogEvent([op |-> "create", id |-> c, unread |-> unread]),
         binlog_enabled' = binlog_enabled
  PROVE  Creates(store, store', c, unread) /\ LogFits'
<1> DEFINE e == [op |-> "create", id |-> c, unread |-> unread]
<1>1. \A s : Replayed(s, e) = Create(s, c, unread)
  BY DEF Replayed
<1> HIDE DEF e
<1>2. ASSUME NEW s, Consistent(s), Found(s, c) \cap s.created = {}
      PROVE  Creates(s, Create(s, c, unread), c, unread)
  <2>1. s \in Store /\ ~s.failed /\ s.id[c] = c
    BY <1>2, Cells DEF Consistent
  <2>2. \A d \in s.listed : s.id[d] # s.id[c]
    BY <1>2, <2>1 DEF Consistent, Found
  <2> QED
    BY <1>2, <2>1, <2>2, CreateFields
<1>3. Creates(store, Create(store, c, unread), c, unread)
  BY <1>2 DEF IInv
<1>4. store' = Create(store, c, unread)
      /\ logged' = IF binlog_enabled THEN Create(logged, c, unread) ELSE logged
  BY <1>1, <1>3, EventIsLogged DEF Creates, e
<1>5. LogFits'
  <2>1. CASE binlog_enabled
    <3>1. Found(logged, c) \cap logged.created = {}
      BY <2>1 DEF IInv, LogFits, Logs, Found, Consistent
    <3>2. Creates(logged, Create(logged, c, unread), c, unread)
      BY <1>2, <3>1, LogConsistent
    <3>3. c \notin Encrypted
      BY Cells
    <3> QED
      BY <1>3, <1>4, <2>1, <3>2, <3>3, CreateFollows DEF IInv, LogFits
  <2>2. CASE ~binlog_enabled
    BY <1>4, <2>2 DEF IInv, LogFits
  <2> QED
    BY <2>1, <2>2
<1> QED
  BY <1>3, <1>4, <1>5

-----------------------------------------------------------------------------
(* The events keep a store consistent                                      *)

(* A message that is marked sent.                                          *)
LEMMA SentConsistent ==
  ASSUME NEW s, NEW t, NEW m, Consistent(s), Sents(s, t, m)
  PROVE  Consistent(t)
BY DEF Consistent, Sents, Store

(* A message that is deleted.                                              *)
LEMMA DeleteConsistent ==
  ASSUME NEW s, NEW t, NEW m, Consistent(s), Deletes(s, t, m)
  PROVE  Consistent(t)
BY DEF Consistent, Deletes, Store

(* Messages that are read.                                                 *)
LEMMA ReadConsistent ==
  ASSUME NEW s, NEW t, NEW i, Consistent(s), Reads(s, t, i)
  PROVE  Consistent(t)
BY DEF Consistent, Reads, Store

(* A message that gets the id of the server stays the only one with it.    *)
LEMMA RenameConsistent ==
  ASSUME NEW s, NEW t, NEW m \in s.pending \cap Plain, sid[m] # 0,
         Consistent(s), Renames(s, t, m, sid[m])
  PROVE  Consistent(t)
<1>0. m \in Cell /\ m \in s.tree /\ m \in s.created /\ s \in Store /\ s.tree \subseteq Cell
  BY PendingHasOwnId DEF Consistent, Store
<1>1. /\ t \in Store /\ ~t.failed /\ t.pending = s.pending \ {m} /\ t.unsent = s.unsent \ {m}
      /\ \A c \in Cell : t.id[c] = IF c = m THEN sid[m] ELSE s.id[c]
  BY DEF Renames
<1>2. \A c \in Cell :
        t.id[c] = c \/ (c \in Plain \ t.pending /\ t.id[c] = sid[c] /\ sid[c] # 0)
  <2>1. ASSUME NEW c \in Cell
        PROVE  t.id[c] = c \/ (c \in Plain \ t.pending /\ t.id[c] = sid[c] /\ sid[c] # 0)
    <3>1. CASE c = m
      BY <1>1, <3>1
    <3>2. CASE c # m
      BY <1>1, <3>2 DEF Consistent
    <3> QED
      BY <3>1, <3>2
  <2> QED
    BY <2>1
<1>3. CASE \E c \in s.tree \ {m} : s.id[c] = sid[m]
  <2>1. /\ t.tree = s.tree \ {m} /\ t.created = s.created \ {m}
        /\ t.listed = s.listed \ {m} /\ t.unread = s.unread \ {m}
    BY <1>3 DEF Renames
  <2>2. \A c, d \in t.tree : t.id[c] = t.id[d] => c = d
    BY <1>0, <1>1, <2>1 DEF Consistent
  <2> QED
    BY <1>1, <1>2, <2>1, <2>2 DEF Consistent
<1>4. CASE ~\E c \in s.tree \ {m} : s.id[c] = sid[m]
  <2>1. /\ t.tree = s.tree /\ t.created = s.created
        /\ t.listed = s.listed /\ t.unread = s.unread
    BY <1>4 DEF Renames
  <2>2. \A c, d \in t.tree : t.id[c] = t.id[d] => c = d
    BY <1>0, <1>1, <1>4, <2>1 DEF Consistent
  <2> QED
    BY <1>1, <1>2, <2>1, <2>2 DEF Consistent
<1> QED
  BY <1>3, <1>4

(* A message that is created, by its own id.                               *)
LEMMA CreateConsistent ==
  ASSUME NEW s, NEW t, NEW c \in Incoming \cup 1..lastId, NEW unread \in BOOLEAN,
         TypeOK, Consistent(s), Found(s, c) \cap s.created = {}, Creates(s, t, c, unread)
  PROVE  Consistent(t)
<1>1. c \in Cell /\ c \notin Local /\ (c \in Nat => c <= lastId)
  <2>1. 1..lastId \subseteq 1..MaxId
    BY ConstantsAssumption DEF TypeOK
  <2> QED
    BY <2>1, Cells DEF TypeOK
<1>2. s \in Store /\ s.id[c] = c
  BY <1>1, Cells DEF Consistent
<1>3. ASSUME NEW d \in s.tree, s.id[d] = c PROVE d = c
  <2>1. d \notin s.created
    BY <1>3 DEF Found
  <2>2. d \in Incoming /\ d \in Cell
    BY <1>2, <1>3, <2>1, Cells DEF Consistent
  <2> QED
    BY <1>3, <2>2, Cells DEF Consistent
<1>4. \A a, b \in t.tree : t.id[a] = t.id[b] => a = b
  BY <1>2, <1>3 DEF Consistent, Creates
<1>5. \A i \in t.tree \cap Nat : i <= lastId
  BY <1>1 DEF Consistent, Creates
<1>6. t.tree \cap Local \subseteq started /\ t.tree \ t.created \subseteq Incoming
  BY <1>1 DEF Consistent, Creates
<1>7. /\ t \in Store /\ ~t.failed /\ t.unsent = t.pending /\ t.pending \subseteq Local \cap t.created
      /\ t.listed = t.created /\ t.created \subseteq t.tree /\ t.unread \subseteq t.created
  BY DEF Consistent, Creates
<1>8. \A a \in Cell :
        t.id[a] = a \/ (a \in Plain \ t.pending /\ t.id[a] = sid[a] /\ sid[a] # 0)
  BY DEF Consistent, Creates
<1> QED
  BY <1>4, <1>5, <1>6, <1>7, <1>8 DEF Consistent

(* A store is consistent or not by what the server gave and the user sent. *)
LEMMA ConsistentUnchanged ==
  ASSUME Consistent(store'), UNCHANGED <<sid, started, lastId>>
  PROVE  Consistent(store)'
BY DEF Consistent

(* What the log should have is a store.                                    *)
LEMMA LoggedIsStore ==
  ASSUME LogFits'
  PROVE  logged' \in Store
BY EmptyStoreFields DEF LogFits, Logs

-----------------------------------------------------------------------------
(* The actions                                                             *)

(* At first there is no message.                                           *)
LEMMA InitIInv == Init => IInv
<1> SUFFICES ASSUME Init PROVE IInv
  OBVIOUS
<1>1. /\ EmptyStore \in Store /\ ~EmptyStore.failed
      /\ EmptyStore.tree = {} /\ EmptyStore.created = {} /\ EmptyStore.pending = {}
      /\ EmptyStore.unsent = {} /\ EmptyStore.unread = {} /\ EmptyStore.listed = {}
      /\ EmptyStore.use = {} /\ \A c \in Cell : EmptyStore.id[c] = c
  BY EmptyStoreFields
<1>2. store = EmptyStore /\ logged = EmptyStore
  BY DEF Init
<1>3. TypeOK
  <2>1. /\ lastId \in 0..MaxId /\ crashes \in 0..MaxCrashes
        /\ sid \in [Local -> 0..MaxId] /\ told \in [Local -> Cell \cup {0}]
    BY ConstantsAssumption DEF Init
  <2>2. outcome \in [Local -> {"none", "accepted", "rejected"}]
    BY DEF Init
  <2>3. /\ queries \subseteq Local /\ inflight \subseteq Local /\ started \subseteq Local
        /\ updated \subseteq Local
    BY DEF Init
  <2>4. /\ dangling \in {"none", "intact", "overwritten"} /\ chatOk \in BOOLEAN
        /\ overtaken \in BOOLEAN /\ binlog_enabled \in BOOLEAN
    BY DEF Init
  <2> QED
    BY <1>1, <1>2, <2>1, <2>2, <2>3, <2>4 DEF TypeOK
<1>4. Consistent(store)
  BY <1>1, <1>2 DEF Consistent
<1>5. ServerFits
  BY DEF Init, ServerFits
<1>6. QueriesFit
  BY <1>1, <1>2 DEF Init, QueriesFit
<1>7. LogFits
  BY <1>1, <1>2 DEF LogFits, Logs
<1>8. ToldRightly
  BY DEF Init, ToldRightly
<1>9. NotOvertaken /\ dangling = "none" /\ store.use = store.listed
  BY <1>1, <1>2 DEF Init, NotOvertaken
<1> QED
  BY <1>3, <1>4, <1>5, <1>6, <1>7, <1>8, <1>9 DEF IInv

(* A message is sent for the first time.                                   *)
LEMMA SendMessageKeepsIInv ==
  ASSUME IInv, NEW m \in Local, SendMessage(m)
  PROVE  IInv'
<1>1. /\ m \notin started /\ started' = started \cup {m}
      /\ queries' = queries \cup {m} /\ inflight' = inflight \cup {m}
      /\ AddLogEvent([op |-> "send", id |-> m])
      /\ UNCHANGED <<told, updated, dangling, outcome, sid, lastId, chatOk, overtaken,
                     binlog_enabled, crashes>>
  BY DEF SendMessage, server, fixed
<1>2. Sends(store, store', m) /\ LogFits'
  BY <1>1, SendIsLogged
<1>3. /\ m \in Cell /\ m \notin Nat /\ m \notin Incoming /\ sid[m] = 0 /\ m \notin store.tree
      /\ store \in Store /\ store.id[m] = m
  BY <1>1, Cells DEF IInv, ServerFits, TypeOK, Consistent
<1>4. TypeOK'
  BY <1>1, <1>2, LoggedIsStore DEF IInv, TypeOK, Sends
<1>5. Consistent(store)'
  <2>1. ASSUME NEW c \in store.tree, store.id[c] = m PROVE FALSE
    <3>1. c \in Cell /\ c # m
      BY <1>3, <2>1 DEF Store
    <3>2. c \in Local /\ store.id[c] = sid[c]
      BY <2>1, <3>1, Cells DEF IInv, Consistent
    <3> QED
      BY <1>3, <2>1, <3>2 DEF IInv, TypeOK
  <2>2. \A c, d \in store'.tree : store'.id[c] = store'.id[d] => c = d
    BY <1>2, <1>3, <2>1 DEF IInv, Consistent, Sends
  <2>3. \A c \in Cell : store'.id[c] = c \/ (c \in Plain \ store'.pending
                            /\ store'.id[c] = sid'[c] /\ sid'[c] # 0)
    BY <1>1, <1>2, <1>3 DEF IInv, Consistent, Sends
  <2>4. /\ store' \in Store /\ ~store'.failed /\ store'.unsent = store'.pending
        /\ store'.pending \subseteq Local \cap store'.created
        /\ store'.listed = store'.created /\ store'.created \subseteq store'.tree
        /\ store'.unread \subseteq store'.created
        /\ store'.tree \ store'.created \subseteq Incoming
    BY <1>2, <1>3 DEF IInv, Consistent, Sends
  <2>5. store'.tree \cap Local \subseteq started' /\ \A i \in store'.tree \cap Nat : i <= lastId'
    BY <1>1, <1>2, <1>3 DEF IInv, Consistent, Sends
  <2> QED
    BY <2>2, <2>3, <2>4, <2>5 DEF Consistent
<1>6. ServerFits'
  BY <1>1 DEF IInv, ServerFits
<1>7. QueriesFit'
  BY <1>1, <1>2 DEF IInv, QueriesFit, Sends
<1>8. ToldRightly'
  <2>1. told[m] # 0 /\ dangling # "overwritten" => FALSE
    BY <1>3 DEF IInv, ToldRightly
  <2> QED
    BY <1>1, <1>2, <2>1 DEF IInv, ToldRightly, Sends
<1>9. (overtaken \/ (NotOvertaken /\ dangling = "none" /\ store.use = store.listed))'
  <2>1. CASE ~overtaken
    <3>1. NotOvertaken'
      <4>1. ASSUME NEW n \in queries', sid[n] # 0 PROVE sid[n] \notin store'.tree
        <5>1. n \in queries /\ n \in Local
          BY <1>1, <1>3, <4>1 DEF IInv, TypeOK
        <5>2. sid[n] \in Nat
          BY <5>1 DEF IInv, TypeOK
        <5> QED
          BY <1>2, <1>3, <2>1, <4>1, <5>1, <5>2 DEF IInv, NotOvertaken, Sends
      <4> QED
        BY <1>1, <4>1 DEF NotOvertaken
    <3> QED
      BY <1>1, <1>2, <2>1, <3>1 DEF IInv, Sends
  <2> QED
    BY <1>1, <2>1
<1> QED
  BY <1>2, <1>4, <1>5, <1>6, <1>7, <1>8, <1>9 DEF IInv

(* What an action of the client has to keep, if it sends nothing new.      *)
LEMMA ClientStep ==
  ASSUME IInv, UNCHANGED <<server, inflight, started, chatOk, fixed>>,
         Consistent(store'), LogFits', QueriesFit', ToldRightly',
         queries' \subseteq queries, updated' \subseteq Local,
         told' \in [Local -> Cell \cup {0}],
         dangling' \in {"none", "intact", "overwritten"}, overtaken' \in BOOLEAN,
         (overtaken \/ (NotOvertaken /\ dangling = "none" /\ store.use = store.listed))'
  PROVE  IInv'
<1>1. UNCHANGED <<outcome, sid, lastId, inflight, started, chatOk, binlog_enabled, crashes>>
  BY DEF server, fixed
<1>2. store' \in Store /\ logged' \in Store
  BY LoggedIsStore DEF Consistent
<1>3. TypeOK'
  BY <1>1, <1>2 DEF IInv, TypeOK
<1>4. Consistent(store)'
  BY <1>1, ConsistentUnchanged
<1>5. ServerFits'
  BY <1>1 DEF IInv, ServerFits
<1> QED
  BY <1>3, <1>4, <1>5 DEF IInv

(* The same if neither the messages nor what is outstanding changes.       *)
LEMMA NothingDone ==
  ASSUME IInv, UNCHANGED <<store, logged, binlog_enabled>>
  PROVE  Consistent(store') /\ LogFits'
BY DEF IInv, LogFits

(* A message of a query is pending and has its own id.                     *)
LEMMA QueryIsPending ==
  ASSUME IInv, NEW m \in queries
  PROVE  /\ m \in store.pending /\ m \in Local /\ m \in Cell /\ m \in store.tree
         /\ store.id[m] = m /\ m \notin Nat
<1>1. m \in store.pending
  BY DEF IInv, QueriesFit
<1> QED
  BY <1>1, PendingHasOwnId, Cells DEF IInv

(* The answer that gives a message its id.                                 *)
LEMMA MsgSendOnAnswerKeepsIInv ==
  ASSUME IInv, NEW m \in Local, MsgSendOnAnswer(m)
  PROVE  IInv'
<1>1. /\ m \in queries /\ m \in Plain /\ outcome[m] = "accepted" /\ queries' = queries \ {m}
      /\ Running
      /\ IF store.id[m] # sid[m]
         THEN AddLogEvent([op |-> "set_id", id |-> store.id[m], new |-> sid[m]])
         ELSE IF m \in store.pending THEN AddLogEvent([op |-> "sent", id |-> store.id[m]])
         ELSE NoEvent
      /\ IF m \in store.tree \cap store'.tree
         THEN told' = [told EXCEPT ![m] = store'.id[m]] /\ UNCHANGED dangling
         ELSE UsesFreed(m)
      /\ UNCHANGED <<updated, server, inflight, started, chatOk, overtaken, fixed>>
  BY DEF MsgSendOnAnswer
<1>2. /\ m \in store.pending /\ m \in Cell /\ m \in store.tree /\ store.id[m] = m /\ m \notin Nat
      /\ store.tree \subseteq Cell
  BY <1>1, QueryIsPending DEF IInv, Consistent, Store
<1>3. sid[m] # 0 /\ sid[m] \in 0..MaxId /\ sid[m] \in Nat
  BY <1>1 DEF IInv, ServerFits, TypeOK
<1>4. sid[m] \in Cell /\ sid[m] # m /\ sid[m] \notin Local /\ sid[m] \notin Incoming
  <2>1. sid[m] \in 1..MaxId
    BY <1>3, ConstantsAssumption
  <2> QED
    BY <1>2, <1>3, <2>1, Cells
<1>5. AddLogEvent([op |-> "set_id", id |-> m, new |-> sid[m]])
  BY <1>1, <1>2, <1>4
<1>6. Renames(store, store', m, sid[m]) /\ LogFits'
  BY <1>1, <1>2, <1>3, <1>5, RenameIsLogged DEF fixed
<1>7. Consistent(store')
  BY <1>1, <1>2, <1>3, <1>6, RenameConsistent DEF IInv
<1>8. store'.id[m] = sid[m] /\ store'.pending = store.pending \ {m}
      /\ (\A n \in Local : n # m => store'.id[n] = store.id[n])
      /\ store'.tree \subseteq store.tree
  BY <1>2, <1>6, Cells DEF Renames
<1>9. QueriesFit'
  BY <1>1, <1>8 DEF IInv, QueriesFit
<1>10. /\ told' \in [Local -> Cell \cup {0}] /\ dangling' \in {"none", "intact", "overwritten"}
       /\ dangling' # "overwritten" => told' = [told EXCEPT ![m] = sid[m]]
  BY <1>1, <1>4, <1>8 DEF UsesFreed, IInv, TypeOK
<1>11. ToldRightly'
  <2>1. ASSUME NEW n \in Local, told'[n] # 0, dangling' # "overwritten"
        PROVE  /\ told'[n] = sid'[n] /\ n \notin store'.pending
               /\ n \in store'.tree => store'.id[n] = sid'[n]
    <3>1. sid' = sid /\ dangling # "overwritten"
      BY <1>1 DEF server, Running
    <3>2. told' = [told EXCEPT ![m] = sid[m]] /\ told \in [Local -> Cell \cup {0}]
      BY <1>10, <2>1 DEF IInv, TypeOK
    <3>3. CASE n = m
      BY <1>8, <3>1, <3>2, <3>3
    <3>4. CASE n # m
      BY <1>8, <2>1, <3>1, <3>2, <3>4 DEF IInv, ToldRightly
    <3> QED
      BY <3>3, <3>4
  <2> QED
    BY <2>1 DEF ToldRightly
<1>12. (overtaken \/ (NotOvertaken /\ dangling = "none" /\ store.use = store.listed))'
  <2>1. CASE ~overtaken
    <3>1. ASSUME NEW c \in store.tree \ {m}, store.id[c] = sid[m] PROVE FALSE
      <4>1. c \in Cell
        BY <1>2
      <4>2. CASE store.id[c] = c
        BY <1>1, <1>3, <2>1, <3>1, <4>2 DEF IInv, NotOvertaken
      <4>3. CASE c \in Plain /\ store.id[c] = sid[c]
        BY <1>3, <3>1, <4>3, Cells DEF IInv, ServerFits
      <4> QED
        BY <4>1, <4>2, <4>3 DEF IInv, Consistent
    <3>2. /\ store'.tree = store.tree /\ store'.listed = store.listed
          /\ store'.use = store.use
      BY <1>6, <3>1 DEF Renames
    <3>3. dangling' = dangling
      BY <1>1, <1>2, <3>2
    <3> QED
      BY <1>1, <2>1, <3>2, <3>3 DEF IInv, NotOvertaken, server
  <2> QED
    BY <1>1, <2>1
<1> QED
  BY <1>1, <1>6, <1>7, <1>9, <1>10, <1>11, <1>12, ClientStep DEF IInv, TypeOK

(* A message that is refused.                                              *)
LEMMA MsgSendOnErrorKeepsIInv ==
  ASSUME IInv, NEW m \in Local, MsgSendOnError(m)
  PROVE  IInv'
<1>1. /\ m \in queries /\ m \in Plain /\ queries' = queries \ {m}
      /\ AddLogEvent([op |-> "delete", id |-> store.id[m]])
      /\ dangling' = IF m \in store.tree THEN dangling ELSE "overwritten"
      /\ UNCHANGED <<told, updated, server, inflight, started, chatOk, overtaken, fixed>>
  BY DEF MsgSendOnError
<1>2. m \in store.pending /\ m \in store.tree /\ store.id[m] = m
  BY <1>1, QueryIsPending
<1>3. Deletes(store, store', m) /\ LogFits'
  BY <1>1, <1>2, DeleteIsLogged DEF fixed
<1>4. Consistent(store')
  BY <1>3, DeleteConsistent DEF IInv
<1>5. QueriesFit'
  BY <1>1, <1>3 DEF IInv, QueriesFit, Deletes
<1>6. ToldRightly'
  BY <1>1, <1>2, <1>3 DEF IInv, ToldRightly, Deletes, server
<1>7. (overtaken \/ (NotOvertaken /\ dangling = "none" /\ store.use = store.listed))'
  BY <1>1, <1>2, <1>3 DEF IInv, NotOvertaken, Deletes, server
<1> QED
  BY <1>1, <1>2, <1>3, <1>4, <1>5, <1>6, <1>7, ClientStep DEF IInv, TypeOK

(* The answer to a message to the secret chat.                             *)
LEMMA MsgSendEncrOnAnswerKeepsIInv ==
  ASSUME IInv, NEW m \in Local, MsgSendEncrOnAnswer(m)
  PROVE  IInv'
<1>1. /\ m \in queries /\ m \in Encrypted /\ queries' = queries \ {m}
      /\ IF outcome[m] = "accepted" /\ m \in store.pending
         THEN AddLogEvent([op |-> "sent", id |-> store.id[m]]) ELSE NoEvent
      /\ dangling' = IF m \in store.tree THEN dangling ELSE "overwritten"
      /\ UNCHANGED <<told, updated, server, inflight, started, chatOk, overtaken, fixed>>
  BY DEF MsgSendEncrOnAnswer
<1>2. m \in store.pending /\ m \in store.tree /\ store.id[m] = m /\ m \notin Plain
  BY <1>1, QueryIsPending, Cells
<1>3. CASE outcome[m] = "accepted"
  <2>1. Sents(store, store', m) /\ LogFits'
    BY <1>1, <1>2, <1>3, SentIsLogged DEF fixed
  <2>2. Consistent(store')
    BY <2>1, SentConsistent DEF IInv
  <2>3. QueriesFit'
    BY <1>1, <1>2, <2>1 DEF IInv, QueriesFit, Sents
  <2>4. ToldRightly'
    BY <1>1, <1>2, <2>1 DEF IInv, ToldRightly, Sents, server
  <2>5. (overtaken \/ (NotOvertaken /\ dangling = "none" /\ store.use = store.listed))'
    BY <1>1, <1>2, <2>1 DEF IInv, NotOvertaken, Sents, server
  <2> QED
    BY <1>1, <1>2, <2>1, <2>2, <2>3, <2>4, <2>5, ClientStep DEF IInv, TypeOK
<1>4. CASE outcome[m] # "accepted"
  <2>1. UNCHANGED <<store, logged>> /\ Consistent(store') /\ LogFits'
    BY <1>1, <1>4, NothingDone DEF NoEvent, fixed
  <2>2. QueriesFit' /\ ToldRightly'
    BY <1>1, <1>2, <2>1 DEF IInv, QueriesFit, ToldRightly, server
  <2>3. (overtaken \/ (NotOvertaken /\ dangling = "none" /\ store.use = store.listed))'
    BY <1>1, <1>2, <2>1 DEF IInv, NotOvertaken, server
  <2> QED
    BY <1>1, <1>2, <2>1, <2>2, <2>3, ClientStep DEF IInv, TypeOK
<1> QED
  BY <1>3, <1>4

(* update_message_i_d finds no message: no cell has the id 0.              *)
LEMMA UpdateMessageIdKeepsIInv ==
  ASSUME IInv, NEW m \in Local, UpdateMessageId(m)
  PROVE  IInv'
<1>1. Found(store, 0) = {}
  BY Cells DEF Found, IInv, TypeOK, Store
<1>2. /\ UNCHANGED <<store, logged, queries, told, dangling, server, inflight, started,
                     chatOk, overtaken, fixed>>
      /\ updated' = updated \cup {m}
  BY <1>1 DEF UpdateMessageId, Truncated, NoEvent
<1>3. Consistent(store') /\ LogFits'
  BY <1>2, NothingDone DEF fixed
<1>4. QueriesFit' /\ ToldRightly'
  BY <1>2 DEF IInv, QueriesFit, ToldRightly, server
<1>5. (overtaken \/ (NotOvertaken /\ dangling = "none" /\ store.use = store.listed))'
  BY <1>2 DEF IInv, NotOvertaken, server
<1> QED
  BY <1>2, <1>3, <1>4, <1>5, ClientStep DEF IInv, TypeOK

(* A fetch, a read or a secret message that adds no message of ours and    *)
(* renames none keeps what is said of the queries and of what was told.    *)
LEMMA PendingUntouched ==
  ASSUME IInv, UNCHANGED <<queries, told, dangling, server>>,
         store'.pending = store.pending, store'.id = store.id,
         \A m \in Local : m \in store'.tree => m \in store.tree
  PROVE  QueriesFit' /\ ToldRightly'
BY DEF IInv, QueriesFit, ToldRightly, server

(* The event of a message that is read, in a fetch or an update.           *)
LEMMA ReadKeepsIInv ==
  ASSUME IInv, NEW i, Found(store, i) \cap store.unread # {},
         AddLogEvent([op |-> "read", id |-> i]),
         UNCHANGED <<queries, told, updated, dangling, server, inflight, started, chatOk, fixed>>,
         overtaken' \in BOOLEAN, overtaken => overtaken'
  PROVE  IInv'
<1>1. Reads(store, store', i) /\ LogFits'
  BY ReadIsLogged DEF fixed
<1>2. Consistent(store')
  BY <1>1, ReadConsistent DEF IInv
<1>3. QueriesFit' /\ ToldRightly'
  BY <1>1, PendingUntouched DEF Reads
<1>4. (overtaken \/ (NotOvertaken /\ dangling = "none" /\ store.use = store.listed))'
  BY <1>1 DEF IInv, NotOvertaken, Reads, server
<1> QED
  BY <1>1, <1>2, <1>3, <1>4, ClientStep DEF IInv, TypeOK

(* The same if nothing is to be done.                                      *)
LEMMA NoEventKeepsIInv ==
  ASSUME IInv, NoEvent,
         UNCHANGED <<queries, told, updated, dangling, server, inflight, started, chatOk, fixed>>,
         overtaken' \in BOOLEAN, overtaken => overtaken'
  PROVE  IInv'
<1>1. UNCHANGED <<store, logged>> /\ Consistent(store') /\ LogFits'
  BY NothingDone DEF NoEvent, fixed
<1>2. QueriesFit' /\ ToldRightly'
  BY <1>1, PendingUntouched
<1>3. (overtaken \/ (NotOvertaken /\ dangling = "none" /\ store.use = store.listed))'
  BY <1>1 DEF IInv, NotOvertaken, server
<1> QED
  BY <1>1, <1>2, <1>3, ClientStep DEF IInv, TypeOK

(* A message that is fetched: a new one is created, which overtakes the    *)
(* answer that would give a message of ours its id, if that is to come.    *)
LEMMA FetchAllocMessageKeepsIInv ==
  ASSUME IInv, NEW i \in 1..MaxId, FetchAllocMessage(i)
  PROVE  IInv'
<1>1. PICK unread \in BOOLEAN :
        IF Found(store, i) \cap store.created = {}
        THEN AddLogEvent([op |-> "create", id |-> i, unread |-> unread])
        ELSE IF ~unread /\ Found(store, i) \cap store.unread # {}
        THEN AddLogEvent([op |-> "read", id |-> i])
        ELSE NoEvent
  BY DEF FetchAllocMessage
<1>2. /\ i \in 1..lastId /\ overtaken' = (overtaken \/ Overtakes(i))
      /\ UNCHANGED <<queries, told, updated, dangling, server, inflight, started, chatOk,
                     fixed>>
  BY DEF FetchAllocMessage, Fetchable
<1>3. overtaken' \in BOOLEAN /\ (overtaken => overtaken')
  BY <1>2 DEF IInv, TypeOK, Overtakes
<1>4. CASE Found(store, i) \cap store.created = {}
  <2>1. AddLogEvent([op |-> "create", id |-> i, unread |-> unread])
    BY <1>1, <1>4
  <2>2. i \in Cell /\ i \notin Local
    BY Cells
  <2>3. Creates(store, store', i, unread) /\ LogFits'
    BY <1>2, <1>4, <2>1, <2>2, CreateIsLogged DEF fixed
  <2>4. Consistent(store')
    BY <1>2, <1>4, <2>3, CreateConsistent DEF IInv
  <2>5. QueriesFit' /\ ToldRightly'
    BY <1>2, <2>2, <2>3, PendingUntouched DEF Creates
  <2>6. (overtaken \/ (NotOvertaken /\ dangling = "none" /\ store.use = store.listed))'
    <3>1. CASE overtaken \/ Overtakes(i)
      BY <1>2, <3>1
    <3>2. CASE ~overtaken /\ ~Overtakes(i)
      <4>1. NotOvertaken'
        BY <1>2, <2>3, <3>2 DEF IInv, NotOvertaken, Creates, Overtakes, server
      <4> QED
        BY <1>2, <2>3, <3>2, <4>1 DEF IInv, Creates
    <3> QED
      BY <3>1, <3>2
  <2> QED
    BY <1>2, <1>3, <2>3, <2>4, <2>5, <2>6, ClientStep DEF IInv, TypeOK
<1>5. CASE /\ Found(store, i) \cap store.created # {}
           /\ ~unread /\ Found(store, i) \cap store.unread # {}
  BY <1>1, <1>2, <1>3, <1>5, ReadKeepsIInv
<1>6. CASE /\ Found(store, i) \cap store.created # {}
           /\ ~(~unread /\ Found(store, i) \cap store.unread # {})
  BY <1>1, <1>2, <1>3, <1>6, NoEventKeepsIInv
<1> QED
  BY <1>4, <1>5, <1>6

(* A message of the secret chat, with a content or without.                *)
LEMMA FetchAllocEncryptedMessageKeepsIInv ==
  ASSUME IInv, NEW c \in Incoming, FetchAllocEncryptedMessage(c)
  PROVE  IInv'
<1>1. /\ \/ store' = [store EXCEPT !.tree = @ \cup {c}] /\ UNCHANGED logged
         \/ /\ c \notin store.created
            /\ AddLogEvent([op |-> "create", id |-> c, unread |-> TRUE])
      /\ UNCHANGED <<queries, told, updated, dangling, server, inflight, started, chatOk,
                     overtaken, fixed>>
  BY DEF FetchAllocEncryptedMessage
<1>2. c \in Cell /\ c \notin Local /\ c \notin Nat
  BY Cells
<1>3. ASSUME NEW d \in store.tree, store.id[d] = c PROVE d = c
  <2>1. d \in Cell
    BY DEF IInv, Consistent, Store
  <2>2. d \in Plain => sid[d] \in Nat
    BY Cells DEF IInv, TypeOK
  <2> QED
    BY <1>2, <1>3, <2>1, <2>2 DEF IInv, Consistent
<1>4. store.id[c] = c
  BY <1>2, Cells DEF IInv, Consistent
<1>5. CASE store' = [store EXCEPT !.tree = @ \cup {c}] /\ UNCHANGED logged
  <2>1. /\ store' \in Store /\ store'.tree = store.tree \cup {c} /\ store'.id = store.id
        /\ store'.created = store.created /\ store'.pending = store.pending
        /\ store'.unsent = store.unsent /\ store'.unread = store.unread
        /\ store'.listed = store.listed /\ store'.use = store.use
        /\ store'.failed = store.failed
    BY <1>2, <1>5 DEF IInv, TypeOK, Store
  <2>2. Consistent(store')
    BY <1>2, <1>3, <1>4, <2>1 DEF IInv, Consistent
  <2>3. LogFits'
    BY <1>1, <1>5, <2>1 DEF IInv, LogFits, Logs, fixed
  <2>4. QueriesFit' /\ ToldRightly'
    BY <1>1, <1>2, <2>1, PendingUntouched
  <2>5. (overtaken \/ (NotOvertaken /\ dangling = "none" /\ store.use = store.listed))'
    <3>1. \A m \in queries : sid[m] # c
      BY <1>2 DEF IInv, TypeOK
    <3> QED
      BY <1>1, <2>1, <3>1 DEF IInv, NotOvertaken, server
  <2> QED
    BY <1>1, <2>2, <2>3, <2>4, <2>5, ClientStep DEF IInv, TypeOK
<1>6. CASE /\ c \notin store.created
           /\ AddLogEvent([op |-> "create", id |-> c, unread |-> TRUE])
  <2>1. Found(store, c) \cap store.created = {}
    BY <1>3, <1>6 DEF Found
  <2>2. Creates(store, store', c, TRUE) /\ LogFits'
    BY <1>1, <1>2, <1>6, <2>1, CreateIsLogged DEF fixed
  <2>3. Consistent(store')
    BY <2>1, <2>2, CreateConsistent DEF IInv
  <2>4. QueriesFit' /\ ToldRightly'
    BY <1>1, <1>2, <2>2, PendingUntouched DEF Creates
  <2>5. (overtaken \/ (NotOvertaken /\ dangling = "none" /\ store.use = store.listed))'
    <3>1. \A m \in queries : sid[m] # c
      BY <1>2 DEF IInv, TypeOK
    <3> QED
      BY <1>1, <2>2, <3>1 DEF IInv, NotOvertaken, Creates, server
  <2> QED
    BY <1>1, <2>2, <2>3, <2>4, <2>5, ClientStep DEF IInv, TypeOK
<1> QED
  BY <1>1, <1>5, <1>6

(* A message the peer or the server says is read.                          *)
LEMMA UpdateReadMessagesKeepsIInv ==
  ASSUME IInv, NEW i \in 1..MaxId, UpdateReadMessages(i)
  PROVE  IInv'
<1>1. /\ IF Found(store, i) \cap store.unread # {}
         THEN AddLogEvent([op |-> "read", id |-> i]) ELSE NoEvent
      /\ UNCHANGED <<queries, told, updated, dangling, server, inflight, started, chatOk,
                     overtaken, fixed>>
  BY DEF UpdateReadMessages
<1>2. overtaken' \in BOOLEAN /\ (overtaken => overtaken')
  BY <1>1 DEF IInv, TypeOK
<1>3. CASE Found(store, i) \cap store.unread # {}
  BY <1>1, <1>2, <1>3, ReadKeepsIInv
<1>4. CASE Found(store, i) \cap store.unread = {}
  BY <1>1, <1>2, <1>4, NoEventKeepsIInv
<1> QED
  BY <1>3, <1>4

(* The messages to the secret chat are read, and no event tells.           *)
LEMMA UpdateEncryptedMessagesReadKeepsIInv ==
  ASSUME IInv, UpdateEncryptedMessagesRead
  PROVE  IInv'
<1>1. /\ store' = [store EXCEPT !.unread = @ \ (Encrypted \cap store.listed)]
      /\ UNCHANGED <<logged, queries, told, updated, dangling, server, inflight, started,
                     chatOk, overtaken, fixed>>
  BY DEF UpdateEncryptedMessagesRead
<1>2. /\ store' \in Store /\ store'.tree = store.tree /\ store'.id = store.id
      /\ store'.created = store.created /\ store'.pending = store.pending
      /\ store'.unsent = store.unsent
      /\ store'.unread = store.unread \ (Encrypted \cap store.listed)
      /\ store'.listed = store.listed /\ store'.use = store.use
      /\ store'.failed = store.failed
  BY <1>1 DEF IInv, TypeOK, Store
<1>3. Consistent(store')
  BY <1>2 DEF IInv, Consistent
<1>4. LogFits'
  <2>1. CASE binlog_enabled
    <3>1. store.unread \subseteq store.created
      BY DEF IInv, Consistent
    <3>2. Logs(logged, store')
      BY <1>2, <2>1, <3>1 DEF IInv, LogFits, Logs
    <3> QED
      BY <1>1, <2>1, <3>2 DEF LogFits, fixed
  <2>2. CASE ~binlog_enabled
    BY <1>1, <2>2 DEF IInv, LogFits, fixed
  <2> QED
    BY <2>1, <2>2
<1>5. QueriesFit' /\ ToldRightly'
  BY <1>1, <1>2, PendingUntouched
<1>6. (overtaken \/ (NotOvertaken /\ dangling = "none" /\ store.use = store.listed))'
  BY <1>1, <1>2 DEF IInv, NotOvertaken, server
<1> QED
  BY <1>1, <1>3, <1>4, <1>5, <1>6, ClientStep DEF IInv, TypeOK

(* A restart finds what the log has, and sends again what is pending.      *)
LEMMA RestartKeepsIInv ==
  ASSUME IInv, Restart
  PROVE  IInv'
<1>1. /\ crashes < MaxCrashes /\ crashes' = crashes + 1 /\ dangling # "overwritten"
      /\ store' = logged /\ queries' = Sendable(logged.unsent)
      /\ inflight' = inflight \cup queries' /\ updated' = {}
      /\ UNCHANGED <<logged, told, dangling, outcome, sid, lastId, started, chatOk, overtaken,
                     binlog_enabled>>
  BY DEF Restart, server
<1>2. Consistent(store')
  BY <1>1, LogConsistent
<1>3. Consistent(store)'
  BY <1>1, <1>2, ConsistentUnchanged
<1>4. /\ queries' \subseteq store'.pending /\ store'.pending \cap Plain \subseteq queries'
      /\ store'.pending \subseteq store.pending /\ store'.tree \subseteq store.tree
      /\ store'.pending \subseteq Local \cap started
  BY <1>1, <1>2, EmptyStoreFields DEF IInv, LogFits, Logs, Consistent, Sendable
<1>5. TypeOK'
  <2>1. crashes' \in 0..MaxCrashes
    BY <1>1, ConstantsAssumption DEF IInv, TypeOK
  <2>2. queries' \subseteq Local /\ inflight' \subseteq Local
    BY <1>1, <1>4 DEF IInv, TypeOK
  <2> QED
    BY <1>1, <2>1, <2>2 DEF IInv, TypeOK
<1>6. ServerFits'
  BY <1>1, <1>4 DEF IInv, ServerFits
<1>7. QueriesFit'
  BY <1>4 DEF QueriesFit
<1>8. LogFits'
  <2>1. CASE binlog_enabled
    <3>1. Logs(logged, logged)
      BY <2>1, LogConsistent DEF IInv, LogFits, Logs, Store
    <3> QED
      BY <1>1, <2>1, <3>1 DEF LogFits
  <2>2. CASE ~binlog_enabled
    BY <1>1, <2>2 DEF IInv, LogFits
  <2> QED
    BY <2>1, <2>2
<1>9. ToldRightly'
  <2>1. ASSUME NEW m \in Local, told[m] # 0
        PROVE  /\ told[m] = sid[m] /\ m \notin store'.pending
               /\ m \in store'.tree => store'.id[m] = sid[m]
    <3>1. /\ told[m] = sid[m] /\ m \notin store.pending
          /\ m \in store.tree => store.id[m] = sid[m]
      BY <1>1, <2>1 DEF IInv, ToldRightly
    <3>2. CASE binlog_enabled
      BY <1>1, <1>4, <3>1, <3>2 DEF IInv, LogFits, Logs
    <3>3. CASE ~binlog_enabled
      BY <1>1, <3>1, <3>3, EmptyStoreFields DEF IInv, LogFits
    <3> QED
      BY <3>2, <3>3
  <2> QED
    BY <1>1, <2>1 DEF ToldRightly
<1>10. (overtaken \/ (NotOvertaken /\ dangling = "none" /\ store.use = store.listed))'
  <2>1. CASE ~overtaken
    <3>1. ASSUME NEW m \in queries', sid[m] # 0 PROVE sid[m] \notin store'.tree
      <4>1. m \in store.pending /\ m \in Plain
        BY <1>4, <3>1 DEF IInv, ServerFits, Consistent
      <4>2. m \in queries
        BY <4>1 DEF IInv, QueriesFit
      <4> QED
        BY <1>4, <2>1, <3>1, <4>2 DEF IInv, NotOvertaken
    <3>2. store'.use = store'.listed
      BY <1>1, <2>1, EmptyStoreFields DEF IInv, LogFits, Logs
    <3> QED
      BY <1>1, <2>1, <3>1, <3>2 DEF IInv, NotOvertaken
  <2> QED
    BY <1>1, <2>1
<1> QED
  BY <1>3, <1>5, <1>6, <1>7, <1>8, <1>9, <1>10 DEF IInv

-----------------------------------------------------------------------------
(* The server and the peer                                                 *)

(* The server takes a message it has not seen, or refuses it; an id it     *)
(* gives is new.                                                           *)
LEMMA ServerTakesKeepsIInv ==
  ASSUME IInv, NEW m \in Local, ServerTakes(m)
  PROVE  IInv'
<1>1. /\ m \in inflight /\ outcome[m] = "none"
      /\ UNCHANGED <<store, logged, queries, told, updated, dangling, inflight, started, chatOk,
                     overtaken, binlog_enabled, crashes>>
  BY DEF ServerTakes, client, fixed
<1>2. /\ sid[m] = 0 /\ m \in started /\ lastId \in Nat /\ MaxId \in Nat
      /\ sid \in [Local -> 0..MaxId] /\ lastId \in 0..MaxId
      /\ outcome \in [Local -> {"none", "accepted", "rejected"}]
      /\ store \in Store /\ store.tree \subseteq Cell
  BY <1>1, ConstantsAssumption DEF IInv, ServerFits, TypeOK, Store
<1>3. CASE /\ m \in Plain /\ lastId < MaxId
           /\ outcome' = [outcome EXCEPT ![m] = "accepted"]
           /\ lastId' = lastId + 1 /\ sid' = [sid EXCEPT ![m] = lastId + 1]
  <2>1. TypeOK'
    <3>1. lastId' \in 0..MaxId /\ sid' \in [Local -> 0..MaxId]
      BY <1>2, <1>3
    <3>2. outcome' \in [Local -> {"none", "accepted", "rejected"}]
      BY <1>2, <1>3
    <3> QED
      BY <1>1, <3>1, <3>2 DEF IInv, TypeOK
  <2>2. /\ sid'[m] = lastId + 1 /\ outcome'[m] = "accepted"
        /\ \A n \in Local \ {m} : sid'[n] = sid[n] /\ outcome'[n] = outcome[n]
    BY <1>2, <1>3
  <2>3. Consistent(store)'
    <3>1. ASSUME NEW c \in Cell
          PROVE  store.id[c] = c \/ (c \in Plain \ store.pending /\ store.id[c] = sid'[c] /\ sid'[c] # 0)
      <4>1. store.id[c] = c \/ (c \in Plain \ store.pending /\ store.id[c] = sid[c] /\ sid[c] # 0)
        BY DEF IInv, Consistent
      <4>2. c # m /\ c \in Plain => sid'[c] = sid[c]
        BY <2>2, Cells
      <4> QED
        BY <1>2, <4>1, <4>2
    <3>2. \A i \in store.tree \cap Nat : i <= lastId'
      BY <1>2, <1>3 DEF IInv, Consistent
    <3> QED
      BY <1>1, <3>1, <3>2 DEF IInv, Consistent
  <2>4. ServerFits'
    <3>1. \A n \in Local : sid[n] # 0 => sid[n] # lastId + 1
      BY <1>2 DEF IInv, ServerFits
    <3>2. \A n, k \in Local : sid'[n] = sid'[k] /\ sid'[n] # 0 => n = k
      BY <1>2, <2>2, <3>1 DEF IInv, ServerFits
    <3>3. \A n \in Local :
            /\ outcome'[n] # "none" => n \in inflight
            /\ sid'[n] # 0 => outcome'[n] = "accepted" /\ n \in Plain /\ sid'[n] <= lastId'
            /\ n \in Plain /\ outcome'[n] = "accepted" => sid'[n] # 0
      <4>1. ASSUME NEW n \in Local
            PROVE  /\ outcome'[n] # "none" => n \in inflight
                   /\ sid'[n] # 0 => outcome'[n] = "accepted" /\ n \in Plain /\ sid'[n] <= lastId'
                   /\ n \in Plain /\ outcome'[n] = "accepted" => sid'[n] # 0
        <5>1. CASE n = m
          BY <1>1, <1>2, <1>3, <2>2, <5>1
        <5>2. CASE n # m
          BY <1>2, <1>3, <2>2, <5>2 DEF IInv, ServerFits
        <5> QED
          BY <5>1, <5>2
      <4> QED
        BY <4>1
    <3> QED
      BY <1>1, <3>2, <3>3 DEF IInv, ServerFits
  <2>5. QueriesFit' /\ LogFits'
    BY <1>1 DEF IInv, QueriesFit, LogFits
  <2>6. ToldRightly'
    BY <1>1, <1>2, <2>2 DEF IInv, ToldRightly
  <2>7. (overtaken \/ (NotOvertaken /\ dangling = "none" /\ store.use = store.listed))'
    <3>1. lastId + 1 \notin store.tree
      BY <1>2 DEF IInv, Consistent
    <3> QED
      BY <1>1, <2>2, <3>1 DEF IInv, NotOvertaken, TypeOK
  <2> QED
    BY <2>1, <2>3, <2>4, <2>5, <2>6, <2>7 DEF IInv
<1>4. CASE /\ UNCHANGED <<sid, lastId>>
           /\ \/ m \in Encrypted /\ outcome' = [outcome EXCEPT ![m] = "accepted"]
              \/ outcome' = [outcome EXCEPT ![m] = "rejected"]
  <2>1. TypeOK'
    <3>1. outcome' \in [Local -> {"none", "accepted", "rejected"}]
      BY <1>2, <1>4
    <3> QED
      BY <1>1, <1>4, <3>1 DEF IInv, TypeOK
  <2>2. Consistent(store)'
    BY <1>1, <1>4 DEF IInv, Consistent
  <2>3. ServerFits'
    BY <1>1, <1>2, <1>4, Cells DEF IInv, ServerFits
  <2>4. QueriesFit' /\ LogFits' /\ ToldRightly'
    BY <1>1, <1>4 DEF IInv, QueriesFit, LogFits, ToldRightly
  <2>5. (overtaken \/ (NotOvertaken /\ dangling = "none" /\ store.use = store.listed))'
    BY <1>1, <1>4 DEF IInv, NotOvertaken
  <2> QED
    BY <2>1, <2>2, <2>3, <2>4, <2>5 DEF IInv
<1> QED
  BY <1>3, <1>4 DEF ServerTakes

(* The peer sends a message, which gets a new id.                          *)
LEMMA PeerSendsKeepsIInv ==
  ASSUME IInv, PeerSends
  PROVE  IInv'
<1>1. /\ lastId < MaxId /\ lastId' = lastId + 1
      /\ UNCHANGED <<store, logged, queries, told, updated, dangling, outcome, sid, inflight,
                     started, chatOk, overtaken, binlog_enabled, crashes>>
  BY DEF PeerSends, client, fixed
<1>2. lastId \in Nat /\ lastId' \in 0..MaxId
  BY <1>1, ConstantsAssumption DEF IInv, TypeOK
<1>3. TypeOK'
  BY <1>1, <1>2 DEF IInv, TypeOK
<1>4. Consistent(store)'
  BY <1>1, <1>2 DEF IInv, Consistent
<1>5. ServerFits'
  BY <1>1, <1>2 DEF IInv, ServerFits, TypeOK
<1>6. QueriesFit' /\ LogFits' /\ ToldRightly'
  BY <1>1 DEF IInv, QueriesFit, LogFits, ToldRightly
<1>7. (overtaken \/ (NotOvertaken /\ dangling = "none" /\ store.use = store.listed))'
  BY <1>1 DEF IInv, NotOvertaken
<1> QED
  BY <1>3, <1>4, <1>5, <1>6, <1>7 DEF IInv

(* What the invariant is about is left alone.                              *)
LEMMA UnchangedKeepsIInv ==
  ASSUME IInv, chatOk' \in BOOLEAN,
         UNCHANGED <<client, server, inflight, started, overtaken, fixed>>
  PROVE  IInv'
<1>1. UNCHANGED <<store, logged, queries, told, updated, dangling, outcome, sid, lastId, inflight,
                  started, overtaken, binlog_enabled, crashes>>
  BY DEF client, server, fixed
<1>2. TypeOK'
  BY <1>1 DEF IInv, TypeOK
<1>3. Consistent(store)' /\ ServerFits'
  BY <1>1 DEF IInv, Consistent, ServerFits
<1>4. QueriesFit' /\ LogFits' /\ ToldRightly'
  BY <1>1 DEF IInv, QueriesFit, LogFits, ToldRightly
<1>5. (overtaken \/ (NotOvertaken /\ dangling = "none" /\ store.use = store.listed))'
  BY <1>1 DEF IInv, NotOvertaken
<1> QED
  BY <1>2, <1>3, <1>4, <1>5 DEF IInv

-----------------------------------------------------------------------------
(* The theorems                                                            *)

(* Every step keeps the invariant.                                         *)
LEMMA NextIInv == IInv /\ [Next]_vars => IInv'
<1> SUFFICES ASSUME IInv, [Next]_vars PROVE IInv'
  OBVIOUS
<1>1. ASSUME NEW m \in Local,
             \/ SendMessage(m) \/ MsgSendOnAnswer(m) \/ MsgSendOnError(m)
             \/ MsgSendEncrOnAnswer(m) \/ UpdateMessageId(m) \/ ServerTakes(m)
      PROVE  IInv'
  BY <1>1, SendMessageKeepsIInv, MsgSendOnAnswerKeepsIInv, MsgSendOnErrorKeepsIInv,
     MsgSendEncrOnAnswerKeepsIInv, UpdateMessageIdKeepsIInv, ServerTakesKeepsIInv
<1>2. ASSUME NEW i \in 1..MaxId, FetchAllocMessage(i) \/ UpdateReadMessages(i)
      PROVE  IInv'
  BY <1>2, FetchAllocMessageKeepsIInv, UpdateReadMessagesKeepsIInv
<1>3. ASSUME NEW c \in Incoming, FetchAllocEncryptedMessage(c)
      PROVE  IInv'
  BY <1>3, FetchAllocEncryptedMessageKeepsIInv
<1>4. CASE UpdateEncryptedMessagesRead
  BY <1>4, UpdateEncryptedMessagesReadKeepsIInv
<1>5. CASE Restart
  BY <1>5, RestartKeepsIInv
<1>6. CASE PeerSends
  BY <1>6, PeerSendsKeepsIInv
<1>7. CASE ChatDiscarded
  BY <1>7, UnchangedKeepsIInv DEF ChatDiscarded
<1>8. CASE UNCHANGED vars
  BY <1>8, UnchangedKeepsIInv DEF vars, IInv, TypeOK
<1> QED
  BY <1>1, <1>2, <1>3, <1>4, <1>5, <1>6, <1>7, <1>8 DEF Next

(* The invariant holds in every state.                                     *)
LEMMA IInvAlways == Spec => []IInv
BY InitIInv, NextIInv, PTL DEF Spec

(* The trees, the lists, the flags and the outstanding queries describe    *)
(* the same messages, in whatever order answers, fetched messages and      *)
(* restarts come (structures.c, binlog.c, queries.c).                      *)
THEOREM MessagesAreRight == Spec => []MessagesRight
<1>1. IInv => MessagesRight
  BY DEF IInv, Consistent, QueriesFit, MessagesRight, UnsentIsPending, UniqueIds, ListedExactly,
     QueriesAlive
<1> QED
  BY <1>1, IInvAlways, PTL

(* No assertion of the events fails, in the structures or in a replay of   *)
(* the log (replay_log_event).                                             *)
THEOREM NoAssertionFails == Spec => []NoAssertFails
<1>1. IInv => NoAssertFails
  BY LogConsistent DEF IInv, Consistent, NoAssertFails
<1> QED
  BY <1>1, IInvAlways, PTL

(* The interface is told the id the server gave (msg_send_on_answer).      *)
THEOREM InterfaceIsToldRightly == Spec => []ToldRightly
<1>1. IInv => ToldRightly
  BY DEF IInv
<1> QED
  BY <1>1, IInvAlways, PTL

(* Replaying the log gives the structures there are (add_log_event), but   *)
(* for what no event tells.                                                *)
THEOREM TheLogAgrees == Spec => []LogAgrees
<1>1. IInv => LogAgrees
  <2> SUFFICES ASSUME IInv, binlog_enabled
               PROVE  logged = [store EXCEPT !.tree = store.created,
                                  !.unread = @ \cup (Encrypted \cap logged.unread)]
    BY DEF LogAgrees
  <2>1. Logs(logged, store) /\ store \in Store
    BY DEF IInv, LogFits, TypeOK
  <2> QED
    BY <2>1 DEF Logs, Store
<1> QED
  BY <1>1, IInvAlways, PTL

(* Nothing that was freed is used, if no message is fetched before its own *)
(* answer (binlog_set_msg_id frees the message it merges).                 *)
THEOREM NothingFreedIsUsed == Spec => []NothingFreedUsed
<1>1. IInv => NothingFreedUsed
  BY DEF IInv, NothingFreedUsed
<1> QED
  BY <1>1, IInvAlways, PTL
=============================================================================
