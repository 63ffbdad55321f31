----------------------------- MODULE SyncProofs -----------------------------
(***************************************************************************)
(* What the client holds of the server, for all bounds: the counters of    *)
(* the updates, the list of a chat's participants, the names of the peers  *)
(* and the commands that use them.                                         *)
(*                                                                         *)
(* Each part of MCSync takes a step of its component or leaves its         *)
(* variables alone.  For the updates the lemmas InitIInv and NextIInv of   *)
(* UpdatesProofs carry the argument; those of the participants, ChatInit   *)
(* and ChatNext, and of the names, NamesInit and NamesNext, are here.      *)
(***************************************************************************)
EXTENDS MCSync, FiniteSetTheorems, FunctionTheorems, SequenceTheorems, WellFoundedInduction, TLAPS

-----------------------------------------------------------------------------
(* One step of the three                                                   *)

(* A step of the three is a step of the updates or leaves them alone.      *)
LEMMA UpdatesStep ==
  ASSUME [Next]_sync_vars
  PROVE  [Upd!Next]_(Upd!vars)
<1>1. CASE UNCHANGED update_vars
  BY <1>1 DEF update_vars, Upd!vars, Upd!server, Upd!memory, Upd!saved, Upd!past,
     Upd!spent
<1>2. CASE OnlyUpdates /\ Upd!Next
  BY <1>2
<1> QED
  BY <1>1, <1>2 DEF Next, OnlyChat, OnlyPeers, sync_vars

(* A step of the three is a step of the chat or leaves it alone.           *)
LEMMA ChatStep ==
  ASSUME [Next]_sync_vars
  PROVE  [Chat!Next]_(Chat!roster_vars)
<1>1. CASE UNCHANGED roster_vars
  BY <1>1 DEF roster_vars, Chat!roster_vars
<1>2. CASE OnlyChat /\ Chat!Next
  BY <1>2
<1> QED
  BY <1>1, <1>2 DEF Next, OnlyUpdates, OnlyPeers, sync_vars

(* A step of the three is a step of the peers or leaves them alone.        *)
LEMMA PeersStep ==
  ASSUME [Next]_sync_vars
  PROVE  [Peer!Next]_(Peer!names_vars)
<1>1. CASE UNCHANGED names_vars
  BY <1>1 DEF names_vars, Peer!names_vars, Peer!core, Peer!copies
<1>2. CASE OnlyPeers /\ Peer!Next
  BY <1>2
<1> QED
  BY <1>1, <1>2 DEF Next, OnlyUpdates, OnlyChat, sync_vars

-----------------------------------------------------------------------------
(* Lists of participants                                                   *)

(* Participants counts and maps as this module does.                       *)
LEMMA CountedInChat ==
  ASSUME NEW S
  PROVE  (Chat!IsFiniteSet(S) <=> IsFiniteSet(S)) /\ Chat!Cardinality(S) = Cardinality(S)
<1>1. Chat!IsFiniteSet(S) <=> IsFiniteSet(S)
  BY Zenon DEF Chat!IsFiniteSet, IsFiniteSet
<1>2. Chat!Cardinality(S) = Cardinality(S)
  BY Zenon DEF Chat!Cardinality, Cardinality
<1> QED
  BY <1>1, <1>2

LEMMA MappedInChat ==
  ASSUME NEW f
  PROVE  Chat!Range(f) = Range(f) /\ (Chat!IsInjective(f) <=> IsInjective(f))
BY Zenon DEF Chat!Range, Range, Chat!IsInjective, IsInjective

(* A whole list (bl_do_set_chat_participants) holds each participant once. *)
LEMMA WholeList ==
  ASSUME NEW S, Chat!IsFiniteSet(S)
  PROVE  /\ Chat!SetToSeq(S) \in Seq(S)
         /\ Chat!Range(Chat!SetToSeq(S)) = S /\ Chat!IsInjective(Chat!SetToSeq(S))
<1> DEFINE n == Cardinality(S)
           f == Chat!SetToSeq(S)
<1>0. IsFiniteSet(S) /\ Chat!Cardinality(S) = n
  BY CountedInChat
<1>1. n \in Nat /\ ExistsBijection(1..n, S)
  BY <1>0, FS_CardinalityType
<1>2. PICK g \in Bijection(1..n, S) : TRUE
  BY <1>1 DEF ExistsBijection
<1>3. g \in [1..n -> S] /\ Chat!IsInjective(g)
  BY <1>2, MappedInChat DEF Bijection, Injection, IsInjective
<1> HIDE DEF n
<1>4. f \in [1..n -> S] /\ Chat!IsInjective(f)
  BY <1>0, <1>3 DEF Chat!SetToSeq
<1> HIDE DEF f
<1>5. f \in Seq(S)
  BY <1>1, <1>4, SeqDef
<1>6. Chat!Range(f) = S
  <2>1. f \in Injection(1..n, S) /\ DOMAIN f = 1..n
    BY <1>4, MappedInChat DEF Injection, IsInjective
  <2>2. f \in Bijection(1..n, Range(f))
    BY <2>1, Fun_InjMeansBijImage
  <2>3. Range(f) \in SUBSET S
    BY <1>4 DEF Range
  <2>4. Cardinality(Range(f)) = n
    BY <1>1, <2>2, FS_CountingElements DEF ExistsBijection
  <2>5. Range(f) = S
    BY <1>0, <2>3, <2>4, FS_Subset DEF n
  <2> QED
    BY <2>5, MappedInChat
<1> QED
  BY <1>4, <1>5, <1>6 DEF f

(* An added participant (bl_do_chat_add_user) comes last, once.            *)
LEMMA LongerList ==
  ASSUME NEW S, NEW s \in Seq(S), NEW u \in S
  PROVE  /\ Append(s, u) \in Seq(S)
         /\ Chat!Range(Append(s, u)) = Chat!Range(s) \cup {u}
         /\ Chat!IsInjective(s) /\ u \notin Chat!Range(s) => Chat!IsInjective(Append(s, u))
<1>1. Len(s) \in Nat /\ DOMAIN s = 1..Len(s)
  BY LenProperties
<1>2. /\ Append(s, u) \in Seq(S) /\ Len(Append(s, u)) = Len(s) + 1
      /\ \A i \in 1..Len(s) : Append(s, u)[i] = s[i]
      /\ Append(s, u)[Len(s) + 1] = u
  BY AppendProperties
<1>3. DOMAIN Append(s, u) = 1..Len(s) + 1
  BY <1>2, LenProperties
<1>4. Chat!Range(Append(s, u)) = Chat!Range(s) \cup {u}
  <2>1. ASSUME NEW x \in Chat!Range(s) PROVE x \in Chat!Range(Append(s, u))
    BY <1>1, <1>2, <1>3 DEF Chat!Range
  <2>2. u \in Chat!Range(Append(s, u))
    BY <1>1, <1>2, <1>3 DEF Chat!Range
  <2>3. ASSUME NEW x \in Chat!Range(Append(s, u)) PROVE x \in Chat!Range(s) \cup {u}
    BY <1>1, <1>2, <1>3 DEF Chat!Range
  <2> QED
    BY <2>1, <2>2, <2>3
<1>5. ASSUME Chat!IsInjective(s), u \notin Chat!Range(s) PROVE Chat!IsInjective(Append(s, u))
  BY <1>1, <1>2, <1>3, <1>5 DEF Chat!IsInjective, Chat!Range
<1> QED
  BY <1>2, <1>4, <1>5

-----------------------------------------------------------------------------
(* The server                                                              *)

(* What the invariant says of the roster, unfolded.                        *)
LEMMA RosterProperties ==
  ASSUME Chat!IInv
  PROVE  /\ roster \in Seq(SUBSET Members) /\ Chat!Newest \in Nat \ {0}
         /\ Chat!Versions = 1..Chat!Newest
         /\ \A v \in 1..Chat!Newest : roster[v] \in SUBSET Members
<1>1. roster \in Seq(SUBSET Members) /\ Chat!Newest \in 1..MaxVersion
  BY DEF Chat!IInv, Chat!TypeOK
<1>2. Chat!Newest \in Nat /\ DOMAIN roster = 1..Chat!Newest
  BY <1>1, LenProperties DEF Chat!Newest
<1> QED
  BY <1>1, <1>2, ElementOfSeq DEF Chat!Versions, Chat!Newest

(* A new version (bl_do_... is not yet told of it) leaves what was said of *)
(* the older ones as it is.                                                *)
LEMMA ChangeKeepsChat ==
  ASSUME Chat!ParticipantsAssumption, Chat!IInv,
         NEW is \in {"add", "delete"}, NEW members \in SUBSET Members, NEW u \in Members,
         is = "add" => u \notin roster[Chat!Newest] /\ members = roster[Chat!Newest] \cup {u},
         is = "delete" => u \in roster[Chat!Newest] /\ members = roster[Chat!Newest] \ {u},
         Chat!Change(is, members, u)
  PROVE  Chat!IInv'
<1>0. PICK n \in Nat \ {0} : n = Chat!Newest
  BY RosterProperties
<1>1. /\ roster \in Seq(SUBSET Members) /\ Chat!Versions = 1..n /\ Chat!Newest = n
      /\ \A v \in 1..n : roster[v] \in SUBSET Members
  BY <1>0, RosterProperties
<1>2. /\ n < MaxVersion /\ roster' = Append(roster, members)
      /\ feed' = Append(feed, Chat!Told(is, n + 1, u))
      /\ UNCHANGED <<repeats, chat, chatLog, chatLogged, failed, heard, whole, starts>>
  BY <1>0 DEF Chat!Change, Chat!Send, Chat!ClientSame
<1>3. /\ roster' \in Seq(SUBSET Members) /\ Chat!Newest' = n + 1
      /\ \A v \in 1..n : roster'[v] = roster[v]
      /\ roster'[n + 1] = members
  BY <1>1, <1>2, AppendProperties DEF Chat!Newest
<1>4. Chat!Versions' = 1..n + 1
  BY <1>1, <1>3, LenProperties DEF Chat!Versions, Chat!Newest
<1>5. (Chat!SomebodyLeft => Chat!SomebodyLeft') /\ (is = "delete" => Chat!SomebodyLeft')
  <2>1. ASSUME Chat!SomebodyLeft PROVE Chat!SomebodyLeft'
    <3>1. PICK v \in Chat!Versions \ {1} : ~(roster[v - 1] \subseteq roster[v])
      BY <2>1 DEF Chat!SomebodyLeft
    <3>2. v \in (1..n) \ {1} /\ v - 1 \in 1..n
      BY <1>1, <3>1
    <3>3. ~(roster'[v - 1] \subseteq roster'[v]) /\ v \in Chat!Versions' \ {1}
      BY <1>1, <1>3, <1>4, <3>1, <3>2
    <3> QED
      BY <3>3 DEF Chat!SomebodyLeft
  <2>2. ASSUME is = "delete" PROVE Chat!SomebodyLeft'
    <3>1. n + 1 \in Chat!Versions' \ {1} /\ (n + 1) - 1 = n /\ n \in 1..n
      BY <1>1, <1>4
    <3>2. ~(roster'[(n + 1) - 1] \subseteq roster'[n + 1])
      BY <1>0, <1>3, <2>2, <3>1
    <3> QED
      BY <3>1, <3>2 DEF Chat!SomebodyLeft
  <2> QED
    BY <2>1, <2>2
<1>6. Chat!Adds(n + 1, u)' \/ Chat!Deletes(n + 1, u)'
  <2>1. (n + 1) - 1 = n /\ n \in 1..n
    BY <1>1
  <2> QED
    BY <1>0, <1>3, <2>1 DEF Chat!Adds, Chat!Deletes
<1>7. /\ is = "add" => Chat!Adds(n + 1, u)'
      /\ is = "delete" => Chat!Deletes(n + 1, u)'
  <2>1. (n + 1) - 1 = n /\ n \in 1..n
    BY <1>1
  <2> QED
    BY <1>0, <1>3, <2>1 DEF Chat!Adds, Chat!Deletes
<1>8. \A v \in (1..n) \ {1} : \A w \in Members :
        (Chat!Adds(v, w) => Chat!Adds(v, w)') /\ (Chat!Deletes(v, w) => Chat!Deletes(v, w)')
  <2> SUFFICES ASSUME NEW v \in (1..n) \ {1}, NEW w \in Members
               PROVE  (Chat!Adds(v, w) => Chat!Adds(v, w)') /\ (Chat!Deletes(v, w) => Chat!Deletes(v, w)')
    OBVIOUS
  <2>1. v - 1 \in 1..n
    BY <1>1
  <2>2. roster'[v] = roster[v] /\ roster'[v - 1] = roster[v - 1]
    BY <1>3, <2>1
  <2> QED
    BY <2>2 DEF Chat!Adds, Chat!Deletes
<1>9. Chat!RosterFits'
  <2>1. Chat!RosterFits
    BY DEF Chat!IInv
  <2>2. ASSUME NEW v \in Chat!Versions' PROVE Chat!IsFiniteSet(roster'[v])
    <3>1. CASE v \in 1..n
      BY <1>1, <1>3, <2>1, <3>1 DEF Chat!RosterFits
    <3>2. CASE v = n + 1
      <4>1. n \in Chat!Versions
        BY <1>1
      <4>2. Chat!IsFiniteSet(roster[n])
        BY <2>1, <4>1 DEF Chat!RosterFits
      <4>3. Chat!IsFiniteSet(roster[n] \cup {u}) /\ Chat!IsFiniteSet(roster[n] \ {u})
        BY <4>2, CountedInChat, FS_AddElement, FS_RemoveElement
      <4> QED
        BY <1>0, <1>3, <3>2, <4>3
    <3> QED
      BY <1>1, <1>4, <3>1, <3>2
  <2>3. ASSUME NEW v \in Chat!Versions' \ {1}
        PROVE  \E w \in Members : Chat!Adds(v, w)' \/ Chat!Deletes(v, w)'
    <3>1. CASE v \in 1..n
      <4>1. v \in Chat!Versions \ {1} /\ v \in (1..n) \ {1}
        BY <1>1, <3>1
      <4>2. PICK w \in Members : Chat!Adds(v, w) \/ Chat!Deletes(v, w)
        BY <2>1, <4>1 DEF Chat!RosterFits
      <4> QED
        BY <1>8, <4>1, <4>2
    <3>2. CASE v = n + 1
      BY <1>6, <3>2
    <3> QED
      BY <1>1, <1>4, <3>1, <3>2
  <2>4. ASSUME ~Chat!SomebodyLeft', NEW v \in Chat!Versions', NEW w \in Chat!Versions', v <= w
        PROVE  roster'[v] \subseteq roster'[w]
    <3>1. ~Chat!SomebodyLeft /\ is = "add"
      BY <1>5, <2>4
    <3>2. \A x, y \in 1..n : x <= y => roster[x] \subseteq roster[y]
      BY <1>1, <2>1, <3>1 DEF Chat!RosterFits
    <3>3. CASE w \in 1..n
      <4>1. v \in 1..n
        BY <1>1, <1>4, <2>4, <3>3
      <4> QED
        BY <1>3, <2>4, <3>2, <3>3, <4>1
    <3>4. CASE w = n + 1 /\ v \in 1..n
      <4>1. roster[v] \subseteq roster[n]
        BY <1>1, <3>2, <3>4
      <4> QED
        BY <1>0, <1>3, <3>1, <3>4, <4>1
    <3>5. CASE w = n + 1 /\ v = n + 1
      BY <3>5
    <3> QED
      BY <1>1, <1>4, <3>3, <3>4, <3>5
  <2> QED
    BY <2>2, <2>3, <2>4 DEF Chat!RosterFits
<1>10. Chat!Message \subseteq Chat!Message'
  <2> SUFFICES ASSUME NEW m \in Chat!Message PROVE m \in Chat!Message'
    OBVIOUS
  <2>1. m \in [is : Chat!Kind, v : Chat!Versions', u : Members]
    BY <1>1, <1>4 DEF Chat!Message
  <2>2. m.v \in 1..n /\ m.u \in Members
    BY <1>1 DEF Chat!Message
  <2>3. m.is = "add" => m.v > 1 /\ Chat!Adds(m.v, m.u)'
    BY <1>8, <2>2 DEF Chat!Message
  <2>4. m.is = "delete" => m.v > 1 /\ Chat!Deletes(m.v, m.u)'
    BY <1>8, <2>2 DEF Chat!Message
  <2> QED
    BY <2>1, <2>3, <2>4 DEF Chat!Message
<1>11. Chat!Told(is, n + 1, u) \in Chat!Message'
  <2>1. n + 1 \in Chat!Versions' /\ n + 1 > 1
    BY <1>1, <1>4
  <2> QED
    BY <1>7, <2>1 DEF Chat!Message, Chat!Told, Chat!Kind
<1>12. feed' \in Seq(Chat!Message')
  <2>1. feed \in Seq(Chat!Message')
    BY <1>10, SeqMonotonic DEF Chat!IInv
  <2> QED
    BY <1>0, <1>2, <1>11, <2>1, AppendProperties
<1>13. Chat!TypeOK'
  <2>1. \A k \in DOMAIN feed' : feed'[k].v \in Chat!Versions' /\ feed'[k].is \in Chat!Kind
    BY <1>12, LenProperties, ElementOfSeq DEF Chat!Message
  <2>2. Chat!Newest' \in 1..MaxVersion
    BY <1>0, <1>1, <1>2, <1>3 DEF Chat!ParticipantsAssumption
  <2>3. Chat!TypeOK /\ Chat!Versions \subseteq Chat!Versions'
    BY <1>1, <1>4 DEF Chat!IInv
  <2> QED
    BY <1>2, <1>3, <2>1, <2>2, <2>3 DEF Chat!TypeOK
<1>14. chat.listVersion \in Nat /\ (chat.listVersion > 0 => chat.listVersion \in 1..n)
  BY <1>1 DEF Chat!IInv, Chat!TypeOK, Chat!ChatState
<1>15. Chat!ListFits' /\ Chat!LogFits' /\ Chat!ListAgrees' /\ Chat!FailureNeedsRemoval'
  <2>1. Chat!ListFits /\ Chat!LogFits /\ Chat!ListAgrees /\ Chat!FailureNeedsRemoval
    BY DEF Chat!IInv
  <2>2. Chat!ListFits'
    <3>1. heard' \subseteq 1..chat'.listVersion /\ whole' <= chat'.listVersion
      BY <1>2, <2>1 DEF Chat!ListFits
    <3>2. CASE ~Chat!SomebodyLeft /\ chat.listVersion # 0
      <4>1. chat.listVersion \in 1..n /\ chat' = chat
        BY <1>2, <1>14, <3>2
      <4>2. roster'[chat.listVersion] = roster[chat.listVersion]
        BY <1>3, <4>1
      <4> QED
        BY <2>1, <3>1, <3>2, <4>1, <4>2 DEF Chat!ListFits
    <3> QED
      BY <1>2, <1>5, <3>1, <3>2 DEF Chat!ListFits
  <2>3. Chat!ListAgrees'
    BY <1>2, <1>3, <1>14, <2>1 DEF Chat!ListAgrees
  <2> QED
    BY <1>2, <1>5, <2>1, <2>2, <2>3 DEF Chat!LogFits, Chat!FailureNeedsRemoval
<1> QED
  BY <1>9, <1>12, <1>13, <1>15 DEF Chat!IInv

(* A step that moves messages only, of which each tells what is so.        *)
LEMMA FeedKeepsChat ==
  ASSUME Chat!IInv, feed' \in Seq(Chat!Message), repeats' \in 0..MaxRepeats,
         UNCHANGED <<roster, chat, chatLog, chatLogged, failed, heard, whole, starts>>
  PROVE  Chat!IInv'
<1>1. Chat!Message' = Chat!Message
  BY DEF Chat!Message, Chat!Versions, Chat!Adds, Chat!Deletes
<1>2. \A k \in DOMAIN feed' : feed'[k].v \in Chat!Versions /\ feed'[k].is \in Chat!Kind
  BY LenProperties, ElementOfSeq DEF Chat!Message
<1>3. Chat!TypeOK'
  BY <1>2 DEF Chat!IInv, Chat!TypeOK, Chat!Versions, Chat!Newest
<1>4. Chat!RosterFits'
  BY DEF Chat!IInv, Chat!RosterFits, Chat!Versions, Chat!SomebodyLeft, Chat!Adds, Chat!Deletes
<1>5. Chat!ListFits' /\ Chat!LogFits' /\ Chat!ListAgrees' /\ Chat!FailureNeedsRemoval'
  BY DEF Chat!IInv, Chat!ListFits, Chat!LogFits, Chat!ListAgrees, Chat!FailureNeedsRemoval, Chat!SomebodyLeft, Chat!Versions
<1> QED
  BY <1>1, <1>3, <1>4, <1>5 DEF Chat!IInv

(* Somebody comes into the chat.                                           *)
LEMMA ServerAddsKeepsChat ==
  ASSUME Chat!ParticipantsAssumption, Chat!IInv, Chat!ServerAdds
  PROVE  Chat!IInv'
<1>1. PICK u \in Members \ roster[Chat!Newest] : Chat!Change("add", roster[Chat!Newest] \cup {u}, u)
  BY DEF Chat!ServerAdds
<1>2. roster[Chat!Newest] \in SUBSET Members
  BY RosterProperties
<1> QED
  BY <1>1, <1>2, ChangeKeepsChat

(* Somebody leaves the chat.                                               *)
LEMMA ServerDeletesKeepsChat ==
  ASSUME Chat!ParticipantsAssumption, Chat!IInv, Chat!ServerDeletes
  PROVE  Chat!IInv'
<1>1. PICK u \in roster[Chat!Newest] : Chat!Change("delete", roster[Chat!Newest] \ {u}, u)
  BY DEF Chat!ServerDeletes
<1>2. roster[Chat!Newest] \in SUBSET Members
  BY RosterProperties
<1> QED
  BY <1>1, <1>2, ChangeKeepsChat

(* The chat as the server has it is told.                                  *)
LEMMA ServerTellsKeepsChat ==
  ASSUME Chat!ParticipantsAssumption, Chat!IInv, Chat!ServerTells
  PROVE  Chat!IInv'
<1>1. PICK is \in {"list", "chat", "forbidden", "full"} :
        Chat!Send(Chat!Told(is, Chat!Newest, CHOOSE u \in Members : TRUE))
  BY DEF Chat!ServerTells
<1>2. (CHOOSE u \in Members : TRUE) \in Members
  BY DEF Chat!ParticipantsAssumption
<1>3. Chat!Newest \in Chat!Versions
  BY RosterProperties
<1>4. Chat!Told(is, Chat!Newest, CHOOSE u \in Members : TRUE) \in Chat!Message
  BY <1>1, <1>2, <1>3 DEF Chat!Message, Chat!Told, Chat!Kind
<1>5. feed' \in Seq(Chat!Message)
  BY <1>1, <1>4, AppendProperties DEF Chat!Send, Chat!IInv
<1> QED
  BY <1>5, FeedKeepsChat DEF Chat!ServerTells, Chat!ClientSame, Chat!IInv, Chat!TypeOK

(* An update that comes again tells what it told.                          *)
LEMMA ServerRepeatsKeepsChat ==
  ASSUME Chat!ParticipantsAssumption, Chat!IInv, Chat!ServerRepeats
  PROVE  Chat!IInv'
<1>1. PICK v \in Chat!Versions \ {1} :
        /\ repeats < MaxRepeats /\ repeats' = repeats + 1
        /\ \/ \E u \in roster[v] \ roster[v - 1] : Chat!Send(Chat!Told("add", v, u))
           \/ \E u \in roster[v - 1] \ roster[v] : Chat!Send(Chat!Told("delete", v, u))
           \/ Chat!Send(Chat!Told("list", v, CHOOSE u \in Members : TRUE))
        /\ UNCHANGED roster /\ Chat!ClientSame
  BY DEF Chat!ServerRepeats
<1>2. v \in Nat /\ v > 1 /\ roster[v] \subseteq Members /\ roster[v - 1] \subseteq Members
  BY RosterProperties
<1>3. PICK w \in Members : Chat!Adds(v, w) \/ Chat!Deletes(v, w)
  BY DEF Chat!IInv, Chat!RosterFits
<1>4. ASSUME NEW m \in Chat!Message, Chat!Send(m) PROVE feed' \in Seq(Chat!Message)
  BY <1>4, AppendProperties DEF Chat!Send, Chat!IInv
<1>5. feed' \in Seq(Chat!Message)
  <2>1. ASSUME NEW u \in roster[v] \ roster[v - 1], Chat!Send(Chat!Told("add", v, u))
        PROVE  feed' \in Seq(Chat!Message)
    <3>1. u = w /\ Chat!Adds(v, u) /\ u \in Members
      BY <1>2, <1>3, <2>1 DEF Chat!Adds, Chat!Deletes
    <3>2. Chat!Told("add", v, u) \in Chat!Message
      BY <1>2, <3>1 DEF Chat!Message, Chat!Told, Chat!Kind
    <3> QED
      BY <1>4, <2>1, <3>2
  <2>2. ASSUME NEW u \in roster[v - 1] \ roster[v], Chat!Send(Chat!Told("delete", v, u))
        PROVE  feed' \in Seq(Chat!Message)
    <3>1. u = w /\ Chat!Deletes(v, u) /\ u \in Members
      BY <1>2, <1>3, <2>2 DEF Chat!Adds, Chat!Deletes
    <3>2. Chat!Told("delete", v, u) \in Chat!Message
      BY <1>2, <3>1 DEF Chat!Message, Chat!Told, Chat!Kind
    <3> QED
      BY <1>4, <2>2, <3>2
  <2>3. ASSUME Chat!Send(Chat!Told("list", v, CHOOSE u \in Members : TRUE))
        PROVE  feed' \in Seq(Chat!Message)
    <3>1. (CHOOSE u \in Members : TRUE) \in Members
      BY DEF Chat!ParticipantsAssumption
    <3>2. Chat!Told("list", v, CHOOSE u \in Members : TRUE) \in Chat!Message
      BY <1>2, <3>1 DEF Chat!Message, Chat!Told, Chat!Kind
    <3> QED
      BY <1>4, <2>3, <3>2
  <2> QED
    BY <1>1, <2>1, <2>2, <2>3
<1>6. repeats' \in 0..MaxRepeats
  BY <1>1 DEF Chat!IInv, Chat!TypeOK, Chat!ParticipantsAssumption
<1> QED
  BY <1>1, <1>5, <1>6, FeedKeepsChat DEF Chat!ClientSame

(* An update is lost.                                                      *)
LEMMA UpdateLostKeepsChat ==
  ASSUME Chat!ParticipantsAssumption, Chat!IInv, Chat!UpdateLost
  PROVE  Chat!IInv'
<1>1. feed' \in Seq(Chat!Message)
  BY HeadTailProperties DEF Chat!UpdateLost, Chat!IInv
<1>2. repeats' \in 0..MaxRepeats
  BY DEF Chat!UpdateLost, Chat!IInv, Chat!TypeOK, Chat!ParticipantsAssumption
<1> QED
  BY <1>1, <1>2, FeedKeepsChat DEF Chat!UpdateLost, Chat!ClientSame

-----------------------------------------------------------------------------
(* The handlers                                                            *)

(* fetch_chat changes what the chat is called and counts, not its list.    *)
LEMMA FetchChatProperties ==
  ASSUME Chat!IInv, NEW c \in Chat!ChatState, NEW is \in Chat!Kind, NEW v \in Chat!Versions
  PROVE  /\ Chat!FetchChat(c, is, v) \in Chat!ChatState
         /\ Chat!FetchChat(c, is, v).listVersion = c.listVersion
         /\ Chat!FetchChat(c, is, v).list = c.list
<1> DEFINE n == Chat!Cardinality(roster[v])
<1>1. n \in Nat
  <2>1. Chat!IsFiniteSet(roster[v])
    BY DEF Chat!IInv, Chat!RosterFits
  <2> QED
    BY <2>1, CountedInChat, FS_CardinalityType
<1>2. v \in Nat
  BY RosterProperties
<1> HIDE DEF n
<1>3. ASSUME NEW d \in Chat!ChatState, NEW y \in BOOLEAN, NEW i \in Int, NEW j \in Int
      PROVE  /\ Chat!DoCreateChat(d, y, i, j) \in Chat!ChatState
             /\ Chat!DoCreateChat(d, y, i, j).listVersion = d.listVersion
             /\ Chat!DoCreateChat(d, y, i, j).list = d.list
  BY DEF Chat!DoCreateChat, Chat!ChatState
<1>4. ASSUME NEW d \in Chat!ChatState, NEW y \in BOOLEAN
      PROVE  /\ Chat!DoChatForbid(d, y) \in Chat!ChatState
             /\ Chat!DoChatForbid(d, y).listVersion = d.listVersion
             /\ Chat!DoChatForbid(d, y).list = d.list
  BY DEF Chat!DoChatForbid, Chat!ChatState
<1>5. ASSUME NEW d \in Chat!ChatState, NEW i \in Int, NEW j \in Int
      PROVE  /\ Chat!DoSetChatVersion(d, i, j) \in Chat!ChatState
             /\ Chat!DoSetChatVersion(d, i, j).listVersion = d.listVersion
             /\ Chat!DoSetChatVersion(d, i, j).list = d.list
  BY DEF Chat!DoSetChatVersion, Chat!ChatState
<1>6. CASE ~c.created
  <2> DEFINE x == is = "forbidden"
             i == IF x THEN -1 ELSE n
             j == IF x THEN -1 ELSE v
  <2>1. i \in Int /\ j \in Int /\ x \in BOOLEAN
    BY <1>1, <1>2
  <2>2. Chat!FetchChat(c, is, v) = Chat!DoCreateChat(c, x, i, j)
    BY <1>6 DEF Chat!FetchChat, n
  <2> HIDE DEF x, i, j
  <2> QED
    BY <1>3, <2>1, <2>2
<1>7. CASE c.created /\ is = "forbidden"
  <2>1. Chat!FetchChat(c, is, v) = Chat!DoChatForbid(c, TRUE)
    BY <1>7 DEF Chat!FetchChat
  <2> QED
    BY <1>4, <2>1
<1>8. CASE c.created /\ is # "forbidden"
  <2>1. Chat!FetchChat(c, is, v) = Chat!DoSetChatVersion(Chat!DoChatForbid(c, FALSE), n, v)
    BY <1>8 DEF Chat!FetchChat, n
  <2>2. /\ Chat!DoChatForbid(c, FALSE) \in Chat!ChatState
        /\ Chat!DoChatForbid(c, FALSE).listVersion = c.listVersion
        /\ Chat!DoChatForbid(c, FALSE).list = c.list
    BY <1>4
  <2> DEFINE e == Chat!DoChatForbid(c, FALSE)
  <2>3. e \in Chat!ChatState
    BY <2>2
  <2> HIDE DEF e
  <2>4. /\ Chat!DoSetChatVersion(e, n, v) \in Chat!ChatState
        /\ Chat!DoSetChatVersion(e, n, v).listVersion = e.listVersion
        /\ Chat!DoSetChatVersion(e, n, v).list = e.list
    BY <1>1, <1>2, <1>5, <2>3
  <2> QED
    BY <2>1, <2>2, <2>4 DEF e
<1> QED
  BY <1>6, <1>7, <1>8

(* A whole list is taken if it is newer.                                   *)
LEMMA SetParticipantsProperties ==
  ASSUME Chat!IInv, NEW c \in Chat!ChatState, NEW v \in Chat!Versions
  PROVE  LET d == Chat!DoSetChatParticipants(c, v, roster[v])
         IN  /\ d \in Chat!ChatState
             /\ c.listVersion >= v => d = c
             /\ c.listVersion < v => /\ d.listVersion = v
                                     /\ Chat!Range(d.list) = roster[v] /\ Chat!IsInjective(d.list)
<1> DEFINE whl == Chat!SetToSeq(roster[v])
<1>1. v \in Nat /\ roster[v] \subseteq Members /\ Chat!IsFiniteSet(roster[v])
  BY RosterProperties DEF Chat!IInv, Chat!RosterFits
<1>2. whl \in Seq(Members) /\ Chat!Range(whl) = roster[v] /\ Chat!IsInjective(whl)
  BY <1>1, WholeList, SeqMonotonic
<1>3. c.listVersion \in Nat
  BY DEF Chat!ChatState
<1>4. CASE c.listVersion >= v
  BY <1>1, <1>3, <1>4 DEF Chat!DoSetChatParticipants
<1>5. CASE c.listVersion < v
  <2>1. Chat!DoSetChatParticipants(c, v, roster[v])
          = [c EXCEPT !.listVersion = v, !.list = whl]
    BY <1>1, <1>3, <1>5 DEF Chat!DoSetChatParticipants
  <2> HIDE DEF whl
  <2>2. /\ [c EXCEPT !.listVersion = v, !.list = whl] \in Chat!ChatState
        /\ [c EXCEPT !.listVersion = v, !.list = whl].listVersion = v
        /\ [c EXCEPT !.listVersion = v, !.list = whl].list = whl
    BY <1>1, <1>2 DEF Chat!ChatState
  <2> QED
    BY <1>1, <1>2, <1>3, <1>5, <2>1, <2>2
<1> QED
  BY <1>1, <1>3, <1>4, <1>5

(* What a message makes of the chat: an assertion fails, in a chat that    *)
(* somebody left; or the list is as it was; or it is a whole one, that is  *)
(* newer; or a new participant comes last.                                 *)
LEMMA HandledProperties ==
  ASSUME Chat!IInv, NEW m \in Chat!Message
  PROVE  LET c == Chat!Handled(m) IN
         \/ Chat!HasFailed(c) /\ Chat!SomebodyLeft
         \/ /\ c \in Chat!ChatState
            /\ \/ c.listVersion = chat.listVersion /\ c.list = chat.list
               \/ /\ m.is \in {"list", "full"} /\ c.listVersion = m.v
                  /\ chat.listVersion < m.v
                  /\ Chat!Range(c.list) = roster[m.v] /\ Chat!IsInjective(c.list)
               \/ /\ m.is = "add" /\ c.listVersion = m.v /\ Chat!Adds(m.v, m.u)
                  /\ 0 < chat.listVersion /\ chat.listVersion < m.v
                  /\ m.u \notin Chat!Range(chat.list)
                  /\ c.list = Append(chat.list, m.u)
<1>1. /\ chat \in Chat!ChatState /\ chat.listVersion \in Chat!Versions \cup {0}
      /\ m.is \in Chat!Kind /\ m.v \in Chat!Versions /\ m.u \in Members
  BY DEF Chat!IInv, Chat!TypeOK, Chat!Message
<1>2. m.v \in Nat /\ chat.listVersion \in Nat /\ chat.list \in Seq(Members)
  BY <1>1, RosterProperties DEF Chat!ChatState
<1>3. CASE m.is \in {"chat", "forbidden"}
  <2>1. Chat!Handled(m) = Chat!FetchChat(chat, m.is, m.v)
    BY <1>3 DEF Chat!Handled
  <2> QED
    BY <1>1, <2>1, FetchChatProperties
<1>4. CASE m.is = "list" /\ chat.created
  <2>1. Chat!Handled(m) = Chat!DoSetChatParticipants(chat, m.v, roster[m.v])
    BY <1>4 DEF Chat!Handled, Chat!UpdateChatParticipants
  <2> QED
    BY <1>1, <1>2, <1>4, <2>1, SetParticipantsProperties
<1>5. CASE m.is = "full"
  <2> DEFINE f == Chat!FetchChat(chat, "chat", m.v)
  <2>1. Chat!Handled(m) = Chat!DoSetChatParticipants(f, m.v, roster[m.v])
    BY <1>5 DEF Chat!Handled, Chat!FetchChatFull
  <2>2. f \in Chat!ChatState /\ f.listVersion = chat.listVersion /\ f.list = chat.list
    BY <1>1, FetchChatProperties DEF Chat!Kind
  <2> HIDE DEF f
  <2> QED
    BY <1>1, <1>2, <1>5, <2>1, <2>2, SetParticipantsProperties
<1>6. CASE m.is \in {"list", "add", "delete"} /\ ~chat.created
  BY <1>1, <1>6 DEF Chat!Handled, Chat!UpdateChatParticipants, Chat!UpdateParticipantAdd,
                    Chat!UpdateParticipantDelete
<1>7. CASE m.is = "delete" /\ chat.created
  <2>1. Chat!Handled(m) = Chat!DoChatDelUser(chat, m.v, m.u)
    BY <1>7 DEF Chat!Handled, Chat!UpdateParticipantDelete
  <2>2. CASE Chat!NotTaken(chat, m.v)
    BY <1>1, <2>1, <2>2 DEF Chat!DoChatDelUser
  <2>3. CASE ~Chat!NotTaken(chat, m.v)
    <3>1. Chat!HasFailed(Chat!Handled(m))
      BY <1>1, <2>1, <2>3 DEF Chat!DoChatDelUser, Chat!Fails, Chat!HasFailed, Chat!ChatState
    <3>2. m.v \in Chat!Versions \ {1} /\ Chat!Deletes(m.v, m.u)
      BY <1>1, <1>2, <1>7 DEF Chat!Message
    <3> QED
      BY <3>1, <3>2 DEF Chat!SomebodyLeft, Chat!Deletes
  <2> QED
    BY <2>2, <2>3
<1>8. CASE m.is = "add" /\ chat.created
  <2>1. Chat!Handled(m) = Chat!DoChatAddUser(chat, m.v, m.u)
    BY <1>8 DEF Chat!Handled, Chat!UpdateParticipantAdd
  <2>2. m.v > 1 /\ Chat!Adds(m.v, m.u)
    BY <1>8 DEF Chat!Message
  <2>3. CASE Chat!NotTaken(chat, m.v)
    BY <1>1, <2>1, <2>3 DEF Chat!DoChatAddUser
  <2>4. CASE ~Chat!NotTaken(chat, m.v) /\ m.u \in Chat!Range(chat.list)
    <3>1. Chat!HasFailed(Chat!Handled(m))
      BY <1>1, <2>1, <2>4 DEF Chat!DoChatAddUser, Chat!AddChatParticipant, Chat!Fails, Chat!HasFailed, Chat!ChatState
    <3>2. 0 < chat.listVersion /\ chat.listVersion <= m.v - 1
      BY <1>2, <2>4 DEF Chat!NotTaken
    <3>3. m.v - 1 \in Chat!Versions /\ chat.listVersion \in Chat!Versions
      BY <1>1, <1>2, <2>2, <3>2, RosterProperties
    <3>4. ASSUME ~Chat!SomebodyLeft PROVE FALSE
      <4>1. roster[chat.listVersion] \subseteq roster[m.v - 1]
        BY <3>2, <3>3, <3>4 DEF Chat!IInv, Chat!RosterFits
      <4>2. Chat!Range(chat.list) \subseteq roster[chat.listVersion]
        BY <3>2, <3>4 DEF Chat!IInv, Chat!ListFits
      <4> QED
        BY <2>2, <2>4, <4>1, <4>2 DEF Chat!Adds
    <3> QED
      BY <3>1, <3>4
  <2>5. CASE ~Chat!NotTaken(chat, m.v) /\ m.u \notin Chat!Range(chat.list)
    <3>1. 0 < chat.listVersion /\ chat.listVersion < m.v
      BY <1>2, <2>5 DEF Chat!NotTaken
    <3> DEFINE l == Append(chat.list, m.u)
    <3>2. Chat!Handled(m) = [chat EXCEPT !.list = l, !.listVersion = m.v]
      BY <1>1, <2>1, <2>5, <3>1 DEF Chat!DoChatAddUser, Chat!AddChatParticipant, Chat!ChatState
    <3>3. l \in Seq(Members)
      BY <1>1, <1>2, LongerList
    <3> HIDE DEF l
    <3>4. /\ Chat!Handled(m) \in Chat!ChatState
          /\ Chat!Handled(m).list = l /\ Chat!Handled(m).listVersion = m.v
      BY <1>1, <1>2, <3>2, <3>3 DEF Chat!ChatState
    <3> QED
      BY <1>8, <2>2, <2>5, <3>1, <3>4 DEF l
  <2> QED
    BY <2>3, <2>4, <2>5
<1> QED
  BY <1>1, <1>3, <1>4, <1>5, <1>6, <1>7, <1>8 DEF Chat!Kind

(* A message is handled, or its event ends the process.                    *)
LEMMA ReceiveKeepsChat ==
  ASSUME Chat!ParticipantsAssumption, Chat!IInv, Chat!Receive
  PROVE  Chat!IInv' /\ chat'.listVersion >= chat.listVersion
<1> DEFINE m == Head(feed)
<1>1. m \in Chat!Message /\ feed' \in Seq(Chat!Message)
  BY HeadTailProperties DEF Chat!Receive, Chat!IInv
<1>2. PICK c : c = Chat!Handled(m)
  OBVIOUS
<1> HIDE DEF m
<1>3. /\ m.v \in Chat!Versions /\ m.v \in 1..Chat!Newest /\ m.v \in Nat
      /\ roster[m.v] \in SUBSET Members
  BY <1>1, RosterProperties DEF Chat!Message
<1>4. /\ UNCHANGED <<roster, chatLogged, repeats, starts>>
      /\ IF Chat!HasFailed(c)
         THEN failed' = TRUE /\ UNCHANGED <<chat, chatLog, heard, whole>>
         ELSE /\ chat' = c /\ Chat!Remember(m, c) /\ UNCHANGED failed
              /\ chatLog' = IF chatLogged THEN c ELSE chatLog
  BY <1>2 DEF Chat!Receive, m
<1>5. Chat!Message' = Chat!Message /\ Chat!Versions' = Chat!Versions /\ Chat!Newest' = Chat!Newest
  BY <1>4 DEF Chat!Message, Chat!Versions, Chat!Newest, Chat!Adds, Chat!Deletes
<1>6. Chat!RosterFits' /\ Chat!SomebodyLeft' = Chat!SomebodyLeft
  BY <1>4 DEF Chat!IInv, Chat!RosterFits, Chat!Versions, Chat!SomebodyLeft, Chat!Adds, Chat!Deletes
<1>7. \A k \in DOMAIN feed' : feed'[k].v \in Chat!Versions /\ feed'[k].is \in Chat!Kind
  BY <1>1, LenProperties, ElementOfSeq DEF Chat!Message
<1>8. /\ Chat!TypeOK /\ Chat!ListFits /\ Chat!LogFits /\ Chat!ListAgrees /\ Chat!FailureNeedsRemoval
      /\ chat \in Chat!ChatState /\ chat.listVersion \in Nat /\ whole \in Chat!Versions \cup {0}
      /\ heard \subseteq 1..chat.listVersion /\ whole <= chat.listVersion
      /\ chat.listVersion \in Chat!Versions \cup {0} /\ heard \subseteq Chat!Versions
      /\ whole \in Nat
  <2>1. Chat!TypeOK /\ Chat!ListFits /\ Chat!LogFits /\ Chat!ListAgrees /\ Chat!FailureNeedsRemoval
    BY DEF Chat!IInv
  <2>2. /\ chat \in Chat!ChatState /\ chat.listVersion \in Chat!Versions \cup {0}
        /\ whole \in Chat!Versions \cup {0} /\ heard \subseteq Chat!Versions
    BY <2>1 DEF Chat!TypeOK
  <2>3. heard \subseteq 1..chat.listVersion /\ whole <= chat.listVersion
    BY <2>1 DEF Chat!ListFits
  <2>4. Chat!Versions = 1..Chat!Newest /\ Chat!Newest \in Nat
    BY RosterProperties
  <2>5. chat.listVersion \in Nat /\ whole \in Nat
    BY <2>2, <2>4
  <2> QED
    BY <2>1, <2>2, <2>3, <2>5
<1>9. CASE Chat!HasFailed(c)
  <2>1. Chat!SomebodyLeft
    <3>1. c \in Chat!ChatState => ~Chat!HasFailed(c)
      BY DEF Chat!ChatState, Chat!HasFailed
    <3> QED
      BY <1>1, <1>2, <1>9, <3>1, HandledProperties
  <2>2. Chat!TypeOK'
    BY <1>4, <1>5, <1>7, <1>8, <1>9 DEF Chat!TypeOK
  <2>3. Chat!ListFits' /\ Chat!LogFits' /\ Chat!ListAgrees'
    BY <1>4, <1>6, <1>8, <1>9 DEF Chat!ListFits, Chat!LogFits, Chat!ListAgrees
  <2>4. Chat!FailureNeedsRemoval'
    BY <1>6, <2>1 DEF Chat!FailureNeedsRemoval
  <2> QED
    BY <1>1, <1>4, <1>5, <1>6, <1>8, <1>9, <2>2, <2>3, <2>4 DEF Chat!IInv
<1>10. ASSUME ~Chat!HasFailed(c), c \in Chat!ChatState,
              whole' \in Chat!Versions \cup {0}, whole' <= c.listVersion,
              heard' \subseteq Chat!Versions, heard' \subseteq 1..c.listVersion,
              c.listVersion \in Chat!Versions \cup {0},
              \/ Chat!SomebodyLeft \/ c.listVersion = 0
              \/ Chat!Range(c.list) \subseteq roster[c.listVersion],
              c.listVersion > 0 /\ (whole' + 1)..c.listVersion \subseteq heard' =>
                Chat!Range(c.list) = roster[c.listVersion] /\ Chat!IsInjective(c.list)
       PROVE  Chat!IInv'
  <2>1. chat' = c /\ chatLog' = (IF chatLogged THEN c ELSE chatLog) /\ failed' = failed
    BY <1>4, <1>10
  <2>2. Chat!TypeOK'
    <3>1. chatLog' \in Chat!ChatState
      BY <1>8, <1>10, <2>1 DEF Chat!TypeOK
    <3> QED
      BY <1>4, <1>5, <1>7, <1>8, <1>10, <2>1, <3>1 DEF Chat!TypeOK
  <2>3. Chat!ListFits'
    BY <1>4, <1>6, <1>10, <2>1 DEF Chat!ListFits
  <2>4. Chat!LogFits'
    BY <1>4, <1>8, <2>1 DEF Chat!LogFits
  <2>5. Chat!ListAgrees'
    BY <1>4, <1>10, <2>1 DEF Chat!ListAgrees
  <2>6. Chat!FailureNeedsRemoval'
    BY <1>6, <1>8, <2>1 DEF Chat!FailureNeedsRemoval
  <2> QED
    BY <1>1, <1>5, <1>6, <2>2, <2>3, <2>4, <2>5, <2>6 DEF Chat!IInv
<1>11. CASE ~Chat!HasFailed(c)
  <2>1. chat' = c /\ Chat!Remember(m, c)
    BY <1>4, <1>11
  <2>2. CASE c \in Chat!ChatState /\ c.listVersion = chat.listVersion /\ c.list = chat.list
    <3>1. whole' = whole /\ heard' = heard
      BY <2>1, <2>2 DEF Chat!Remember
    <3> QED
      BY <1>8, <1>10, <1>11, <2>1, <2>2, <3>1 DEF Chat!ListFits, Chat!ListAgrees
  <2>3. CASE /\ c \in Chat!ChatState /\ m.is \in {"list", "full"} /\ c.listVersion = m.v
             /\ chat.listVersion < m.v
             /\ Chat!Range(c.list) = roster[m.v] /\ Chat!IsInjective(c.list)
    <3>1. whole' = m.v /\ heard' = {}
      BY <1>3, <1>8, <2>1, <2>3 DEF Chat!Remember
    <3> QED
      BY <1>3, <1>8, <1>10, <1>11, <2>1, <2>3, <3>1
  <2>4. CASE /\ c \in Chat!ChatState /\ m.is = "add" /\ c.listVersion = m.v
             /\ Chat!Adds(m.v, m.u)
             /\ 0 < chat.listVersion /\ chat.listVersion < m.v
             /\ m.u \notin Chat!Range(chat.list) /\ c.list = Append(chat.list, m.u)
    <3>1. whole' = whole /\ heard' = heard \cup {m.v}
      BY <1>3, <1>8, <2>1, <2>4 DEF Chat!Remember
    <3>2. chat.list \in Seq(Members) /\ m.u \in Members
      BY <1>1, <1>8 DEF Chat!ChatState, Chat!Message
    <3>3. /\ Chat!Range(c.list) = Chat!Range(chat.list) \cup {m.u}
          /\ Chat!IsInjective(chat.list) => Chat!IsInjective(c.list)
      BY <2>4, <3>2, LongerList
    <3>4. m.v - 1 \in Chat!Versions /\ chat.listVersion \in Chat!Versions
          /\ chat.listVersion <= m.v - 1
      BY <1>3, <1>8, <2>4, RosterProperties
    <3>5. ASSUME ~Chat!SomebodyLeft PROVE Chat!Range(c.list) \subseteq roster[m.v]
      <4>1. roster[chat.listVersion] \subseteq roster[m.v - 1]
        BY <3>4, <3>5 DEF Chat!IInv, Chat!RosterFits
      <4>2. Chat!Range(chat.list) \subseteq roster[chat.listVersion]
        BY <1>8, <2>4, <3>5 DEF Chat!ListFits
      <4> QED
        BY <2>4, <3>3, <4>1, <4>2 DEF Chat!Adds
    <3>6. ASSUME (whole + 1)..m.v \subseteq heard \cup {m.v}
          PROVE  Chat!Range(c.list) = roster[m.v] /\ Chat!IsInjective(c.list)
      <4>1. (whole + 1)..(m.v - 1) \subseteq heard
        BY <1>3, <1>8, <3>6
      <4>2. chat.listVersion = m.v - 1
        <5>1. CASE chat.listVersion < m.v - 1
          <6>1. m.v - 1 \in (whole + 1)..(m.v - 1)
            BY <1>3, <1>8, <5>1
          <6> QED
            BY <1>3, <1>8, <4>1, <5>1, <6>1
        <5> QED
          BY <1>3, <1>8, <3>4, <5>1
      <4>3. Chat!Range(chat.list) = roster[m.v - 1] /\ Chat!IsInjective(chat.list)
        BY <1>8, <2>4, <4>1, <4>2 DEF Chat!ListAgrees
      <4> QED
        BY <2>4, <3>3, <4>3 DEF Chat!Adds
    <3>7. /\ whole' \in Chat!Versions \cup {0} /\ whole' <= c.listVersion
          /\ heard' \subseteq Chat!Versions /\ heard' \subseteq 1..c.listVersion
          /\ c.listVersion \in Chat!Versions \cup {0}
      <4>1. c.listVersion = m.v /\ chat.listVersion < m.v /\ whole <= chat.listVersion
        BY <1>8, <2>4
      <4>2. heard \subseteq 1..chat.listVersion /\ heard \subseteq Chat!Versions
        BY <1>8
      <4>3. whole \in Nat /\ chat.listVersion \in Nat /\ whole \in Chat!Versions \cup {0}
        BY <1>8
      <4>4. whole' <= c.listVersion
        BY <1>3, <3>1, <4>1, <4>3
      <4>5. heard' \subseteq 1..m.v
        <5>1. m.v \in 1..m.v /\ 1..chat.listVersion \subseteq 1..m.v
          BY <1>3, <4>1, <4>3
        <5> QED
          BY <3>1, <4>2, <5>1
      <4> QED
        BY <1>3, <3>1, <4>1, <4>2, <4>3, <4>4, <4>5
    <3>8. Chat!IInv'
      BY <1>10, <1>11, <2>4, <3>1, <3>5, <3>6, <3>7
    <3> QED
      BY <1>3, <1>8, <2>1, <2>4, <3>8
  <2> QED
    BY <1>1, <1>2, <1>11, <2>2, <2>3, <2>4, HandledProperties
<1> QED
  BY <1>9, <1>11

(* A restart finds what the event log tells, or nothing.                   *)
LEMMA RestartKeepsChat ==
  ASSUME Chat!ParticipantsAssumption, Chat!IInv, Chat!Restart
  PROVE  Chat!IInv'
<1>1. Chat!Message' = Chat!Message /\ Chat!Versions' = Chat!Versions /\ Chat!Newest' = Chat!Newest
  BY DEF Chat!Restart, Chat!Message, Chat!Versions, Chat!Newest, Chat!Adds, Chat!Deletes
<1>2. Chat!RosterFits' /\ Chat!SomebodyLeft' = Chat!SomebodyLeft
  BY DEF Chat!Restart, Chat!IInv, Chat!RosterFits, Chat!Versions, Chat!SomebodyLeft, Chat!Adds, Chat!Deletes
<1>3. /\ feed' \in Seq(Chat!Message)
      /\ \A k \in DOMAIN feed' : feed'[k].v \in Chat!Versions /\ feed'[k].is \in Chat!Kind
  <2>1. feed' = <<>> /\ DOMAIN feed' = {}
    BY DEF Chat!Restart
  <2> QED
    BY <2>1, EmptySeq
<1>4. starts' \in 0..MaxStarts
  BY DEF Chat!Restart, Chat!IInv, Chat!TypeOK, Chat!ParticipantsAssumption
<1>5. CASE chatLogged
  <2>1. /\ UNCHANGED <<roster, chat, chatLog, chatLogged, heard, whole, repeats>>
        /\ failed' = FALSE
    BY <1>5 DEF Chat!Restart, Chat!IInv, Chat!LogFits
  <2>2. Chat!TypeOK'
    <3>1. Chat!TypeOK
      BY DEF Chat!IInv
    <3> QED
      BY <1>1, <1>3, <1>4, <2>1, <3>1 DEF Chat!TypeOK
  <2>3. Chat!ListFits' /\ Chat!LogFits' /\ Chat!ListAgrees' /\ Chat!FailureNeedsRemoval'
    BY <1>2, <2>1 DEF Chat!IInv, Chat!ListFits, Chat!LogFits, Chat!ListAgrees, Chat!FailureNeedsRemoval
  <2> QED
    BY <1>1, <1>2, <1>3, <2>2, <2>3 DEF Chat!IInv
<1>6. CASE ~chatLogged
  <2>1. /\ UNCHANGED <<roster, chatLog, chatLogged, repeats>> /\ failed' = FALSE
        /\ chat' = Chat!NoChat /\ chatLog = Chat!NoChat /\ heard' = {} /\ whole' = 0
    BY <1>6 DEF Chat!Restart, Chat!IInv, Chat!LogFits
  <2>2. Chat!NoChat \in Chat!ChatState /\ Chat!NoChat.listVersion = 0
    BY EmptySeq DEF Chat!NoChat, Chat!ChatState
  <2>3. Chat!TypeOK'
    <3>1. Chat!TypeOK
      BY DEF Chat!IInv
    <3>2. {chat', chatLog'} \subseteq Chat!ChatState /\ chat'.listVersion = 0
      BY <2>1, <2>2
    <3> QED
      BY <1>1, <1>3, <1>4, <2>1, <3>1, <3>2 DEF Chat!TypeOK
  <2>4. Chat!ListFits' /\ Chat!LogFits' /\ Chat!ListAgrees' /\ Chat!FailureNeedsRemoval'
    BY <1>6, <2>1, <2>2 DEF Chat!ListFits, Chat!LogFits, Chat!ListAgrees, Chat!FailureNeedsRemoval
  <2> QED
    BY <1>1, <1>2, <1>3, <2>3, <2>4 DEF Chat!IInv
<1> QED
  BY <1>5, <1>6 DEF Chat!IInv, Chat!TypeOK

-----------------------------------------------------------------------------
(* All steps                                                               *)

(* The server has a list of one, and the client knows no chat.             *)
LEMMA ChatInit ==
  ASSUME Chat!ParticipantsAssumption, Chat!Init
  PROVE  Chat!IInv
<1>1. PICK u \in Members : roster = <<{u}>>
  BY DEF Chat!Init
<1>2. /\ roster \in Seq(SUBSET Members) /\ Chat!Newest = 1 /\ Chat!Versions = {1}
      /\ roster[1] = {u}
  BY <1>1 DEF Chat!Newest, Chat!Versions
<1>3. Chat!NoChat \in Chat!ChatState /\ Chat!NoChat.listVersion = 0
  BY EmptySeq DEF Chat!NoChat, Chat!ChatState
<1>4. /\ feed \in Seq(Chat!Message)
      /\ \A k \in DOMAIN feed : feed[k].v \in Chat!Versions /\ feed[k].is \in Chat!Kind
  BY EmptySeq DEF Chat!Init
<1>5. Chat!TypeOK
  <2>1. /\ Chat!Newest \in 1..MaxVersion /\ repeats \in 0..MaxRepeats
        /\ starts \in 0..MaxStarts
    BY <1>2 DEF Chat!Init, Chat!ParticipantsAssumption
  <2> QED
    BY <1>2, <1>3, <1>4, <2>1 DEF Chat!Init, Chat!TypeOK
<1>6. Chat!RosterFits
  <2>1. Chat!IsFiniteSet({u})
    BY CountedInChat, FS_Singleton
  <2> QED
    BY <1>2, <2>1 DEF Chat!RosterFits
<1>7. Chat!ListFits /\ Chat!LogFits /\ Chat!ListAgrees /\ Chat!FailureNeedsRemoval
  BY <1>3 DEF Chat!Init, Chat!ListFits, Chat!LogFits, Chat!ListAgrees, Chat!FailureNeedsRemoval
<1> QED
  BY <1>4, <1>5, <1>6, <1>7 DEF Chat!IInv

(* Every step keeps the invariant, and only a restart gives an older list  *)
(* (bl_do_set_chat_participants, bl_do_chat_add_user).                     *)
LEMMA ChatNext ==
  ASSUME Chat!ParticipantsAssumption, Chat!IInv, [Chat!Next]_(Chat!roster_vars)
  PROVE  Chat!IInv' /\ (chat'.listVersion >= chat.listVersion \/ starts' # starts)
<1>1. chat.listVersion \in Nat /\ starts \in Nat
  BY DEF Chat!IInv, Chat!TypeOK, Chat!ChatState
<1>2. CASE Chat!ServerAdds
  <2>1. UNCHANGED chat
    BY <1>2 DEF Chat!ServerAdds, Chat!Change, Chat!ClientSame
  <2> QED
    BY <1>1, <1>2, <2>1, ServerAddsKeepsChat
<1>3. CASE Chat!ServerDeletes
  <2>1. UNCHANGED chat
    BY <1>3 DEF Chat!ServerDeletes, Chat!Change, Chat!ClientSame
  <2> QED
    BY <1>1, <1>3, <2>1, ServerDeletesKeepsChat
<1>4. CASE Chat!ServerTells
  <2>1. UNCHANGED chat
    BY <1>4 DEF Chat!ServerTells, Chat!ClientSame
  <2> QED
    BY <1>1, <1>4, <2>1, ServerTellsKeepsChat
<1>5. CASE Chat!ServerRepeats
  <2>1. UNCHANGED chat
    BY <1>5 DEF Chat!ServerRepeats, Chat!ClientSame
  <2> QED
    BY <1>1, <1>5, <2>1, ServerRepeatsKeepsChat
<1>6. CASE Chat!UpdateLost
  <2>1. UNCHANGED chat
    BY <1>6 DEF Chat!UpdateLost, Chat!ClientSame
  <2> QED
    BY <1>1, <1>6, <2>1, UpdateLostKeepsChat
<1>7. CASE Chat!Receive
  BY <1>7, ReceiveKeepsChat
<1>8. CASE Chat!Restart
  <2>1. starts' # starts
    BY <1>1, <1>8 DEF Chat!Restart
  <2> QED
    BY <1>8, <2>1, RestartKeepsChat
<1>9. CASE UNCHANGED Chat!roster_vars
  <2>1. feed' \in Seq(Chat!Message) /\ repeats' \in 0..MaxRepeats
    BY <1>9 DEF Chat!roster_vars, Chat!IInv, Chat!TypeOK
  <2> QED
    BY <1>1, <1>9, <2>1, FeedKeepsChat DEF Chat!roster_vars
<1> QED
  BY <1>2, <1>3, <1>4, <1>5, <1>6, <1>7, <1>8, <1>9 DEF Chat!Next

-----------------------------------------------------------------------------
(* Print names                                                             *)

(* A set of numbers has a least one.                                       *)
LEMMA LeastOf ==
  ASSUME NEW T \in SUBSET Nat, T # {}
  PROVE  \E n \in T : \A m \in T : n <= m
<1> DEFINE R == {ss \in Nat \X Nat : ss[1] < ss[2]}
<1>1. IsWellFoundedOn(R, Nat)
  BY NatLessThanWellFounded DEF OpToRel
<1>2. PICK x \in T : \A y \in T : <<y, x>> \notin R
  <2> HIDE DEF R
  <2> QED
    BY <1>1, WFMin
<1>3. ASSUME NEW y \in T, y < x PROVE FALSE
  <2> DEFINE p == <<y, x>>
  <2>1. p \in Nat \X Nat /\ p[1] = y /\ p[2] = x
    OBVIOUS
  <2>2. p \in R
    <3> HIDE DEF p
    <3> QED
      BY <1>3, <2>1
  <2> QED
    BY <1>2, <2>2
<1> QED
  BY <1>2, <1>3

(* PeerNames counts its peers as this module does.                         *)
LEMMA SameCardinality ==
  ASSUME NEW S
  PROVE  (Peer!IsFiniteSet(S) <=> IsFiniteSet(S))
         /\ Peer!Cardinality(S) = Cardinality(S)
<1>1. Peer!IsFiniteSet(S) <=> IsFiniteSet(S)
  BY Zenon DEF Peer!IsFiniteSet, IsFiniteSet
<1>2. Peer!Cardinality(S) = Cardinality(S)
  BY Zenon DEF Peer!Cardinality, Cardinality
<1> QED
  BY <1>1, <1>2

(* The print name is a name with a number that no other peer of the tree   *)
(* has: there are more numbers than peers (create_print_name).             *)
LEMMA PrintNameIsFree ==
  ASSUME Peer!PeersAssumption, NEW t, t.tree \subseteq Peer!Peer,
         NEW p \in Peer!Peer, NEW name \in Names
  PROVE  /\ Peer!CreatePrintName(t, p, name) \in Peer!PrintName
         /\ \A q \in t.tree \ {p} : t.print[q] # Peer!CreatePrintName(t, p, name)
<1> DEFINE C == Peer!Cardinality(Peer!Peer)
           Free(n) == Peer!PeerLookupName(t, <<name, n>>) \subseteq {p}
           F == {n \in 0..C : Free(n)}
<1>1. IsFiniteSet(Peer!Peer) /\ C \in Nat
  BY FS_CardinalityType, SameCardinality DEF Peer!PeersAssumption
<1>2. F # {}
  <2>1. SUFFICES ASSUME F = {} PROVE FALSE
    OBVIOUS
  <2> DEFINE f == [n \in 0..C |-> CHOOSE q \in Peer!Peer : q \in t.tree /\ t.print[q] = <<name, n>>]
  <2>2. ASSUME NEW n \in 0..C PROVE f[n] \in Peer!Peer
               /\ t.print[f[n]] = <<name, n>>
    <3>1. \E q \in Peer!Peer : q \in t.tree /\ t.print[q] = <<name, n>>
      BY <2>1 DEF Peer!PeerLookupName
    <3> QED
      BY <3>1
  <2>3. f \in [0..C -> Peer!Peer]
    BY <2>2
  <2> HIDE DEF f
  <2>4. IsFiniteSet(0..C) /\ Cardinality(0..C) = C + 1
    BY <1>1, FS_Interval
  <2> HIDE DEF C
  <2>5. Cardinality(Peer!Peer) < Cardinality(0..C)
    BY <1>1, <2>4, SameCardinality DEF C
  <2>6. PICK m, n \in 0..C : m # n /\ f[m] = f[n]
    BY <1>1, <2>3, <2>4, <2>5, FS_PigeonHole
  <2>7. <<name, m>> = <<name, n>>
    BY <2>2, <2>6
  <2> QED
    BY <2>6, <2>7
<1> HIDE DEF C
<1>3. PICK n \in F : \A k \in F : n <= k
  <2>1. F \in SUBSET Nat
    BY <1>1
  <2> HIDE DEF F
  <2> QED
    BY <1>2, <2>1, LeastOf
<1>4. n \in 0..C /\ Free(n) /\ \A k \in 0..(n - 1) : ~Free(k)
  BY <1>1, <1>3
<1> DEFINE least == CHOOSE k \in 0..C : Free(k) /\ \A j \in 0..(k - 1) : ~Free(j)
<1> HIDE DEF Free
<1>5. least \in 0..C /\ Free(least)
  BY <1>4
<1>6. Peer!CreatePrintName(t, p, name) = <<name, least>>
  BY DEF Peer!CreatePrintName, Free, C
<1> HIDE DEF least
<1>7. Peer!CreatePrintName(t, p, name) \in Peer!PrintName
  BY <1>5, <1>6 DEF Peer!PrintName, C
<1>8. {q \in t.tree : t.print[q] = <<name, least>>} \subseteq {p}
  BY <1>5 DEF Free, Peer!PeerLookupName
<1> QED
  BY <1>6, <1>7, <1>8

(* A peer becomes known and nothing else changes (insert_user, insert_chat). *)
LEMMA InsertPeerKeeps ==
  ASSUME NEW t \in Peer!Table, NEW p \in Peer!Peer
  PROVE  /\ Peer!InsertPeer(t, p) \in Peer!Table
         /\ p \in Peer!Range(Peer!InsertPeer(t, p).known)
         /\ Peer!SameNames(Peer!InsertPeer(t, p), t)
<1>1. CASE p \in Peer!Range(t.known)
  BY <1>1 DEF Peer!InsertPeer, Peer!SameNames
<1>2. CASE p \notin Peer!Range(t.known)
  <2> DEFINE k == Append(t.known, p)
  <2>1. t.known \in Seq(Peer!Peer)
    BY DEF Peer!Table
  <2>2. k \in Seq(Peer!Peer) /\ Len(k) = Len(t.known) + 1 /\ k[Len(t.known) + 1] = p
        /\ \A i \in 1..Len(t.known) : k[i] = t.known[i]
    BY <2>1, AppendProperties
  <2>3. Len(t.known) \in Nat /\ DOMAIN t.known = 1..Len(t.known)
        /\ DOMAIN k = 1..Len(k)
    BY <2>1, <2>2, LenProperties
  <2>4. Peer!Range(t.known) \cup {p} \subseteq Peer!Range(k)
    BY <2>2, <2>3 DEF Peer!Range
  <2>5. Peer!InsertPeer(t, p) = [t EXCEPT !.known = k]
    BY <1>2 DEF Peer!InsertPeer
  <2> HIDE DEF k
  <2> QED
    BY <2>2, <2>4, <2>5 DEF Peer!Table, Peer!SameNames
<1> QED
  BY <1>1, <1>2

(* A peer that becomes known and created.                                  *)
LEMMA CreatedKeeps ==
  ASSUME NEW t \in Peer!Table, NEW p \in Peer!Peer
  PROVE  \E c \in Peer!Table :
           /\ c = [Peer!InsertPeer(t, p) EXCEPT !.created = @ \cup {p}]
           /\ c.created = t.created \cup {p} /\ c.tree = t.tree
           /\ c.name = t.name /\ c.print = t.print
<1>1. PICK i \in Peer!Table : i = Peer!InsertPeer(t, p)
      /\ p \in Peer!Range(i.known) /\ Peer!SameNames(i, t)
  BY InsertPeerKeeps
<1> DEFINE c == [i EXCEPT !.created = @ \cup {p}]
<1>2. /\ c \in Peer!Table /\ c.created = i.created \cup {p} /\ c.tree = i.tree
      /\ c.name = i.name /\ c.print = i.print
  <2>1. p \in Peer!Range(i.known)
    BY <1>1
  <2> QED
    BY <2>1 DEF Peer!Table
<1>3. c = [Peer!InsertPeer(t, p) EXCEPT !.created = @ \cup {p}]
  BY <1>1, Zenon
<1> HIDE DEF c
<1> QED
  BY <1>1, <1>2, <1>3, Zenon DEF Peer!SameNames

(* What an event is when it is applied: a peer that is new, or one that is *)
(* renamed.                                                                *)
Applies(t, e) ==
  /\ e.p \in Peer!Peer /\ e.name \in Names
  /\ \/ e.is \in {"new_user", "chat_create"} /\ e.p \notin t.created
     \/ e.is \in {"user_name", "chat_title"} /\ e.p \in t.created

(* An event gives its peer a print name of its own and leaves the others   *)
(* theirs (peer_delete_name, peer_insert_name).                            *)
LEMMA EventKeepsNames ==
  ASSUME Peer!PeersAssumption, NEW t \in Peer!Table, Peer!Named(t), NEW e,
         Applies(t, e)
  PROVE  /\ Peer!ReplayLogEvent(t, e) \in Peer!Table
         /\ Peer!Named(Peer!ReplayLogEvent(t, e))
         /\ Peer!ReplayLogEvent(t, e).created = t.created \cup {e.p}
<1> DEFINE p == e.p
           name == e.name
           r == Peer!ReplayLogEvent(t, e)
<1>1. PICK b \in Peer!Table :
        /\ r = Peer!PeerInsertName(b, p, name)
        /\ b.created = t.created \cup {p} /\ b.tree = t.tree \ {p}
        /\ b.name = t.name /\ b.print = t.print
  <2>1. CASE e.is \in {"new_user", "chat_create"} /\ e.p \notin t.created
    <3>1. p \in Peer!Peer
      BY DEF Applies
    <3>2. PICK b \in Peer!Table :
            /\ b = [Peer!InsertPeer(t, p) EXCEPT !.created = @ \cup {p}]
            /\ b.created = t.created \cup {p} /\ b.tree = t.tree
            /\ b.name = t.name /\ b.print = t.print
      BY <3>1, CreatedKeeps, Zenon
    <3>3. r = Peer!PeerInsertName(b, p, name)
      BY <2>1, <3>2, Zenon DEF Peer!ReplayLogEvent, Peer!NewUser, Peer!ChatCreate,
         Peer!Created
    <3>4. t.tree = t.tree \ {p}
      BY <2>1 DEF Peer!Named
    <3> QED
      BY <3>2, <3>3, <3>4
  <2>2. CASE e.is \in {"user_name", "chat_title"} /\ e.p \in t.created
    <3> DEFINE b == Peer!PeerDeleteName(t, p)
    <3>1. r = Peer!PeerInsertName(b, p, name)
      BY <2>2 DEF Peer!ReplayLogEvent, Peer!UpdateUserName, Peer!SetChatTitle,
         Peer!Renamed
    <3>2. b \in Peer!Table /\ b.created = t.created /\ b.tree = t.tree \ {p}
          /\ b.name = t.name /\ b.print = t.print
      BY DEF Peer!PeerDeleteName, Peer!Table
    <3>3. t.created = t.created \cup {p}
      BY <2>2
    <3> QED
      BY <3>1, <3>2, <3>3
  <2> QED
    BY <2>1, <2>2 DEF Applies
<1>2. p \in Peer!Peer /\ name \in Names
  BY DEF Applies
<1> HIDE DEF p, name, r
<1> DEFINE new == Peer!CreatePrintName(b, p, name)
<1>3. new \in Peer!PrintName /\ \A q \in b.tree \ {p} : b.print[q] # new
  BY <1>2, PrintNameIsFree DEF Peer!Table
<1>4. r = [b EXCEPT !.name[p] = name, !.print[p] = new, !.tree = @ \cup {p}]
  BY <1>1 DEF Peer!PeerInsertName
<1> HIDE DEF new
<1>5. /\ r \in Peer!Table /\ r.created = b.created /\ r.tree = b.tree \cup {p}
      /\ r.name = [b.name EXCEPT ![p] = name]
         /\ r.print = [b.print EXCEPT ![p] = new]
  BY <1>2, <1>3, <1>4 DEF Peer!Table
<1>6. b.name \in [Peer!Peer -> Names \cup {None}]
      /\ b.print \in [Peer!Peer -> Peer!PrintName \cup {None}]
  BY DEF Peer!Table
<1>7. new # None /\ name # None
  BY <1>2, <1>3 DEF Peer!PeersAssumption
<1>8. r.tree = r.created
  BY <1>1, <1>5 DEF Peer!Named
<1>9. ASSUME NEW q \in Peer!Peer
      PROVE  IF q \in r.created THEN r.name[q] # None /\ r.print[q] # None
                                ELSE r.print[q] = None
  <2>1. CASE q = p
    BY <1>1, <1>5, <1>6, <1>7, <2>1
  <2>2. CASE q # p
    BY <1>1, <1>5, <1>6, <2>2 DEF Peer!Named
  <2> QED
    BY <2>1, <2>2
<1>10. ASSUME NEW q \in r.tree, NEW o \in r.tree, r.print[q] = r.print[o]
              PROVE q = o
  <2>0. /\ q \in Peer!Peer /\ o \in Peer!Peer /\ t.tree \subseteq Peer!Peer
        /\ \A x \in t.tree : x \in Peer!Peer
    BY <1>5 DEF Peer!Table
  <2>1. \A x \in r.tree \ {p} : x \in t.tree /\ x \in b.tree \ {p}
        /\ r.print[x] = t.print[x]
    BY <1>1, <1>5, <1>6, <2>0
  <2>2. r.print[p] = new
    BY <1>2, <1>5, <1>6
  <2>3. CASE q = p /\ o # p
    BY <1>1, <1>3, <1>10, <2>1, <2>2, <2>3
  <2>4. CASE q # p /\ o = p
    BY <1>1, <1>3, <1>10, <2>1, <2>2, <2>4
  <2>5. CASE q # p /\ o # p
    BY <1>10, <2>1, <2>5 DEF Peer!Named
  <2> QED
    BY <2>3, <2>4, <2>5
<1>11. Peer!Named(r)
  BY <1>8, <1>9, <1>10 DEF Peer!Named
<1> QED
  BY <1>1, <1>5, <1>11 DEF p, r

(* The same event gives the same names to tables with the same names: the  *)
(* number does not depend on who is only known.                            *)
LEMMA EventSameNames ==
  ASSUME NEW t \in Peer!Table, NEW u \in Peer!Table, Peer!SameNames(t, u), NEW e,
         Applies(t, e)
  PROVE  Peer!SameNames(Peer!ReplayLogEvent(t, e), Peer!ReplayLogEvent(u, e))
<1> DEFINE p == e.p
           name == e.name
<1>1. ASSUME NEW b \in Peer!Table, NEW c \in Peer!Table, Peer!SameNames(b, c)
      PROVE  Peer!SameNames(Peer!PeerInsertName(b, p, name), Peer!PeerInsertName(c, p, name))
  <2>1. Peer!CreatePrintName(b, p, name) = Peer!CreatePrintName(c, p, name)
    BY <1>1 DEF Peer!SameNames, Peer!CreatePrintName, Peer!PeerLookupName
  <2> DEFINE new == Peer!CreatePrintName(b, p, name)
  <2>2. /\ Peer!PeerInsertName(b, p, name) =
             [b EXCEPT !.name[p] = name, !.print[p] = new, !.tree = @ \cup {p}]
        /\ Peer!PeerInsertName(c, p, name) =
             [c EXCEPT !.name[p] = name, !.print[p] = new, !.tree = @ \cup {p}]
    BY <2>1 DEF Peer!PeerInsertName
  <2> HIDE DEF new, p, name
  <2> QED
    BY <1>1, <2>2 DEF Peer!SameNames, Peer!Table
<1>2. CASE e.is \in {"new_user", "chat_create"}
  <2>1. p \in Peer!Peer
    BY DEF Applies
  <2>2. PICK b \in Peer!Table :
          /\ b = [Peer!InsertPeer(t, p) EXCEPT !.created = @ \cup {p}]
          /\ b.created = t.created \cup {p} /\ b.tree = t.tree
          /\ b.name = t.name /\ b.print = t.print
    BY <2>1, CreatedKeeps, Zenon
  <2>3. PICK c \in Peer!Table :
          /\ c = [Peer!InsertPeer(u, p) EXCEPT !.created = @ \cup {p}]
          /\ c.created = u.created \cup {p} /\ c.tree = u.tree
          /\ c.name = u.name /\ c.print = u.print
    BY <2>1, CreatedKeeps, Zenon
  <2>4. /\ Peer!ReplayLogEvent(t, e) = Peer!PeerInsertName(b, p, name)
        /\ Peer!ReplayLogEvent(u, e) = Peer!PeerInsertName(c, p, name)
    BY <1>2, <2>2, <2>3, Zenon DEF Peer!ReplayLogEvent, Peer!NewUser,
       Peer!ChatCreate, Peer!Created
  <2>5. Peer!SameNames(b, c)
    BY <2>2, <2>3, Zenon DEF Peer!SameNames
  <2> QED
    BY <1>1, <2>4, <2>5, Zenon
<1>3. CASE e.is \in {"user_name", "chat_title"}
  <2>1. /\ Peer!ReplayLogEvent(t, e) = Peer!PeerInsertName(Peer!PeerDeleteName(t, p), p, name)
        /\ Peer!ReplayLogEvent(u, e) = Peer!PeerInsertName(Peer!PeerDeleteName(u, p), p, name)
    BY <1>3 DEF Peer!ReplayLogEvent, Peer!UpdateUserName, Peer!SetChatTitle,
       Peer!Renamed
  <2>2. /\ Peer!PeerDeleteName(t, p) \in Peer!Table
           /\ Peer!PeerDeleteName(u, p) \in Peer!Table
        /\ Peer!SameNames(Peer!PeerDeleteName(t, p), Peer!PeerDeleteName(u, p))
    BY DEF Peer!PeerDeleteName, Peer!Table, Peer!SameNames
  <2> HIDE DEF p, name
  <2> QED
    BY <1>1, <2>1, <2>2
<1> QED
  BY <1>2, <1>3 DEF Applies

-----------------------------------------------------------------------------
(* Answers keep the table and the log in step *)

(* What holds of the table and its replay while an answer is read.         *)
Good(s) ==
  /\ s = [t |-> s.t, log |-> s.log]
  /\ {s.t, s.log} \subseteq Peer!Table /\ Peer!Named(s.t)
     /\ Peer!ReplayFits(s.t, s.log)

(* The table of a program without an event log.                            *)
LEMMA NoPeersNamed == Peer!NoPeers \in Peer!Table /\ Peer!Named(Peer!NoPeers)
<1>1. Peer!NoPeers.known = <<>> /\ <<>> \in Seq(Peer!Peer)
  BY DEF Peer!NoPeers
<1> QED
  BY <1>1 DEF Peer!NoPeers, Peer!Table, Peer!Named

(* An event that is logged keeps both in step.                             *)
LEMMA LoggedKeeps ==
  ASSUME Peer!PeersAssumption, NEW s, Good(s), NEW e, Applies(s.t, e)
  PROVE  Good(Peer!Logged(s, e))
         /\ Peer!Logged(s, e).t.created = s.t.created \cup {e.p}
<1> DEFINE u == Peer!ReplayLogEvent(s.t, e)
           v == Peer!ReplayLogEvent(s.log, e)
<1>1. s.t \in Peer!Table /\ s.log \in Peer!Table /\ Peer!Named(s.t)
      /\ Peer!ReplayFits(s.t, s.log)
  BY DEF Good
<1>2. u \in Peer!Table /\ Peer!Named(u) /\ u.created = s.t.created \cup {e.p}
  BY <1>1, EventKeepsNames
<1>3. CASE logging
  <2>1. Peer!SameNames(s.t, s.log)
    BY <1>1, <1>3 DEF Peer!ReplayFits
  <2>2. Peer!Named(s.log) /\ Applies(s.log, e)
    BY <1>1, <2>1 DEF Peer!Named, Peer!SameNames, Applies
  <2>3. v \in Peer!Table /\ Peer!SameNames(u, v)
    BY <1>1, <2>1, <2>2, EventKeepsNames, EventSameNames
  <2>4. Peer!Logged(s, e) = [t |-> u, log |-> v]
    BY <1>3 DEF Peer!Logged
  <2> HIDE DEF u, v
  <2> QED
    BY <1>2, <1>3, <2>3, <2>4 DEF Good, Peer!ReplayFits
<1>4. CASE ~logging
  <2>1. s.log = Peer!NoPeers
    BY <1>1, <1>4 DEF Peer!ReplayFits
  <2>2. Peer!Logged(s, e) = [t |-> u, log |-> s.log]
    BY <1>4 DEF Peer!Logged
  <2> HIDE DEF u, v
  <2> QED
    BY <1>1, <1>2, <1>4, <2>1, <2>2 DEF Good, Peer!ReplayFits
<1> QED
  BY <1>3, <1>4

(* So does an object of an answer; one with data makes a created peer      *)
(* (fetch_alloc_user, fetch_alloc_chat).                                   *)
LEMMA FetchAllocKeeps ==
  ASSUME Peer!PeersAssumption, NEW s, Good(s), NEW o \in Peer!Object
  PROVE  /\ Good(Peer!FetchAlloc(s, o))
         /\ s.t.created \subseteq Peer!FetchAlloc(s, o).t.created
         /\ o.name # None => o.p \in Peer!FetchAlloc(s, o).t.created
<1> DEFINE p == o.p
           name == o.name
<1>1. p \in Peer!Peer /\ name \in Names \cup {None} /\ o = [p |-> p, name |-> name]
  BY DEF Peer!Object
<1>2. s.t \in Peer!Table /\ s.log \in Peer!Table /\ Peer!Named(s.t)
      /\ Peer!ReplayFits(s.t, s.log)
      /\ s = [t |-> s.t, log |-> s.log]
  BY DEF Good
<1>3. PICK i \in Peer!Table : i = Peer!InsertPeer(s.t, p) /\ Peer!SameNames(i, s.t)
  BY <1>1, <1>2, InsertPeerKeeps
<1>4. PICK r : r = [s EXCEPT !.t = Peer!InsertPeer(@, p)]
      /\ r = [t |-> i, log |-> s.log]
  <2>1. [s EXCEPT !.t = i] = [t |-> i, log |-> s.log]
    BY <1>2
  <2>2. [s EXCEPT !.t = Peer!InsertPeer(@, p)] = [s EXCEPT !.t = i]
    BY <1>3, Zenon
  <2> QED
    BY <2>1, <2>2, Zenon
<1>5. Good(r) /\ r.t = i /\ r.log = s.log
  <2>1. Peer!Named(i)
    BY <1>2, <1>3 DEF Peer!Named, Peer!SameNames
  <2>2. Peer!ReplayFits(i, s.log)
    BY <1>2, <1>3 DEF Peer!ReplayFits, Peer!SameNames
  <2> QED
    BY <1>2, <1>4, <2>1, <2>2 DEF Good
<1>6. r.t.created = s.t.created
  BY <1>3, <1>5 DEF Peer!SameNames
<1>7. Peer!FetchAlloc(s, o) = IF name = None THEN r
                         ELSE IF p \in Users THEN Peer!FetchUser(r, o)
                         ELSE Peer!FetchChat(r, o)
  BY <1>4, Zenon DEF Peer!FetchAlloc
<1>8. CASE name = None
  BY <1>5, <1>6, <1>7, <1>8
<1>9. CASE name # None
  <2> DEFINE Of(e) == Good(Peer!Logged(r, e))
      /\ Peer!Logged(r, e).t.created = r.t.created \cup {p}
  <2>1. ASSUME NEW e, e.p = p, e.name = name, Applies(r.t, e)
        PROVE  Of(e)
    BY <1>5, <2>1, LoggedKeeps
  <2>2. name \in Names
    BY <1>1, <1>9
  <2>3. CASE p \notin r.t.created
    <3>1. PICK e : e = [is |-> "new_user", p |-> o.p, name |-> o.name]
      OBVIOUS
    <3>2. PICK f : f = [is |-> "chat_create", p |-> o.p, name |-> o.name]
      OBVIOUS
    <3>3. e.p = p /\ e.name = name /\ Applies(r.t, e)
      BY <1>1, <2>2, <2>3, <3>1 DEF Applies
    <3>4. f.p = p /\ f.name = name /\ Applies(r.t, f)
      BY <1>1, <2>2, <2>3, <3>2 DEF Applies
    <3>5. Peer!FetchUser(r, o) = Peer!Logged(r, e)
          /\ Peer!FetchChat(r, o) = Peer!Logged(r, f)
      BY <2>3, <3>1, <3>2, Zenon DEF Peer!FetchUser, Peer!FetchChat
    <3>6. Of(e) /\ Of(f)
      BY <2>1, <3>3, <3>4
    <3> QED
      BY <1>6, <1>7, <1>9, <3>5, <3>6, Zenon
  <2>4. CASE p \in r.t.created
    <3>1. PICK e : e = [is |-> "user_name", p |-> o.p, name |-> o.name]
      OBVIOUS
    <3>2. PICK f : f = [is |-> "chat_title", p |-> o.p, name |-> o.name]
      OBVIOUS
    <3>3. e.p = p /\ e.name = name /\ Applies(r.t, e)
      BY <1>1, <2>2, <2>4, <3>1 DEF Applies
    <3>4. f.p = p /\ f.name = name /\ Applies(r.t, f)
      BY <1>1, <2>2, <2>4, <3>2 DEF Applies
    <3>5. /\ Peer!FetchUser(r, o) = IF r.t.name[o.p] = o.name THEN r
             ELSE Peer!Logged(r, e)
          /\ Peer!FetchChat(r, o) = IF r.t.name[o.p] = o.name THEN r
             ELSE Peer!Logged(r, f)
      BY <2>4, <3>1, <3>2, Zenon DEF Peer!FetchUser, Peer!FetchChat
    <3>6. Of(e) /\ Of(f)
      BY <2>1, <3>3, <3>4
    <3>7. Peer!FetchAlloc(s, o) \in {r, Peer!Logged(r, e), Peer!Logged(r, f)}
      BY <1>7, <1>9, <3>5, Zenon
    <3> QED
      BY <1>5, <1>6, <2>4, <3>6, <3>7, Zenon
  <2> QED
    BY <2>3, <2>4
<1> QED
  BY <1>8, <1>9

(* One or two objects, as the modelled answers have.                       *)
OneOrTwo(objects) == objects \in Seq(Peer!Object) /\ Len(objects) \in {1, 2}

(* What an answer leaves.                                                  *)
LEMMA FetchedKeeps ==
  ASSUME Peer!PeersAssumption, Peer!IInv, NEW objects, OneOrTwo(objects)
  PROVE  /\ Good(Peer!Fetched(objects))
         /\ \A k \in DOMAIN objects :
              objects[k].name # None
              => objects[k].p \in Peer!Fetched(objects).t.created
<1> DEFINE z == [t |-> table, log |-> replay]
           s == Peer!FetchAlloc(z, objects[1])
<1>1. Good(z)
  BY DEF Peer!IInv, Peer!TypeOK, Good
<1>2. DOMAIN objects = 1..Len(objects) /\ objects[1] \in Peer!Object
  BY DEF OneOrTwo
<1>3. /\ Good(s)
      /\ objects[1].name # None => objects[1].p \in s.t.created
  BY <1>1, <1>2, FetchAllocKeeps
<1>4. Peer!Fetched(objects) = IF Len(objects) = 1 THEN s
      ELSE Peer!FetchAlloc(s, objects[2])
  BY DEF Peer!Fetched
<1> HIDE DEF z, s
<1>5. CASE Len(objects) = 1
  BY <1>2, <1>3, <1>4, <1>5
<1>6. CASE Len(objects) = 2
  <2>1. objects[2] \in Peer!Object
        /\ Peer!Fetched(objects) = Peer!FetchAlloc(s, objects[2])
    BY <1>4, <1>6 DEF OneOrTwo
  <2>2. /\ Good(Peer!Fetched(objects))
           /\ s.t.created \subseteq Peer!Fetched(objects).t.created
        /\ objects[2].name # None
           => objects[2].p \in Peer!Fetched(objects).t.created
    BY <1>3, <2>1, FetchAllocKeeps
  <2>3. \A k \in DOMAIN objects : k = 1 \/ k = 2
    BY <1>2, <1>6
  <2> QED
    BY <1>3, <2>2, <2>3
<1> QED
  BY <1>5, <1>6 DEF OneOrTwo

-----------------------------------------------------------------------------
(* What waits in the queue *)

(* Signals of created peers tell a name (contactFounded, dialogFounded).   *)
LEMMA SignalsTyped ==
  ASSUME Peer!PeersAssumption, NEW t \in Peer!Table, Peer!Named(t),
         NEW is \in {"contact", "dialog"},
         NEW ps \in Seq(Peer!Peer), \A k \in DOMAIN ps : ps[k] \in t.created
  PROVE  Peer!Signals(is, t, ps) \in Seq(Peer!Event)
<1> DEFINE N(p) == IF p \in Chats THEN <<t.name[p], 0>> ELSE t.print[p]
<1>1. ASSUME NEW p \in t.created PROVE p \in Peer!Peer /\ N(p) \in Peer!PrintName
  <2>1. p \in Peer!Peer /\ t.name[p] \in Names /\ t.print[p] \in Peer!PrintName
    BY DEF Peer!Table, Peer!Named
  <2>2. <<t.name[p], 0>> \in Peer!PrintName
    BY <2>1, FS_CardinalityType, SameCardinality DEF Peer!PrintName,
       Peer!PeersAssumption
  <2> QED
    BY <2>1, <2>2
<1>2. ASSUME NEW p \in t.created
             PROVE [is |-> is, p |-> p, name |-> N(p)] \in Peer!Event
  <2> HIDE DEF N
  <2> QED
    BY <1>1 DEF Peer!Event
<1>3. DOMAIN ps = 1..Len(ps) /\ Len(ps) \in Nat
  OBVIOUS
<1>4. Peer!Signals(is, t, ps) = [k \in DOMAIN ps |-> [is |-> is, p |-> ps[k], name |-> N(ps[k])]]
  BY Zenon DEF Peer!Signals
<1> HIDE DEF N
<1>5. Peer!Signals(is, t, ps) \in [1..Len(ps) -> Peer!Event]
  BY <1>2, <1>3, <1>4
<1> QED
  BY <1>3, <1>5

(* The peers of objects, forwards and backwards.                           *)
LEMMA ShownTyped ==
  ASSUME NEW objects, OneOrTwo(objects), NEW C,
         \A k \in DOMAIN objects : objects[k].p \in C
  PROVE  /\ Peer!Shown(objects) \in Seq(Peer!Peer)
         /\ Peer!Reverse(Peer!Shown(objects)) \in Seq(Peer!Peer)
         /\ \A k \in DOMAIN Peer!Shown(objects) : Peer!Shown(objects)[k] \in C
         /\ \A k \in DOMAIN Peer!Reverse(Peer!Shown(objects)) : Peer!Reverse(Peer!Shown(objects))[k] \in C
<1> DEFINE ps == Peer!Shown(objects)
<1>1. DOMAIN objects = 1..Len(objects) /\ Len(objects) \in Nat
      /\ \A k \in DOMAIN objects : objects[k].p \in Peer!Peer
  <2>1. /\ DOMAIN objects = 1..Len(objects) /\ Len(objects) \in Nat
        /\ \A k \in DOMAIN objects : objects[k] \in Peer!Object
    BY DEF OneOrTwo
  <2>2. \A o \in Peer!Object : o.p \in Peer!Peer
    BY DEF Peer!Object
  <2> QED
    BY <2>1, <2>2
<1>2. ps = [k \in DOMAIN objects |-> objects[k].p]
  BY DEF Peer!Shown
<1>3. ps \in Seq(Peer!Peer) /\ Len(ps) = Len(objects)
      /\ \A k \in 1..Len(ps) : ps[k] \in C
  BY <1>1, <1>2
<1>4. DOMAIN ps = 1..Len(ps)
  BY <1>1, <1>2, <1>3
<1> HIDE DEF ps
<1>5. Peer!Reverse(ps) = [i \in 1..Len(ps) |-> ps[(Len(ps) - i) + 1]]
  BY DEF Peer!Reverse
<1>6. \A i \in 1..Len(ps) : (Len(ps) - i) + 1 \in 1..Len(ps)
  BY <1>1, <1>3
<1>7. Peer!Reverse(ps) \in [1..Len(ps) -> Peer!Peer]
      /\ \A i \in 1..Len(ps) : Peer!Reverse(ps)[i] \in C
  BY <1>3, <1>5, <1>6
<1> QED
  BY <1>1, <1>3, <1>4, <1>5, <1>7 DEF ps

(* Signals that are emitted, and the list that is cleared first.           *)
LEMMA EmitTyped ==
  ASSUME NEW old \in Seq(Peer!Event), NEW signals \in Seq(Peer!Event),
         NEW is \in {"contacts_clear", "dialogs_clear"}
  PROVE  /\ old \o signals \in Seq(Peer!Event)
         /\ old \o (Peer!Clear(is) \o signals) \in Seq(Peer!Event)
<1>1. PICK e \in Peer!Event : Peer!Clear(is) = <<e>>
  BY DEF Peer!Clear, Peer!Event
<1>2. Peer!Clear(is) \in Seq(Peer!Event)
  BY <1>1
<1> QED
  BY <1>2, ConcatProperties

(* What is in the queue has one of the kinds.                              *)
LEMMA EventKinds ==
  ASSUME NEW c \in Seq(Peer!Event)
  PROVE  \A k \in DOMAIN c :
           c[k].is \in {"contacts_clear", "contact", "dialogs_clear",
                        "dialog", "status", "call"}
<1>1. \A e \in Peer!Event : e.is \in {"contacts_clear", "contact", "dialogs_clear",
                                 "dialog", "status", "call"}
  BY DEF Peer!Event
<1> QED
  BY <1>1

-----------------------------------------------------------------------------
(* What a command reaches *)

(* What each command takes are peers.                                      *)
LEMMA TakenArePeers == \A x \in DOMAIN Peer!Taken : Peer!Taken[x] \in SUBSET Peer!Peer
  BY DEF Peer!Taken, Peer!Peer

(* The interpreter reaches the peer that prints under the name it is given, *)
(* if its command takes that peer (next_token_peer).                       *)
LEMMA NextTokenFinds ==
  ASSUME Peer!PeersAssumption, NEW t \in Peer!Table, Peer!Named(t),
         NEW token \in SUBSET Peer!Peer,
         NEW name \in Peer!PrintName \cup {Blank},
         NEW r \in Peer!NextToken(t, token, name)
  PROVE  /\ r \in Peer!Peer \cup {None}
         /\ \A q \in token : name # Blank /\ name = t.print[q] => r = q
<1> DEFINE at == {k \in DOMAIN t.known : t.known[k] \in token /\ t.print[t.known[k]] = name}
<1>1. t.known \in Seq(Peer!Peer) /\ t.created \subseteq Peer!Range(t.known)
      /\ t.created \subseteq Peer!Peer /\ DOMAIN t.known = 1..Len(t.known)
  BY DEF Peer!Table
<1>2. CASE name = Blank
  BY <1>1, <1>2 DEF Peer!NextToken
<1>3. CASE name # Blank
  <2>1. r \in IF at = {} THEN {None}
        ELSE {t.known[CHOOSE k \in at : \A j \in at : k <= j]}
    BY <1>3, Zenon DEF Peer!NextToken
  <2>2. name # None /\ name \in Peer!PrintName
    BY <1>3 DEF Peer!PeersAssumption
  <2>3. ASSUME NEW q \in token, name = t.print[q] PROVE q \in t.created /\ at # {}
    <3>1. q \in t.created
      BY <2>2, <2>3 DEF Peer!Named
    <3>2. PICK k \in DOMAIN t.known : t.known[k] = q
      BY <1>1, <3>1 DEF Peer!Range
    <3> QED
      BY <2>3, <3>1, <3>2
  <2>4. CASE at = {}
    BY <2>1, <2>3, <2>4
  <2>5. CASE at # {}
    <3>1. at \in SUBSET Nat
      BY <1>1
    <3>2. PICK k \in at : r = t.known[k]
      <4> HIDE DEF at
      <4>1. \E k \in at : \A j \in at : k <= j
        BY <2>5, <3>1, LeastOf
      <4> QED
        BY <2>1, <2>5, <4>1
    <3>3. r \in token /\ t.print[r] = name
      BY <3>2
    <3>4. r \in t.created
      BY <2>2, <3>3 DEF Peer!Named
    <3>5. \A q \in token : name = t.print[q] => q \in t.tree /\ r \in t.tree
      BY <2>3, <3>4 DEF Peer!Named
    <3> QED
      BY <3>3, <3>5 DEF Peer!Named
  <2> QED
    BY <2>4, <2>5
<1> QED
  BY <1>2, <1>3

-----------------------------------------------------------------------------
(* The steps *)

(* The step of a command that reached a peer under its own name.           *)
OnCourse ==
  done' # done /\ done'.meant # None /\ done'.reached # done'.meant
  => done'.name = Blank \/ done'.name # table.print[done'.meant]

(* What a step that leaves the core must keep.                             *)
LEMMA CoreKept ==
  ASSUME Peer!IInv, UNCHANGED Peer!core
  PROVE  /\ {table, replay}' \subseteq Peer!Table /\ logging' \in BOOLEAN
         /\ Peer!Named(table)' /\ Peer!ReplayFits(table, replay)'
  BY DEF Peer!IInv, Peer!TypeOK, Peer!core, Peer!Named, Peer!ReplayFits,
     Peer!SameNames

(* Objects, whatever is shown of them.                                     *)
LEMMA ReceivedKeeps ==
  ASSUME Peer!PeersAssumption, Peer!IInv, NEW objects, OneOrTwo(objects),
         Peer!Received(objects),
         calls' \in Seq(Peer!Event)
  PROVE  Peer!IInv' /\ OnCourse
<1> DEFINE s == Peer!Fetched(objects)
<1>1. Good(s)
  BY FetchedKeeps
<1>2. table' = s.t /\ replay' = s.log /\ logging' = logging
  BY DEF Peer!Received, Peer!Keep
<1>3. /\ s.t \in Peer!Table /\ s.log \in Peer!Table /\ Peer!Named(s.t)
         /\ Peer!ReplayFits(s.t, s.log)
  BY <1>1 DEF Good
<1> HIDE DEF s
<1>4. {table', replay'} \subseteq Peer!Table /\ Peer!Named(table)'
      /\ Peer!ReplayFits(table, replay)'
  BY <1>2, <1>3 DEF Peer!Named, Peer!ReplayFits, Peer!SameNames
<1>5. answers' \in 0..MaxAnswers
  <2>1. Len(objects) \in 1..2
    BY DEF OneOrTwo
  <2> QED
    BY <2>1 DEF Peer!Received, Peer!IInv, Peer!TypeOK, Peer!PeersAssumption
<1>6. UNCHANGED <<Peer!copies, done, running, restarts>>
  BY DEF Peer!Received
<1>7. Peer!TypeOK'
  BY <1>2, <1>4, <1>5, <1>6, EventKinds DEF Peer!IInv, Peer!TypeOK, Peer!copies
<1> QED
  BY <1>4, <1>6, <1>7 DEF Peer!IInv, OnCourse

(* The modelled answers have one or two objects.                           *)
LEMMA ObjectsTyped ==
  /\ \A objects \in Peer!Objects : OneOrTwo(objects)
  /\ \A o \in Peer!Object : OneOrTwo(<<o>>) /\ OneOrTwo(<<o, o>>)
<1>1. \A o, u \in Peer!Object : OneOrTwo(<<o>>) /\ OneOrTwo(<<o, u>>)
  BY DEF OneOrTwo
<1>2. ASSUME NEW objects \in Peer!Objects PROVE OneOrTwo(objects)
  <2>1. CASE objects \in {<<o>> : o \in Peer!Object}
    BY <1>1, <2>1
  <2>2. CASE objects \in {<<o, u>> : o \in Peer!Object, u \in {u \in Peer!Object : u.p \in Users}}
    <3>1. PICK o \in Peer!Object, u \in Peer!Object : objects = <<o, u>>
      BY <2>2
    <3> QED
      BY <1>1, <3>1
  <2> QED
    BY <2>1, <2>2 DEF Peer!Objects
<1> QED
  BY <1>1, <1>2

(* Objects with data that are shown.                                       *)
LEMMA ShownKeeps ==
  ASSUME Peer!PeersAssumption, Peer!IInv, NEW objects, OneOrTwo(objects),
         Peer!Received(objects),
         \A k \in DOMAIN objects : objects[k].name # None,
         NEW is \in {"contact", "dialog"}
  PROVE  /\ table' \in Peer!Table /\ Peer!Named(table')
         /\ Peer!Signals(is, table', Peer!Shown(objects)) \in Seq(Peer!Event)
         /\ Peer!Signals(is, table', Peer!Reverse(Peer!Shown(objects))) \in Seq(Peer!Event)
<1> DEFINE s == Peer!Fetched(objects)
<1>1. /\ Good(s) /\ \A k \in DOMAIN objects : objects[k].p \in s.t.created
  BY FetchedKeeps
<1>2. table' = s.t
  BY DEF Peer!Received, Peer!Keep
<1>3. s.t \in Peer!Table /\ Peer!Named(s.t)
  BY <1>1 DEF Good
<1> HIDE DEF s
<1>4. Peer!Signals(is, s.t, Peer!Shown(objects)) \in Seq(Peer!Event)
  BY <1>1, <1>3, ShownTyped, SignalsTyped
<1>5. Peer!Signals(is, s.t, Peer!Reverse(Peer!Shown(objects))) \in Seq(Peer!Event)
  BY <1>1, <1>3, ShownTyped, SignalsTyped
<1> QED
  BY <1>2, <1>3, <1>4, <1>5

(* A silent answer.                                                        *)
LEMMA SilentlyKeeps ==
  ASSUME Peer!PeersAssumption, Peer!IInv, NEW objects, OneOrTwo(objects),
         Peer!Silently(objects)
  PROVE  Peer!IInv' /\ OnCourse
<1>1. calls' \in Seq(Peer!Event)
  BY DEF Peer!Silently, Peer!IInv
<1> QED
  BY <1>1, ReceivedKeeps DEF Peer!Silently

(* One contact that is shown.                                              *)
LEMMA ContactShownKeeps ==
  ASSUME Peer!PeersAssumption, Peer!IInv, NEW o \in Peer!Object, NEW objects,
         objects \in {<<o>>, <<o, o>>}, Peer!ContactShown(o, objects)
  PROVE  Peer!IInv' /\ OnCourse
<1>1. OneOrTwo(objects) /\ OneOrTwo(<<o>>)
  BY ObjectsTyped
<1>2. DOMAIN objects = 1..Len(objects) /\ 1 \in DOMAIN objects /\ objects[1] = o
      /\ o.name # None /\ o.p \in Peer!Peer
  BY DEF Peer!ContactShown, Peer!Object
<1> DEFINE s == Peer!Fetched(objects)
<1>3. Good(s) /\ o.p \in s.t.created
  BY <1>1, <1>2, FetchedKeeps DEF Peer!ContactShown
<1>4. table' = s.t
  BY DEF Peer!ContactShown, Peer!Received, Peer!Keep
<1>5. s.t \in Peer!Table /\ Peer!Named(s.t)
  BY <1>3 DEF Good
<1> HIDE DEF s
<1>6. PICK ps : ps = <<o.p>>
  OBVIOUS
<1>7. ps \in Seq(Peer!Peer) /\ \A k \in DOMAIN ps : ps[k] \in s.t.created
  BY <1>2, <1>3, <1>6
<1>8. Peer!Signals("contact", s.t, ps) \in Seq(Peer!Event)
  BY <1>5, <1>7, SignalsTyped
<1>9. calls' \in Seq(Peer!Event)
  BY <1>4, <1>6, <1>8, EmitTyped DEF Peer!ContactShown, Peer!Emit, Peer!IInv
<1> QED
  BY <1>1, <1>9, ReceivedKeeps DEF Peer!ContactShown

(* A call that is queued.                                                  *)
LEMMA PostKeeps ==
  ASSUME Peer!PeersAssumption, Peer!IInv, NEW p \in Peer!Peer,
         NEW takes \in DOMAIN Peer!Taken,
         p \in Peer!Taken[takes], NEW name \in Peer!PrintName \cup {Blank},
         Peer!Post(p, takes, name)
  PROVE  Peer!IInv' /\ OnCourse
<1> DEFINE c == [is |-> "call", p |-> p, name |-> name, takes |-> takes]
<1>1. c \in Peer!Event
  BY DEF Peer!Event
<1>2. calls' = Append(calls, c) /\ calls \in Seq(Peer!Event)
  BY DEF Peer!Post, Peer!IInv
<1> HIDE DEF c
<1>3. calls' \in Seq(Peer!Event)
  BY <1>1, <1>2, AppendProperties
<1>4. UNCHANGED <<Peer!core, Peer!copies, done, running, answers, restarts>>
  BY DEF Peer!Post
<1>5. Peer!TypeOK'
  BY <1>3, <1>4, CoreKept, EventKinds DEF Peer!IInv, Peer!TypeOK, Peer!core,
     Peer!copies
<1> QED
  BY <1>3, <1>4, <1>5, CoreKept DEF Peer!IInv, OnCourse

(* The main thread runs an event of the queue.                             *)
LEMMA MainThreadKeeps ==
  ASSUME Peer!PeersAssumption, Peer!IInv, Peer!MainThread
  PROVE  Peer!IInv' /\ OnCourse
<1> DEFINE e == Head(calls)
<1>1. e \in Peer!Event /\ calls' \in Seq(Peer!Event)
  <2>1. calls \in Seq(Peer!Event) /\ calls # <<>>
    BY DEF Peer!IInv, Peer!MainThread
  <2> QED
    BY <2>1, HeadTailProperties DEF Peer!MainThread
<1>2. UNCHANGED <<Peer!core, answers, restarts>>
  BY DEF Peer!MainThread
<1>3. \/ e.is = "contacts_clear" /\ Peer!ContactListClear
      \/ e.is = "contact" /\ Peer!ContactFounded(e)
      \/ e.is = "dialogs_clear" /\ Peer!DialogListClear
      \/ e.is = "dialog" /\ Peer!DialogFounded(e)
      \/ e.is = "status" /\ Peer!UserStatusChanged(e)
      \/ e.is = "call" /\ Peer!Interpret(e)
  BY DEF Peer!MainThread
<1> HIDE DEF e
<1> DEFINE Copy == [Peer!Peer -> Peer!PrintName \cup {None, Blank}]
           Done == [meant : Peer!Peer \cup {None}, reached : Peer!Peer \cup {None},
                    name : Peer!PrintName \cup {None, Blank}]
           Fine == /\ contacts' \in Copy /\ dialogs' \in Copy /\ done' \in Done
                   /\ running' \in BOOLEAN /\ OnCourse
<1>4. contacts \in Copy /\ dialogs \in Copy /\ done \in Done /\ running \in BOOLEAN
  BY DEF Peer!IInv, Peer!TypeOK
<1>5. Peer!NoCopies \in Copy
  BY DEF Peer!NoCopies
<1> HIDE DEF Copy, Done
<1>6. ASSUME e.is = "contacts_clear" /\ Peer!ContactListClear
      PROVE  Fine
  BY <1>4, <1>5, <1>6 DEF Peer!ContactListClear, OnCourse
<1>7. ASSUME e.is = "contact" /\ Peer!ContactFounded(e)
      PROVE  Fine
  <2>1. e.p \in Peer!Peer /\ e.name \in Peer!PrintName
    BY <1>1, <1>7 DEF Peer!Event
  <2>2. contacts' \in Copy /\ dialogs' \in Copy
    BY <1>4, <1>7, <2>1 DEF Peer!ContactFounded, Copy
  <2> QED
    BY <1>4, <1>7, <2>2 DEF Peer!ContactFounded, OnCourse
<1>8. ASSUME e.is = "dialogs_clear" /\ Peer!DialogListClear
      PROVE  Fine
  BY <1>4, <1>5, <1>8 DEF Peer!DialogListClear, OnCourse
<1>9. ASSUME e.is = "dialog" /\ Peer!DialogFounded(e)
      PROVE  Fine
  <2>1. e.p \in Peer!Peer /\ e.name \in Peer!PrintName
    BY <1>1, <1>9 DEF Peer!Event
  <2>2. contacts' \in Copy /\ dialogs' \in Copy
    BY <1>4, <1>9, <2>1 DEF Peer!DialogFounded, Copy
  <2> QED
    BY <1>4, <1>9, <2>2 DEF Peer!DialogFounded, OnCourse
<1>10. ASSUME e.is = "status" /\ Peer!UserStatusChanged(e)
      PROVE  Fine
  <2>1. contacts' \in Copy
    BY <1>4, <1>10 DEF Peer!UserStatusChanged, Copy
  <2> QED
    BY <1>4, <1>10, <2>1 DEF Peer!UserStatusChanged, OnCourse
<1>11. ASSUME e.is = "call" /\ Peer!Interpret(e)
      PROVE  Fine
  <2>1. /\ e.p \in Peer!Peer /\ e.name \in Peer!PrintName \cup {Blank}
           /\ e.takes \in DOMAIN Peer!Taken
        /\ e.p \in Peer!Taken[e.takes]
    BY <1>1, <1>11 DEF Peer!Event
  <2>2. PICK r \in Peer!NextToken(table, Peer!Taken[e.takes], e.name) :
          /\ done' = [meant |-> e.p, name |-> e.name, reached |-> r]
          /\ running' = Peer!MakesOfUser(e.takes, r)
    BY <1>11 DEF Peer!Interpret
  <2>3. UNCHANGED Peer!copies
    BY <1>11 DEF Peer!Interpret
  <2>4. Peer!Taken[e.takes] \in SUBSET Peer!Peer
    BY <2>1, TakenArePeers
  <2>5. table \in Peer!Table /\ Peer!Named(table)
    BY DEF Peer!IInv, Peer!TypeOK
  <2>6. /\ r \in Peer!Peer \cup {None}
        /\ \A q \in Peer!Taken[e.takes] : e.name # Blank /\ e.name = table.print[q]
           => r = q
    BY <2>1, <2>2, <2>4, <2>5, NextTokenFinds
  <2>7. done'.meant = e.p /\ done'.name = e.name /\ done'.reached = r
    BY <2>2
  <2>8. OnCourse
    BY <2>1, <2>6, <2>7 DEF OnCourse
  <2>9. done' \in Done
    BY <2>1, <2>2, <2>6 DEF Done
  <2>10. running' \in BOOLEAN
    BY <2>2 DEF Peer!MakesOfUser
  <2> QED
    BY <1>4, <2>3, <2>8, <2>9, <2>10 DEF Peer!copies
<1>12. Fine
  <2> HIDE DEF Fine
  <2> QED
    BY <1>3, <1>6, <1>7, <1>8, <1>9, <1>10, <1>11
<1>13. Peer!TypeOK'
  BY <1>1, <1>2, <1>12, CoreKept, EventKinds DEF Peer!IInv, Peer!TypeOK, Peer!core,
     Copy, Done
<1> QED
  BY <1>1, <1>2, <1>12, <1>13, CoreKept DEF Peer!IInv

(* The event log is replayed.                                              *)
LEMMA RestartKeeps ==
  ASSUME Peer!PeersAssumption, Peer!IInv, Peer!Restart
  PROVE  Peer!IInv' /\ OnCourse
<1>1. /\ {table, replay} \subseteq Peer!Table /\ Peer!Named(table)
         /\ Peer!ReplayFits(table, replay)
      /\ logging \in BOOLEAN /\ answers \in 0..MaxAnswers
         /\ restarts \in 0..MaxRestarts
  BY DEF Peer!IInv, Peer!TypeOK
<1>2. table' = replay /\ replay' = replay /\ logging' = logging
      /\ answers' = answers
  BY DEF Peer!Restart
<1>3. Peer!Named(replay)
  BY <1>1, NoPeersNamed DEF Peer!ReplayFits, Peer!SameNames, Peer!Named
<1>4. Peer!Named(table)' /\ Peer!ReplayFits(table, replay)'
  BY <1>1, <1>2, <1>3 DEF Peer!Named, Peer!ReplayFits, Peer!SameNames
<1>5. calls' = <<>> /\ calls' \in Seq(Peer!Event)
  BY DEF Peer!Restart
<1>6. done' = Peer!NothingDone /\ running' = TRUE /\ contacts' = Peer!NoCopies
      /\ dialogs' = Peer!NoCopies
  BY DEF Peer!Restart
<1>7. restarts' \in 0..MaxRestarts
  BY <1>1 DEF Peer!Restart, Peer!PeersAssumption
<1>8. Peer!TypeOK'
  BY <1>1, <1>2, <1>5, <1>6, <1>7, EventKinds DEF Peer!TypeOK, Peer!NothingDone,
     Peer!NoCopies
<1> QED
  BY <1>4, <1>5, <1>6, <1>8 DEF Peer!IInv, OnCourse, Peer!NothingDone

-----------------------------------------------------------------------------
(* The invariant *)

(* It holds of a fresh program.                                            *)
LEMMA NamesInit == Peer!PeersAssumption /\ Peer!Init => Peer!IInv
<1> SUFFICES ASSUME Peer!PeersAssumption, Peer!Init PROVE Peer!IInv
  OBVIOUS
<1>1. /\ table = Peer!NoPeers /\ replay = Peer!NoPeers /\ logging \in BOOLEAN
      /\ contacts = Peer!NoCopies /\ dialogs = Peer!NoCopies /\ calls = <<>>
      /\ done = Peer!NothingDone /\ running = TRUE /\ answers = 0 /\ restarts = 0
  BY DEF Peer!Init
<1>2. Peer!Named(table) /\ Peer!ReplayFits(table, replay)
      /\ {table, replay} \subseteq Peer!Table
  BY <1>1, NoPeersNamed DEF Peer!ReplayFits, Peer!SameNames
<1>3. calls \in Seq(Peer!Event)
  BY <1>1
<1>4. Peer!TypeOK
  BY <1>1, <1>2, <1>3, EventKinds DEF Peer!TypeOK, Peer!NothingDone, Peer!NoCopies,
     Peer!PeersAssumption
<1> QED
  BY <1>2, <1>3, <1>4 DEF Peer!IInv

(* Every step keeps it, and no command goes astray under the print name of *)
(* the peer that was meant.                                                *)
LEMMA NamesNext ==
  Peer!PeersAssumption /\ Peer!IInv /\ [Peer!Next]_(Peer!names_vars) => Peer!IInv'
  /\ OnCourse
<1> SUFFICES ASSUME Peer!PeersAssumption, Peer!IInv, [Peer!Next]_(Peer!names_vars)
                    PROVE Peer!IInv' /\ OnCourse
  OBVIOUS
<1>1. CASE \E objects \in Peer!Objects : Peer!Silently(objects)
  BY <1>1, ObjectsTyped, SilentlyKeeps
<1>2. CASE Peer!UserInfoAnswer
  BY <1>2, ObjectsTyped, SilentlyKeeps DEF Peer!UserInfoAnswer
<1>3. CASE Peer!ContactsAnswer
  <2>1. PICK objects \in Peer!Objects :
          /\ \A k \in DOMAIN objects : objects[k].p \in Users
             /\ objects[k].name # None
          /\ Peer!Received(objects)
          /\ Peer!Emit(Peer!Clear("contacts_clear") \o Peer!Signals("contact", table', Peer!Shown(objects)))
    BY <1>3, Zenon DEF Peer!ContactsAnswer
  <2>2. OneOrTwo(objects)
    BY ObjectsTyped
  <2>3. Peer!Signals("contact", table', Peer!Shown(objects)) \in Seq(Peer!Event)
    BY <2>1, <2>2, ShownKeeps
  <2>4. calls' \in Seq(Peer!Event)
    BY <2>1, <2>3, EmitTyped DEF Peer!Emit, Peer!IInv
  <2> QED
    BY <2>1, <2>2, <2>4, ReceivedKeeps
<1>4. CASE Peer!ContactAnswer \/ Peer!OwnInfoAnswer
  BY <1>4, ContactShownKeeps DEF Peer!ContactAnswer, Peer!OwnInfoAnswer
<1>5. CASE Peer!DialogsAnswer
  <2>1. PICK objects \in Peer!Objects :
          /\ \A k \in DOMAIN objects : objects[k].name # None
          /\ Peer!Received(objects)
          /\ Peer!Emit(Peer!Clear("dialogs_clear") \o Peer!Signals("dialog", table', Peer!Reverse(Peer!Shown(objects))))
    BY <1>5, Zenon DEF Peer!DialogsAnswer
  <2>2. OneOrTwo(objects)
    BY ObjectsTyped
  <2>3. Peer!Signals("dialog", table', Peer!Reverse(Peer!Shown(objects))) \in Seq(Peer!Event)
    BY <2>1, <2>2, ShownKeeps
  <2>4. calls' \in Seq(Peer!Event)
    BY <2>1, <2>3, EmitTyped DEF Peer!Emit, Peer!IInv
  <2> QED
    BY <2>1, <2>2, <2>4, ReceivedKeeps
<1>6. CASE Peer!StatusUpdate
  <2>1. PICK u \in Users :
          /\ Peer!Emit(<<[is |-> "status", p |-> u, name |-> None]>>)
          /\ UNCHANGED <<Peer!core, Peer!copies, done, running, answers, restarts>>
    BY <1>6 DEF Peer!StatusUpdate
  <2>2. [is |-> "status", p |-> u, name |-> None] \in Peer!Event
    BY DEF Peer!Event
  <2>3. calls' \in Seq(Peer!Event)
    BY <2>1, <2>2, ConcatProperties DEF Peer!Emit, Peer!IInv
  <2>4. Peer!TypeOK'
    BY <2>1, <2>3, CoreKept, EventKinds DEF Peer!IInv, Peer!TypeOK, Peer!core,
       Peer!copies
  <2> QED
    BY <2>1, <2>3, <2>4, CoreKept DEF Peer!IInv, OnCourse
<1>7. CASE \E p \in Peer!Peer, takes \in DOMAIN Peer!Taken,
           name \in Peer!PrintName \cup {Blank} :
             p \in Peer!Taken[takes] /\ Peer!Post(p, takes, name)
  BY <1>7, PostKeeps
<1>8. CASE Peer!CallPeer \/ Peer!SearchPeer \/ Peer!LoadUserInfo
           \/ Peer!LoadChatInfo \/ Peer!CreateChat \/ Peer!ChangeChat
  <2>1. /\ \A p \in Peer!Peer : contacts[p] # None
           => contacts[p] \in Peer!PrintName \cup {Blank}
        /\ \A p \in Peer!Peer : dialogs[p] # None
           => dialogs[p] \in Peer!PrintName \cup {Blank}
    BY DEF Peer!IInv, Peer!TypeOK
  <2>2. \A p \in Peer!Peer : Peer!PeerName(p) # None
        => Peer!PeerName(p) \in Peer!PrintName \cup {Blank}
    BY <2>1 DEF Peer!PeerName
  <2>3. /\ {"peer", "user", "make", "chat"} \subseteq DOMAIN Peer!Taken
        /\ Peer!Taken["peer"] = Peer!Peer /\ Peer!Taken["make"] = Peer!Peer
        /\ Peer!Taken["user"] = Users /\ Peer!Taken["chat"] = Chats
        /\ Users \subseteq Peer!Peer /\ Chats \subseteq Peer!Peer
    BY DEF Peer!Taken, Peer!Peer
  <2>4. CASE Peer!CallPeer
    BY <1>7, <2>2, <2>3, <2>4 DEF Peer!CallPeer
  <2>5. CASE Peer!SearchPeer
    BY <1>7, <2>1, <2>3, <2>5 DEF Peer!SearchPeer
  <2>6. CASE Peer!LoadUserInfo
    BY <1>7, <2>1, <2>3, <2>6 DEF Peer!LoadUserInfo
  <2>7. CASE Peer!LoadChatInfo
    BY <1>7, <2>1, <2>3, <2>7 DEF Peer!LoadChatInfo
  <2>8. CASE Peer!CreateChat
    BY <1>7, <2>1, <2>3, <2>8 DEF Peer!CreateChat
  <2>9. CASE Peer!ChangeChat
    BY <1>7, <2>1, <2>3, <2>9 DEF Peer!ChangeChat
  <2> QED
    BY <1>8, <2>4, <2>5, <2>6, <2>7, <2>8, <2>9
<1>9. CASE Peer!MainThread
  BY <1>9, MainThreadKeeps
<1>10. CASE Peer!Restart
  BY <1>10, RestartKeeps
<1>11. CASE UNCHANGED Peer!names_vars
  <2>1. UNCHANGED <<Peer!core, Peer!copies, calls, done, running, answers, restarts>>
    BY <1>11 DEF Peer!names_vars
  <2>2. Peer!TypeOK' /\ calls' \in Seq(Peer!Event)
    BY <2>1, CoreKept DEF Peer!IInv, Peer!TypeOK, Peer!core, Peer!copies
  <2> QED
    BY <2>1, <2>2, CoreKept DEF Peer!IInv, OnCourse
<1>12. Peer!HistoryAnswer \/ Peer!StatedMessageAnswer \/ Peer!ChatInfoAnswer
       \/ Peer!UserListAnswer
       \/ Peer!SearchAnswer \/ Peer!SuggestedAnswer
       => \E objects \in Peer!Objects : Peer!Silently(objects)
  BY DEF Peer!HistoryAnswer, Peer!StatedMessageAnswer, Peer!ChatInfoAnswer,
     Peer!UserListAnswer,
         Peer!SearchAnswer, Peer!SuggestedAnswer
<1> QED
  BY <1>1, <1>2, <1>3, <1>4, <1>5, <1>6, <1>8, <1>9, <1>10, <1>11, <1>12
     DEF Peer!Next

-----------------------------------------------------------------------------
(* The theorems                                                            *)

(* Behind the counters pts, qts, seq and date, in memory and in the state  *)
(* file, nothing is that was not handled: whatever updates are lost, come  *)
(* again or late, and wherever the process is killed (work_updates,        *)
(* get_difference_on_answer, write_state_file).                            *)
THEOREM UpdatesAreRight == Spec => []UpdatesRight
<1>1. Init => Upd!IInv
  BY ConstantsAssumption, Upd!InitIInv DEF Init
<1>2. Upd!IInv /\ [Next]_sync_vars => Upd!IInv'
  BY ConstantsAssumption, UpdatesStep, Upd!NextIInv
<1>3. Upd!IInv => UpdatesRight
  BY DEF UpdatesRight, Upd!IInv, Upd!NothingMissed, Upd!Accounted
<1> QED
  BY <1>1, <1>2, <1>3, PTL DEF Spec

(* While the client runs and no connection is lost, pts and qts go back    *)
(* only with a slice of the difference, though answers overtake what the   *)
(* client learns while it waits for them (get_state_on_answer,             *)
(* get_difference_on_answer, fetch_pts, fetch_qts).                        *)
THEOREM CountersNeverGoBack == Spec => NeverBack
<1> DEFINE Step == phase = "running" /\ phase' = "running" /\ losses = 0
                   /\ ~Upd!SliceArrives
                     => mem'.pts >= mem.pts /\ mem'.qts >= mem.qts
<1>1. Init => Upd!IInv /\ Upd!InOrder
  BY ConstantsAssumption, Upd!InitIInv, Upd!InitInOrder DEF Init
<1>2. Upd!IInv /\ Upd!InOrder /\ [Next]_sync_vars => (Upd!IInv /\ Upd!InOrder)'
  BY ConstantsAssumption, UpdatesStep, Upd!NextIInv, Upd!NextInOrder
<1>3. Upd!IInv /\ Upd!InOrder /\ [Next]_sync_vars => [Step]_(Upd!vars)
  <2> SUFFICES ASSUME Upd!IInv, Upd!InOrder, [Next]_sync_vars PROVE Step
    OBVIOUS
  <2>1. /\ mem.pts \in Nat /\ mem.qts \in Nat /\ mem'.pts \in Nat
           /\ mem'.qts \in Nat
    BY <1>2, Upd!Basics DEF Upd!IInv, Upd!TypeOK, Upd!Counters
  <2> QED
    BY <2>1, ConstantsAssumption, UpdatesStep, Upd!NextInOrder
<1>4. NeverBack <=> [][Step]_(Upd!vars)
  BY DEF NeverBack, Upd!NeverBack
<1> HIDE DEF Step
<1> QED
  BY <1>1, <1>2, <1>3, <1>4, PTL DEF Spec

(* The participants are the server's of the version the client names, if   *)
(* the changes since the last whole list came, in whatever order and       *)
(* however often; and an assertion of the events fails only in a chat that *)
(* somebody has left (bl_do_set_chat_participants, bl_do_chat_add_user,    *)
(* bl_do_chat_del_user, fetch_chat, fetch_alloc_chat_full).                *)
THEOREM ParticipantsAreRight == Spec => []ParticipantsRight
<1>1. Init => Chat!IInv
  BY ConstantsAssumption, ChatInit DEF Init
<1>2. Chat!IInv /\ [Next]_sync_vars => Chat!IInv'
  BY ConstantsAssumption, ChatStep, ChatNext
<1>3. Chat!IInv => ParticipantsRight
  BY DEF ParticipantsRight, Chat!IInv
<1> QED
  BY <1>1, <1>2, <1>3, PTL DEF Spec

(* No update, late or repeated, and no answer replaces the list by an      *)
(* older one; only a start without event log begins again from none        *)
(* (bl_do_set_chat_participants, bl_do_chat_add_user).                     *)
THEOREM ListNeverGetsOlder == Spec => ListNeverOlder
<1> DEFINE Step == chat'.listVersion >= chat.listVersion \/ starts' # starts
<1>1. Init => Chat!IInv
  BY ConstantsAssumption, ChatInit DEF Init
<1>2. Chat!IInv /\ [Next]_sync_vars => Chat!IInv'
  BY ConstantsAssumption, ChatStep, ChatNext
<1>3. Chat!IInv /\ [Next]_sync_vars => [Step]_(Chat!roster_vars)
  BY ConstantsAssumption, ChatStep, ChatNext
<1>4. ListNeverOlder <=> [][Step]_(Chat!roster_vars)
  BY DEF ListNeverOlder, Chat!ListNeverOlder
<1> HIDE DEF Step
<1> QED
  BY <1>1, <1>2, <1>3, <1>4, PTL DEF Spec

(* No two peers print under one name, each created peer is in the tree of  *)
(* names, and a replay of the event log gives every peer the name and the  *)
(* number it had, whatever renamings, repeated and empty objects came      *)
(* (create_print_name, peer_insert_name, replay_log_event).                *)
THEOREM NamesAreRight == Spec => []NamesRight
<1>1. Init => Peer!IInv
  BY ConstantsAssumption, NamesInit DEF Init
<1>2. Peer!IInv /\ [Next]_sync_vars => Peer!IInv'
  BY ConstantsAssumption, PeersStep, NamesNext
<1>3. Peer!IInv => NamesRight
  BY DEF NamesRight, Peer!IInv, Peer!Named, Peer!NamesUnique, Peer!ReplayRebuilds,
         Peer!ReplayFits, Peer!SameNames
<1> QED
  BY <1>1, <1>2, <1>3, PTL DEF Spec

(* A command that is given the print name of the peer that was meant       *)
(* reaches that peer, however many signals, renamings and other calls came *)
(* between the choice and the command (next_token_peer, send_command).     *)
THEOREM CommandsStayOnCourse == Spec => AstrayOnlyUnderWrongName
<1>1. Init => Peer!IInv
  BY ConstantsAssumption, NamesInit DEF Init
<1>2. Peer!IInv /\ [Next]_sync_vars => Peer!IInv'
  BY ConstantsAssumption, PeersStep, NamesNext
<1>3. Peer!IInv /\ [Next]_sync_vars => [OnCourse]_(Peer!names_vars)
  BY ConstantsAssumption, PeersStep, NamesNext
<1>4. AstrayOnlyUnderWrongName <=> [][OnCourse]_(Peer!names_vars)
  BY DEF AstrayOnlyUnderWrongName, Peer!AstrayOnlyUnderWrongName, OnCourse
<1> HIDE DEF OnCourse
<1> QED
  BY <1>1, <1>2, <1>3, <1>4, PTL DEF Spec
=============================================================================
