-------------------------- MODULE ConnectionProofs --------------------------
(***************************************************************************)
(* What holds of Connection for every set of descriptors and all bounds.   *)
(* IInv is inductive: each action is a step of StepKeepsIInv; the actions  *)
(* that fail the connection share the lemma FailKeepsIInv, and those that  *)
(* try to connect share RestartKeepsIInv.                                  *)
(***************************************************************************)
EXTENDS Connection, SequenceTheorems, TLAPS

Item == {"hdr", "msg"}

(* The initial state satisfies the invariant: no connection, no timer.     *)
LEMMA InitIInv == Init => IInv
<1> SUFFICES ASSUME Init PROVE IInv
  OBVIOUS
<1>1. <<>> \in Seq(Item)
  BY EmptySeq
<1>2. TypeOK
  <2>1. out \in Seq({"hdr", "msg"})
    BY <1>1 DEF Init, Item
  <2>2. deaths \in 0..MaxDeaths
    BY BoundAssumption DEF Init
  <2>5. outages \in 0..MaxOutages
    BY BoundAssumption DEF Init
  <2>3. conns \subseteq Fd /\ polled \subseteq Fd /\ revents \subseteq Event
    BY DEF Init
  <2>4. port \in Port
    BY DEF Init, Port
  <2>6. timers \in 0..2 /\ failures \in Nat
    BY DEF Init
  <2> QED
    BY <2>1, <2>2, <2>3, <2>4, <2>5, <2>6 DEF Init, TypeOK, Live
<1> QED
  BY <1>2 DEF Init, IInv, OneTimer, AlarmFits, RegisteredIffLive, HeaderFirst,
     CrashNeedsFailure, Unborn, PolledRegistered, HeaderAhead, Running, Crash, Live

(* A buffer stays a buffer, and keeps its head, when something is appended; *)
(* and what try_write leaves of it is a buffer.                            *)
LEMMA AppendKeepsHead ==
  ASSUME NEW s \in Seq(Item), NEW x \in Item
  PROVE  /\ Append(s, x) \in Seq(Item) /\ Append(s, x) # <<>>
         /\ Head(Append(s, x)) = IF s = <<>> THEN x ELSE Head(s)
BY AppendProperties, HeadTailProperties

LEMMA WrittenIsBuffer ==
  ASSUME NEW s \in Seq(Item), NEW k \in 0..Len(s)
  PROVE  SubSeq(s, k + 1, Len(s)) \in Seq(Item)
BY SubSeqProperties, LenProperties

(* restart_connection: its two outcomes keep the types, and leave one      *)
(* timer that fits the state, unless the timer was there already.          *)
LEMMA RestartTypes ==
  ASSUME IInv, NEW n \in 0..1, NEW i \in BOOLEAN, NEW cs \in SUBSET Fd,
         NEW o \in Seq(Item), NEW next \in {"read", "event", "build"},
         Restart(n, i, cs, o, next)
  PROVE  /\ state' \in {"connecting", "failed"}
         /\ fd' \in Fd /\ conns' \in SUBSET Fd
         /\ timers' \in 0..2 /\ alarm' \in {"ping", "fail"} /\ inFail' \in BOOLEAN
         /\ out' \in Seq(Item)
         /\ silence' \in {"short", "long", "timeout"} /\ sameSecond' \in BOOLEAN
         /\ phase' \in {next, "misused"}
         /\ sock' \in {"closed", "connecting"} /\ stream' = "nothing"
<1>1. CASE RestartLater(n, i, cs, o, next)
  BY <1>1 DEF RestartLater, StartFailTimer, InsertTimer, IInv, TypeOK
<1>2. CASE RestartNow(n, i, cs, o, next)
  <2>1. Append(o, "hdr") \in Seq(Item)
    BY AppendKeepsHead DEF Item
  <2> QED
    BY <1>2, <2>1 DEF RestartNow, InsertTimer, IInv, TypeOK
<1> QED
  BY <1>1, <1>2 DEF Restart

LEMMA RestartFits ==
  ASSUME IInv, NEW n \in 0..1, NEW i \in BOOLEAN, NEW cs \in SUBSET Fd,
         NEW o \in Seq(Item), NEW next \in {"read", "event", "build"},
         Restart(n, i, cs, o, next),
         n = 0 <=> ~i,
         n = 1 => alarm = "fail"
  PROVE  phase' = next =>
           /\ timers' = 1
           /\ alarm' = "ping" <=> state' \in Live
           /\ inFail' <=> state' = "failed"
<1>1. CASE RestartLater(n, i, cs, o, next)
  BY <1>1 DEF RestartLater, StartFailTimer, InsertTimer, Live
<1>2. CASE RestartNow(n, i, cs, o, next)
  BY <1>2 DEF RestartNow, InsertTimer, Live
<1> QED
  BY <1>1, <1>2 DEF Restart

LEMMA RestartRegisters ==
  ASSUME NEW n, NEW i, NEW o, NEW next, Restart(n, i, {}, o, next)
  PROVE  conns' = IF state' \in Live THEN {fd'} ELSE {}
BY DEF Restart, RestartLater, RestartNow, Live

LEMMA RestartHeads ==
  ASSUME NEW n, NEW i, NEW cs, NEW next, Restart(n, i, cs, <<>>, next)
  PROVE  /\ state' = "failed" => out' = <<>>
         /\ state' \in Live => out' # <<>> /\ Head(out') = "hdr"
<1>1. <<>> \in Seq(Item)
  BY EmptySeq
<1>2. Append(<<>>, "hdr") # <<>> /\ Head(Append(<<>>, "hdr")) = "hdr"
  BY <1>1, AppendKeepsHead DEF Item
<1> QED
  BY <1>2 DEF Restart, RestartLater, RestartNow, Live

(* fail_connection, called with the timer out of the tree if the ping       *)
(* alarm calls it, and else with the connection as it is.                  *)
LEMMA FailKeepsIInv ==
  ASSUME IInv, state # "none", phase \in {"timers", "read", "event"},
         NEW s, NEW n \in 0..1, NEW next \in {"read", "event", "build"},
         \/ s = "failed" /\ n = 0 /\ state \in Live
         \/ n = timers /\ (s \in Live <=> state \in Live),
         FailConnection(s, n, next),
         UNCHANGED <<polled, revents, network>>
  PROVE  IInv'
<1>1. timers = 1 /\ (state \in Live \/ state = "failed") /\ inFail \in BOOLEAN
  BY DEF IInv, OneTimer, TypeOK, Running, Crash
<1> DEFINE m == IF s \in Live THEN n - 1 ELSE n
<1>2. ~(s \in Live /\ n = 0)
  BY <1>1 DEF Live
<1>3. m \in 0..1 /\ (m = 0 <=> ~inFail) /\ (m = 1 => alarm = "fail")
  <2>1. CASE state \in Live
    BY <1>1, <1>2, <2>1 DEF IInv, AlarmFits, Live, Running, Crash
  <2>2. CASE state = "failed"
    BY <1>1, <1>2, <2>2 DEF IInv, AlarmFits, TypeOK, Live, Running, Crash
  <2> QED
    BY <1>1, <2>1, <2>2
<1>4. /\ port' = rotate_port[port] /\ failures' = failures + 1 /\ queued' = FALSE
      /\ Restart(m, inFail, conns \ {fd}, <<>>, next)
  BY <1>2 DEF FailConnection
<1>5. conns \ {fd} = {} /\ {} \in SUBSET Fd
  BY DEF IInv, RegisteredIffLive
<1>6. <<>> \in Seq(Item)
  BY EmptySeq
<1> HIDE DEF m
<1>7. Restart(m, inFail, {}, <<>>, next)
  BY <1>4, <1>5
<1>8. /\ state' \in {"connecting", "failed"}
      /\ fd' \in Fd /\ conns' \in SUBSET Fd
      /\ timers' \in 0..2 /\ alarm' \in {"ping", "fail"} /\ inFail' \in BOOLEAN
      /\ out' \in Seq(Item)
      /\ silence' \in {"short", "long", "timeout"} /\ sameSecond' \in BOOLEAN
      /\ phase' \in {next, "misused"}
      /\ sock' \in {"closed", "connecting"} /\ stream' = "nothing"
  BY <1>1, <1>3, <1>5, <1>6, <1>7, RestartTypes
<1>9. TypeOK'
  <2>1. port' \in Port
    BY <1>4 DEF IInv, TypeOK, rotate_port, Port
  <2>2. failures' \in Nat
    BY <1>4 DEF IInv, TypeOK
  <2> QED
    BY <1>4, <1>8, <2>1, <2>2 DEF IInv, TypeOK, Live, Item, Crash, network
<1>10. OneTimer' /\ AlarmFits'
  <2>1. phase' = next =>
          /\ timers' = 1
          /\ alarm' = "ping" <=> state' \in Live
          /\ inFail' <=> state' = "failed"
    BY <1>1, <1>3, <1>5, <1>6, <1>7, RestartFits
  <2> QED
    BY <1>8, <2>1 DEF OneTimer, AlarmFits, Running, Crash
<1>11. RegisteredIffLive'
  BY <1>7, RestartRegisters DEF RegisteredIffLive
<1>12. HeaderFirst' /\ CrashNeedsFailure' /\ Unborn' /\ PolledRegistered'
  BY <1>4, <1>8 DEF HeaderFirst, CrashNeedsFailure, Unborn, PolledRegistered, IInv, TypeOK
<1>13. HeaderAhead'
  BY <1>7, RestartHeads DEF HeaderAhead
<1> QED
  BY <1>9, <1>10, <1>11, <1>12, <1>13 DEF IInv
(* Every action keeps the invariant.                                       *)
LEMMA StepKeepsIInv == IInv /\ [Next]_vars => IInv'
<1> SUFFICES ASSUME IInv, [Next]_vars PROVE IInv'
  OBVIOUS
<1> USE BoundAssumption
<1>1. CASE CreateConnection
  <2>1. <<"hdr">> \in Seq(Item) /\ <<"hdr">> # <<>> /\ Head(<<"hdr">>) = "hdr"
    BY DEF Item
  <2> QED
    BY <1>1, <2>1 DEF CreateConnection, InsertTimer, IInv, TypeOK, OneTimer, AlarmFits,
       RegisteredIffLive, HeaderFirst, CrashNeedsFailure, Unborn, PolledRegistered,
       HeaderAhead, Running, Crash, Live, loop, history, network, Item
<1>2. CASE SendMessage
  <2>1. /\ out' \in Seq(Item) /\ out' # <<>>
        /\ out # <<>> => Head(out') = Head(out)
    BY <1>2, AppendKeepsHead DEF SendMessage, IInv, TypeOK, Item
  <2> QED
    BY <1>2, <2>1 DEF SendMessage, IInv, TypeOK, OneTimer, AlarmFits,
       RegisteredIffLive, HeaderFirst, CrashNeedsFailure, Unborn, PolledRegistered,
       HeaderAhead, Running, Crash, Live, Item, conn, clock, loop, network
<1>3. CASE MakePollArray
  BY <1>3 DEF MakePollArray, IInv, TypeOK, OneTimer, AlarmFits, RegisteredIffLive, HeaderFirst,
        CrashNeedsFailure, Unborn, PolledRegistered, HeaderAhead,
        Running, Crash, Live, Event, conn, clock, loop, history, network
<1>4. CASE Poll
  <2>1. revents' \subseteq Event /\ (polled = {} => revents' = {})
    <3>1. revents' \in PollResult
      BY <1>4 DEF Poll
    <3>2. CASE polled = {} \/ sock = "connecting"
      BY <3>1, <3>2 DEF PollResult
    <3>3. CASE polled # {} /\ sock = "dead"
      BY <3>1, <3>3 DEF PollResult, Event
    <3>4. CASE polled # {} /\ sock \notin {"connecting", "dead"}
      <4> DEFINE o == IF out # <<>> \/ state = "connecting" THEN {"OUT"} ELSE {}
      <4>1. revents' \in {o, o \cup {"IN"}}
        BY <3>1, <3>4 DEF PollResult
      <4>2. o \subseteq Event /\ o \cup {"IN"} \subseteq Event
        BY DEF Event
      <4> QED
        BY <3>4, <4>1, <4>2
    <3> QED
      BY <3>2, <3>3, <3>4
  <2> QED
    BY <1>4, <2>1 DEF Poll, IInv, TypeOK, OneTimer, AlarmFits, RegisteredIffLive,
       HeaderFirst, CrashNeedsFailure, Unborn, PolledRegistered, HeaderAhead, Running,
       Crash, Live, conn, clock, history, network
<1>5. CASE WorkTimers
  BY <1>5 DEF WorkTimers, IInv, TypeOK, OneTimer, AlarmFits, RegisteredIffLive, HeaderFirst,
        CrashNeedsFailure, Unborn, PolledRegistered, HeaderAhead,
        Running, Crash, Live, Event, conn, clock, loop, history, network
<1>6. CASE PingTimeout
  <2>1. phase \in {"timers", "read", "event"} /\ state # "none" /\ timers - 1 \in 0..1 /\ timers - 1 = 0 /\ state \in Live
    BY <1>6 DEF PingTimeout, Due, IInv, TypeOK, OneTimer, AlarmFits, Unborn, Running, Crash
  <2> QED
    BY <1>6, <2>1, FailKeepsIInv DEF PingTimeout
<1>7. CASE SendPing
  <2>1. /\ out' \in Seq(Item) /\ out' # <<>>
        /\ out # <<>> => Head(out') = Head(out)
    BY <1>7, AppendKeepsHead DEF SendPing, IInv, TypeOK, Item
  <2> QED
    BY <1>7, <2>1 DEF SendPing, Due, InsertTimer, IInv, TypeOK, OneTimer, AlarmFits,
       RegisteredIffLive, HeaderFirst, CrashNeedsFailure, Unborn, PolledRegistered,
       HeaderAhead, Running, Crash, Live, Item, clock, history, network
<1>8. CASE NoPing
  BY <1>8 DEF NoPing, Due, InsertTimer, IInv, TypeOK, OneTimer, AlarmFits, RegisteredIffLive, HeaderFirst,
        CrashNeedsFailure, Unborn, PolledRegistered, HeaderAhead,
        Running, Crash, Live, Event, conn, clock, loop, history, network
<1>9. CASE FailAlarm
  <2>1. /\ Running /\ state = "failed" /\ timers = 1 /\ alarm = "fail" /\ conns = {}
        /\ polled \in SUBSET Fd /\ phase = "timers"
    BY <1>9 DEF FailAlarm, Due, IInv, TypeOK, OneTimer, AlarmFits, Unborn, Running,
       Crash, RegisteredIffLive, Live
  <2>2. Restart(0, FALSE, {}, out, "read")
    <3>1. timers - 1 = 0
      BY <2>1
    <3> QED
      BY <1>9, <2>1, <3>1 DEF FailAlarm
  <2>a. 0 \in 0..1 /\ FALSE \in BOOLEAN /\ {} \in SUBSET Fd /\ out \in Seq(Item)
    BY DEF IInv, TypeOK, Item
  <2>3. /\ state' \in {"connecting", "failed"}
        /\ fd' \in Fd /\ conns' \in SUBSET Fd
        /\ timers' \in 0..2 /\ alarm' \in {"ping", "fail"} /\ inFail' \in BOOLEAN
        /\ out' \in Seq(Item)
        /\ silence' \in {"short", "long", "timeout"} /\ sameSecond' \in BOOLEAN
        /\ phase' \in {"read", "misused"}
        /\ sock' \in {"closed", "connecting"} /\ stream' = "nothing"
    BY <2>2, <2>a, RestartTypes
  <2>4. phase' = "read" =>
          /\ timers' = 1
          /\ alarm' = "ping" <=> state' \in Live
          /\ inFail' <=> state' = "failed"
    <3>1. (0 = 0 <=> ~FALSE) /\ (0 = 1 => alarm = "fail")
      OBVIOUS
    <3> QED
      BY <2>2, <2>a, <3>1, RestartFits
  <2>5. phase' = "read"
    BY <2>2 DEF Restart, RestartLater, RestartNow, StartFailTimer, InsertTimer
  <2>6. conns' = IF state' \in Live THEN {fd'} ELSE {}
    BY <2>2, RestartRegisters
  <2>7. HeaderAhead'
    <3>1. CASE queued'
      BY <3>1 DEF HeaderAhead
    <3>2. CASE ~queued'
      <4>1. out = <<>>
        BY <1>9, <2>1, <3>2 DEF FailAlarm, history, IInv, HeaderAhead
      <4> QED
        BY <2>2, <4>1, RestartHeads DEF HeaderAhead
    <3> QED
      BY <3>1, <3>2
  <2>8. TypeOK'
    BY <1>9, <2>3 DEF FailAlarm, IInv, TypeOK, Live, Item, Crash, history, network
  <2>9. OneTimer' /\ AlarmFits' /\ RegisteredIffLive'
    BY <2>3, <2>4, <2>5, <2>6 DEF OneTimer, AlarmFits, RegisteredIffLive, Running
  <2>10. HeaderFirst' /\ CrashNeedsFailure' /\ Unborn' /\ PolledRegistered'
    BY <1>9, <2>1, <2>3, <2>5 DEF FailAlarm, HeaderFirst, CrashNeedsFailure, Running, Crash,
       Unborn, PolledRegistered, IInv, history
  <2> QED
    BY <2>7, <2>8, <2>9, <2>10 DEF IInv
<1>10. CASE NullConnection
  BY <1>10 DEF NullConnection, IInv, TypeOK, OneTimer, AlarmFits, RegisteredIffLive, HeaderFirst,
        CrashNeedsFailure, Unborn, PolledRegistered, HeaderAhead,
        Running, Crash, Live, Event, conn, clock, loop, history, network
<1>11. CASE NothingToRead
  BY <1>11 DEF NothingToRead, IInv, TypeOK, OneTimer, AlarmFits, RegisteredIffLive, HeaderFirst,
        CrashNeedsFailure, Unborn, PolledRegistered, HeaderAhead,
        Running, Crash, Live, Event, conn, clock, loop, history, network
<1>12. CASE TryRead
  <2>1. timers' = 1 /\ phase' = "event" /\ alarm' = "ping" /\ state \in Live
    <3>1. state \in Live /\ timers = 1
      BY <1>12 DEF TryRead, Running, Crash, IInv, TypeOK, OneTimer, Unborn,
         PolledRegistered, RegisteredIffLive, Live
    <3> QED
      BY <1>12, <3>1 DEF TryRead, RearmPing, InsertTimer
  <2>2. TypeOK'
    BY <1>12, <2>1 DEF TryRead, IInv, TypeOK, conn, clock, loop, history, network
  <2> QED
    BY <1>12, <2>1, <2>2 DEF TryRead, IInv, OneTimer, AlarmFits, RegisteredIffLive, HeaderFirst,
       CrashNeedsFailure, Unborn, PolledRegistered, HeaderAhead,
       Running, Crash, Live, conn, clock, loop, history, network
<1>13. CASE TryReadFails
  <2>1. phase \in {"timers", "read", "event"} /\ state # "none" /\ timers \in 0..1
    BY <1>13 DEF TryReadFails, IInv, TypeOK, OneTimer, Unborn, Running, Crash
  <2> QED
    BY <1>13, <2>1, FailKeepsIInv DEF TryReadFails
<1>14. CASE HandleHup
  <2>1. phase \in {"timers", "read", "event"} /\ state # "none" /\ timers \in 0..1
    BY <1>14 DEF HandleHup, IInv, TypeOK, OneTimer, Unborn, Running, Crash
  <2> QED
    BY <1>14, <2>1, FailKeepsIInv DEF HandleHup
<1>15. CASE HandleOut
  <2>1. PICK k \in 0..Len(out) :
          /\ out' = SubSeq(out, k + 1, Len(out))
          /\ stream' = IF k > 0 /\ stream = "nothing" THEN Head(out) ELSE stream
    BY <1>15 DEF HandleOut
  <2>2. out \in Seq(Item) /\ Len(out) \in Nat
    BY LenProperties DEF IInv, TypeOK, Item
  <2>3. out' \in Seq(Item)
    BY <2>1, <2>2, WrittenIsBuffer
  <2>4. k > 0 => out # <<>> /\ Head(out) \in Item
    BY <2>1, <2>2, HeadTailProperties, EmptySeq
  <2>5. k = 0 => out' = out
    BY <2>1, <2>2, SubSeqFull
  <2>6. stream' \in {"nothing", "hdr", "msg"} /\ (stream' = "nothing" => k = 0)
    BY <2>1, <2>2, <2>4 DEF IInv, TypeOK, Item
  <2>7. /\ phase' = "build" /\ state' \in Live \cup {"none", "failed"}
        /\ state' = "none" => state = "none"
        /\ state' \in Live <=> state \in Live
        /\ state' = "failed" <=> state = "failed"
        /\ silence' \in {"short", "long", "timeout"}
        /\ revents # {} /\ Running
    BY <1>15 DEF HandleOut, Writable, Readied, IInv, TypeOK, Live, Running, Crash
  <2>8. TypeOK'
    BY <1>15, <2>3, <2>6, <2>7 DEF HandleOut, IInv, TypeOK, Item, history, network
  <2>9. OneTimer' /\ AlarmFits' /\ RegisteredIffLive' /\ CrashNeedsFailure' /\ Unborn'
        /\ PolledRegistered'
    BY <1>15, <2>7 DEF HandleOut, IInv, OneTimer, AlarmFits, RegisteredIffLive, Unborn,
       CrashNeedsFailure, PolledRegistered, Running, Crash, history
  <2>10. HeaderFirst' /\ HeaderAhead'
    <3>1. CASE queued
      BY <1>15, <3>1 DEF HandleOut, HeaderFirst, HeaderAhead, history
    <3>2. CASE ~queued /\ state \in Live
      BY <1>15, <2>1, <2>4, <2>5, <2>6, <2>7, <3>2
         DEF HandleOut, HeaderFirst, HeaderAhead, IInv, history, Live
    <3>3. CASE ~queued /\ state = "failed"
      BY <1>15, <2>1, <2>4, <2>5, <2>6, <2>7, <3>3
         DEF HandleOut, HeaderFirst, HeaderAhead, IInv, history, Live
    <3> QED
      BY <2>7, <3>1, <3>2, <3>3 DEF IInv, TypeOK, Unborn
  <2> QED
    BY <2>8, <2>9, <2>10 DEF IInv
<1>16. CASE TryWriteFails
  <2>1. phase \in {"timers", "read", "event"} /\ state # "none" /\ timers \in 0..1 /\ (Readied \in Live <=> state \in Live)
    BY <1>16 DEF TryWriteFails, Writable, Readied, IInv, TypeOK, OneTimer, Unborn,
       Running, Crash, Live
  <2> QED
    BY <1>16, <2>1, FailKeepsIInv DEF TryWriteFails
<1>17. CASE NothingElse
  BY <1>17 DEF NothingElse, IInv, TypeOK, OneTimer, AlarmFits, RegisteredIffLive, HeaderFirst,
        CrashNeedsFailure, Unborn, PolledRegistered, HeaderAhead,
        Running, Crash, Live, Event, conn, clock, loop, history, network
<1>18. CASE Tick
  <2>1. silence' \in {"short", "long", "timeout"}
    BY <1>18 DEF Tick, IInv, TypeOK, OneTimer, Unborn
  <2>2. TypeOK'
    BY <1>18, <2>1 DEF Tick, IInv, TypeOK, conn, clock, loop, history, network
  <2> QED
    BY <1>18, <2>1, <2>2 DEF Tick, IInv, OneTimer, AlarmFits, RegisteredIffLive, HeaderFirst,
       CrashNeedsFailure, Unborn, PolledRegistered, HeaderAhead,
       Running, Crash, Live, conn, clock, loop, history, network
<1>19. CASE Suspend
  <2>1. outages' \in 0..MaxOutages
    BY <1>19 DEF Suspend, IInv, TypeOK, OneTimer, Unborn
  <2>2. TypeOK'
    BY <1>19, <2>1 DEF Suspend, IInv, TypeOK, conn, clock, loop, history, network
  <2> QED
    BY <1>19, <2>1, <2>2 DEF Suspend, IInv, OneTimer, AlarmFits, RegisteredIffLive, HeaderFirst,
       CrashNeedsFailure, Unborn, PolledRegistered, HeaderAhead,
       Running, Crash, Live, conn, clock, loop, history, network
<1>20. CASE SocketConnects
  BY <1>20 DEF SocketConnects, IInv, TypeOK, OneTimer, AlarmFits, RegisteredIffLive, HeaderFirst,
        CrashNeedsFailure, Unborn, PolledRegistered, HeaderAhead,
        Running, Crash, Live, Event, conn, clock, loop, history, network
<1>21. CASE SocketDies
  BY <1>21 DEF SocketDies, IInv, TypeOK, OneTimer, AlarmFits, RegisteredIffLive, HeaderFirst,
        CrashNeedsFailure, Unborn, PolledRegistered, HeaderAhead,
        Running, Crash, Live, Event, conn, clock, loop, history, network
<1>22. CASE NetworkGoes
  <2>1. outages' \in 0..MaxOutages
    BY <1>22 DEF NetworkGoes, IInv, TypeOK, OneTimer, Unborn
  <2>2. TypeOK'
    <3>1. netUp' \in BOOLEAN
      BY <1>22 DEF NetworkGoes
    <3> QED
      BY <1>22, <2>1, <3>1 DEF NetworkGoes, IInv, TypeOK, conn, clock, loop, history
  <2> QED
    BY <1>22, <2>1, <2>2 DEF NetworkGoes, IInv, OneTimer, AlarmFits, RegisteredIffLive, HeaderFirst,
       CrashNeedsFailure, Unborn, PolledRegistered, HeaderAhead,
       Running, Crash, Live, conn, clock, loop, history, network
<1>23. CASE NetworkComes
  BY <1>23 DEF NetworkComes, IInv, TypeOK, OneTimer, AlarmFits, RegisteredIffLive, HeaderFirst,
        CrashNeedsFailure, Unborn, PolledRegistered, HeaderAhead,
        Running, Crash, Live, Event, conn, clock, loop, history, network
<1>24. CASE UNCHANGED vars
  BY <1>24 DEF vars, conn, clock, loop, history, network, IInv, TypeOK,
        OneTimer, AlarmFits, RegisteredIffLive, HeaderFirst,
        CrashNeedsFailure, Unborn, PolledRegistered, HeaderAhead, Running
<1> QED
  BY <1>1, <1>2, <1>3, <1>4, <1>5, <1>6, <1>7, <1>8, <1>9, <1>10, <1>11, <1>12, <1>13, <1>14, <1>15, <1>16, <1>17, <1>18, <1>19, <1>20, <1>21, <1>22, <1>23, <1>24
     DEF Next, WorkTimer, PollResults, Environment

(* The invariant holds in every reachable state.                           *)
LEMMA IInvAlways == Spec => []IInv
BY InitIInv, StepKeepsIInv, PTL DEF Spec

(* Types, for every set of descriptors and all bounds (struct connection). *)
THEOREM TypeCorrect == Spec => []TypeOK
BY IInvAlways, PTL DEF IInv

(* The one event of a connection is in the timer tree exactly once, in     *)
(* every interleaving of failures, alarms and reads.                       *)
THEOREM AlwaysOneTimer == Spec => []OneTimer
BY IInvAlways, PTL DEF IInv

(* ping_alarm is armed exactly for a live connection, fail_alarm and       *)
(* in_fail_timer exactly for a failed one.                                 *)
THEOREM AlarmAlwaysFits == Spec => []AlarmFits
BY IInvAlways, PTL DEF IInv

(* Connections[] has the connection at its descriptor exactly while it is  *)
(* live.                                                                   *)
THEOREM RegisteredExactly == Spec => []RegisteredIffLive
BY IInvAlways, PTL DEF IInv

(* The header byte is the first thing on every socket, unless something    *)
(* was queued while the connection was down.                               *)
THEOREM HeaderComesFirst == Spec => []HeaderFirst
BY IInvAlways, PTL DEF IInv

(* Without a failure in the same iteration of net_loop no null connection  *)
(* is used and no timer misused.                                           *)
THEOREM OnlyFailuresCrash == Spec => []CrashNeedsFailure
BY IInvAlways, PTL DEF IInv

\* The socket, the timer, the flags, the registration and the buffer of a
\* connection are in step in every reachable state.
THEOREM ConnectionStaysRight == Spec => []ConnectionRight
  <1>1. IInv => ConnectionRight
    BY DEF IInv, ConnectionRight
  <1>2. QED
    BY <1>1, IInvAlways, PTL

=============================================================================
