------------------------------ MODULE Updates ------------------------------
(***************************************************************************)
(* The state of updates: pts, qts, seq and last_date (mtproto-client.c),   *)
(* the questions for the state and for the difference (queries.c) and the  *)
(* state file or, with the event log, the events of the four counters      *)
(* (loop.c, binlog.c).                                                     *)
(*                                                                         *)
(* The server's history is a sequence of updates, log.  An update is known *)
(* by its place in it.  A plain one raises pts, one of a secret chat qts.  *)
(* What the update does to messages, chats and users is the business of    *)
(* the modules MessageStore, SecretChat and Participants; here it is       *)
(* handled once it reached the user (print_message) or the event log.      *)
(*                                                                         *)
(* The server and the network are external.  A connection delivers in      *)
(* order; a lost one loses what is in flight, after which an answer and    *)
(* any update may come again; the server may tell that it has too many     *)
(* updates to send.  Each query is answered (RpcQueries).                  *)
(***************************************************************************)
EXTENDS Integers, Sequences, FiniteSets

CONSTANTS
  MaxUpdates,  \* bound: updates of the server
  MaxLosses,   \* bound: lost connections
  MaxKills,    \* bound: crashes of the client
  MaxAhead     \* bound: messages in flight to the client

UpdatesAssumption ==
  {MaxUpdates, MaxLosses, MaxKills, MaxAhead} \subseteq Nat

\* How an update travels: updateShort, updateShortMessage, updates with one
\* update of a secret chat, the answer to a request of our own.
Form == {"short", "text", "secret", "own"}
Counter(form) == IF form = "secret" THEN "qts" ELSE "pts"
Counters == [pts : Nat, qts : Nat, seq : Nat, date : Nat]
Zero == [pts |-> 0, qts |-> 0, seq |-> 0, date |-> 0]

VARIABLES
  log,       \* server: the forms of the updates so far
  sent,      \* server: the updates it sent at least once
  again,     \* server: those it may send once more after a lost connection
  wire,      \* in flight to the client, in order
  asked,     \* queries get_state and get_difference, with the server's answer
  mem,       \* pts, qts, seq and last_date
  disk,      \* the state file, or what replaying the event log gives
  written,   \* wpts, wqts, wseq and wdate
  phase,     \* "starting" until read_state_file was called
  useLog,    \* binlog_enabled, which never changes
  handled,   \* history: updates that reached the user or the event log
  skipped,   \* history: updates jumped over: a hole, a state taken without
             \* its difference, a crash between write_state_file and showing
  due,       \* history: updates there were when a difference was asked for
  torn,      \* history: a hole was seen
  losses, kills

server == <<log, sent, again>>
memory == <<mem, phase>>
saved  == <<disk, written, useLog>>
past   == <<handled, skipped, due, torn>>
spent  == <<losses, kills>>
vars   == <<server, wire, asked, memory, saved, past, spent>>

-----------------------------------------------------------------------------
(* The server's history *)

UpTo(n) == 1..n
Count(n, forms) == Cardinality({i \in UpTo(n) : log[i] \in forms})
StateAt(n) == [pts  |-> 1 + Count(n, {"short", "text", "own"}),
               qts  |-> 1 + Count(n, {"secret"}),
               seq  |-> 1 + Count(n, {"text", "secret", "own"}),
               date |-> 1 + n]
Value(i) == StateAt(i)[Counter(log[i])]

\* The updates that a state says are behind it.
Covered(s) == {i \in DOMAIN log : Value(i) <= s[Counter(log[i])]}

Push(i)     == [is |-> "push", n |-> i]
Response(i) == [is |-> "answer", n |-> i]
TooLong     == [is |-> "too_long", n |-> 0]
Unanswered  == [is |-> "none", upTo |-> 0]
AnswerKind  == {"none", "state", "empty", "slice", "difference"}
Query == [id : Nat, full : BOOLEAN, from : Counters,
          answer : [is : AnswerKind, upTo : Nat]]

TypeOK ==
  /\ log \in Seq(Form) /\ sent \subseteq DOMAIN log /\ again \subseteq sent
  /\ \A k \in DOMAIN wire : wire[k].is \in {"push", "answer", "too_long"}
  /\ asked \subseteq Query
  /\ mem \in Counters /\ disk \in Counters /\ written \in Counters
  /\ phase \in {"starting", "running"} /\ useLog \in BOOLEAN
  /\ handled \subseteq DOMAIN log /\ skipped \subseteq DOMAIN log
  /\ due \subseteq DOMAIN log
  /\ torn \in BOOLEAN /\ losses \in 0..MaxLosses /\ kills \in 0..MaxKills

\* A new installation, or one that saved its state when there was nothing yet.
Init ==
  /\ log = <<>> /\ sent = {} /\ again = {} /\ wire = <<>> /\ asked = {}
  /\ disk \in {Zero, StateAt(0)} /\ useLog \in BOOLEAN
  /\ mem = IF useLog THEN disk ELSE Zero
  /\ written = Zero /\ phase = "starting"
  /\ handled = {} /\ skipped = {} /\ due = {} /\ torn = FALSE
  /\ losses = 0 /\ kills = 0

-----------------------------------------------------------------------------
(* The counters *)

\* fetch_pts, fetch_qts and fetch_date: a greater value is taken, hole or not.
Raised(s, c, p) == IF p > s[c] THEN [s EXCEPT ![c] = p] ELSE s
Hole(s, c, p) == p > s[c] + 1

\* fetch_seq: only the next one is taken, a hole is logged.
FetchSeq(s, x) == IF x = s.seq + 1 THEN [s EXCEPT !.seq = x] ELSE s

\* write_state_file does nothing while no counter is above what it wrote last.
Grown(s) == ~useLog /\ \E c \in DOMAIN s : s[c] > written[c]
WriteStateFile(s) ==
  /\ disk' = IF Grown(s) THEN s ELSE disk
  /\ written' = IF Grown(s) THEN s ELSE written
  /\ UNCHANGED useLog

\* bl_do_set_pts and its like: the event log follows what they set.
Logged(s) == /\ disk' = IF useLog THEN s ELSE disk
             /\ UNCHANGED <<written, useLog>>

-----------------------------------------------------------------------------
(* Updates *)

\* The counters after update i.  updateShort: work_update and the date;
\* updateShortMessage: fetch_message_short and the date; updates: seq and date
\* are set to what the server says; an answer: fetch_date, fetch_pts, fetch_seq.
After(s, i) ==
  LET at == StateAt(i)
      up == Raised(s, Counter(log[i]), Value(i))
  IN CASE log[i] = "short"          -> Raised(up, "date", at.date)
       [] log[i] \in {"text", "own"} -> Raised(FetchSeq(up, at.seq), "date", at.date)
       [] log[i] = "secret"         -> [up EXCEPT !.seq = at.seq, !.date = at.date]

\* work_update_short_message sets last_date without an event.
EventsOf(s, i) == IF log[i] = "text" THEN [s EXCEPT !.date = disk.date] ELSE s

HandleUpdate(i) ==
  /\ mem' = After(mem, i)
  /\ Logged(EventsOf(mem', i))
  /\ handled' = handled \cup {i}
  /\ LET hole == Hole(mem, Counter(log[i]), Value(i))
     IN /\ torn' = (torn \/ hole)
        /\ skipped' = IF hole
                      THEN skipped \cup (Covered(mem') \ (Covered(mem) \cup handled'))
                      ELSE skipped
  /\ UNCHANGED <<phase, asked, due>>

-----------------------------------------------------------------------------
(* The difference *)

Fresh == CHOOSE k \in 1..(Cardinality(asked) + 1) : \A q \in asked : q.id # k

\* Slip: do_get_difference starts from the beginning every time.
NotZero_Always(s) == [s EXCEPT !.pts = 1, !.qts = 1]

\* do_get_difference: without seq it asks for the state only.  s is what is in
\* memory, others the queries there are.
NotZero(s) ==
  [s EXCEPT !.pts = IF @ = 0 THEN 1 ELSE @, !.qts = IF @ = 0 THEN 1 ELSE @,
            !.date = IF @ = 0 THEN 1 ELSE @]
DoGetDifference(s, others) ==
  /\ mem' = IF s.seq > 0 THEN NotZero(s) ELSE s
  /\ asked' = others \cup {[id |-> Fresh, full |-> s.seq > 0, from |-> mem',
                            answer |-> Unanswered]}
  /\ due' = IF s.seq > 0 THEN due \cup DOMAIN log ELSE due

\* work_updates_to_long
WorkUpdatesTooLong ==
  /\ DoGetDifference(mem, asked)
  /\ UNCHANGED <<phase, saved, handled, skipped, torn>>

\* The updates in an answer of the server: those after the state asked for.
Items(q) == {i \in UpTo(q.answer.upTo) : Value(i) > q.from[Counter(log[i])]}

\* The state that comes with them, never behind the one asked for.
StateOf(q) ==
  LET at == StateAt(q.answer.upTo)
  IN [at EXCEPT !.pts = IF q.from.pts > @ THEN q.from.pts ELSE @,
                !.qts = IF q.from.qts > @ THEN q.from.qts ELSE @]

GetStateOnAnswer(q) ==
  /\ mem' = StateAt(q.answer.upTo)
  /\ IF useLog THEN Logged(mem') ELSE WriteStateFile(mem')
  /\ skipped' = skipped \cup (Covered(mem') \ (Covered(mem) \cup handled))
  /\ asked' = asked \ {q}
  /\ UNCHANGED <<phase, handled, due, torn>>

GetDifferenceEmpty(q) ==
  /\ mem' = LET at == StateAt(q.answer.upTo)
            IN [mem EXCEPT !.seq = at.seq, !.date = at.date]
  /\ Logged(mem')
  /\ asked' = asked \ {q}
  /\ UNCHANGED <<phase, handled, skipped, due, torn>>

\* Slip: the messages of secret chats in a difference are not kept.
GetDifferenceOnAnswer_PlainOnly(q) ==
  LET at == StateOf(q)
  IN /\ IF useLog THEN Logged(at) ELSE WriteStateFile(at)
     /\ handled' = handled \cup {i \in Items(q) : log[i] # "secret"}
     /\ IF q.answer.is = "slice"
        THEN DoGetDifference(at, asked \ {q})
        ELSE mem' = at /\ asked' = asked \ {q} /\ UNCHANGED due
     /\ UNCHANGED <<phase, skipped, torn>>

\* Slip: a slice is taken for the whole difference.
GetDifferenceOnAnswer_LastSlice(q) ==
  LET at == StateOf(q)
  IN /\ IF useLog THEN Logged(at) ELSE WriteStateFile(at)
     /\ handled' = handled \cup Items(q)
     /\ mem' = at /\ asked' = asked \ {q} /\ UNCHANGED due
     /\ UNCHANGED <<phase, skipped, torn>>

\* The counters are set, the state file is written, the messages are shown, and
\* after a slice the rest is asked for.
GetDifferenceOnAnswer(q) ==
  LET at == StateOf(q)
  IN /\ IF useLog THEN Logged(at) ELSE WriteStateFile(at)
     /\ handled' = handled \cup Items(q)
     /\ IF q.answer.is = "slice"
        THEN DoGetDifference(at, asked \ {q})
        ELSE mem' = at /\ asked' = asked \ {q} /\ UNCHANGED due
     /\ UNCHANGED <<phase, skipped, torn>>

WorkAnswer(q) ==
  \/ q.answer.is = "state" /\ GetStateOnAnswer(q)
  \/ q.answer.is = "empty" /\ GetDifferenceEmpty(q)
  \/ q.answer.is \in {"slice", "difference"} /\ GetDifferenceOnAnswer(q)

-----------------------------------------------------------------------------
(* Steps of the client *)

Received == wire' = Tail(wire) /\ UNCHANGED <<server, spent>>

\* rpc_execute_answer
ReceiveUpdate ==
  /\ wire # <<>> /\ Head(wire).is = "push"
  /\ HandleUpdate(Head(wire).n) /\ Received

ReceiveTooLong ==
  /\ wire # <<>> /\ Head(wire).is = "too_long"
  /\ WorkUpdatesTooLong /\ Received

ReceiveAnswer ==
  /\ wire # <<>> /\ Head(wire).is = "answer"
  /\ \E q \in asked : q.id = Head(wire).n /\ WorkAnswer(q)
  /\ Received

\* The head of each iteration of net_loop.
SaveState ==
  /\ Grown(mem) /\ WriteStateFile(mem)
  /\ UNCHANGED <<server, wire, asked, memory, past, spent>>

\* read_state_file, called by connect_to_server after the loops that fetched the
\* configuration and signed in, which may have handled updates already.
ReadStateFile ==
  /\ phase = "starting" /\ phase' = "running"
  /\ mem' = IF useLog \/ disk = Zero THEN mem ELSE disk
  /\ UNCHANGED <<server, wire, asked, saved, past, spent>>

\* A process that starts again knows nothing but the file or the log.
Restarted ==
  /\ kills < MaxKills /\ kills' = kills + 1
  /\ mem' = IF useLog THEN disk' ELSE Zero
  /\ written' = Zero /\ phase' = "starting"
  /\ wire' = <<>> /\ asked' = {} /\ due' = {}
  /\ UNCHANGED <<server, useLog, handled, torn, losses>>

Restart == UNCHANGED <<disk, skipped>> /\ Restarted

\* A crash in get_difference_on_answer, after write_state_file and before the
\* messages are shown.
CrashInDifference ==
  /\ wire # <<>> /\ Head(wire).is = "answer" /\ ~useLog
  /\ \E q \in asked :
       /\ q.id = Head(wire).n /\ q.answer.is \in {"slice", "difference"}
       /\ disk' = IF Grown(StateOf(q)) THEN StateOf(q) ELSE disk
       /\ skipped' = skipped \cup (Items(q) \ handled)
  /\ Restarted

-----------------------------------------------------------------------------
(* The server and the network *)

Room == Len(wire) < MaxAhead
InFlight(m) == \E k \in DOMAIN wire : wire[k] = m

\* Something happens, and the client is told or not.
ServerIssues(form) ==
  /\ Len(log) < MaxUpdates /\ Room
  /\ log' = Append(log, form)
  /\ \/ wire' = Append(wire, Push(Len(log'))) /\ sent' = sent \cup {Len(log')}
     \/ form # "own" /\ UNCHANGED <<wire, sent>>
  /\ UNCHANGED <<again, asked, memory, saved, past, spent>>

\* After a lost connection an update may be sent again.
ServerRepeats(i) ==
  /\ Room /\ ~InFlight(Push(i))
  /\ again' = again \ {i}
  /\ wire' = Append(wire, Push(i))
  /\ UNCHANGED <<log, sent, asked, memory, saved, past, spent>>

ServerTooLong ==
  /\ Room /\ ~InFlight(TooLong) /\ asked = {}
  /\ DOMAIN log \ sent # {} \/ losses > 0
  /\ wire' = Append(wire, TooLong)
  /\ UNCHANGED <<server, asked, memory, saved, past, spent>>

\* The answers the server may give to q.
Answers(q) ==
  IF ~q.full THEN {[is |-> "state", upTo |-> Len(log)]}
  ELSE LET new(n) == {i \in UpTo(n) : Value(i) > q.from[Counter(log[i])]}
           whole  == [is |-> IF new(Len(log)) = {} THEN "empty" ELSE "difference",
                      upTo |-> Len(log)]
       IN {whole} \cup {[is |-> "slice", upTo |-> n] :
                          n \in {k \in UpTo(Len(log) - 1) : new(k) # {}}}

ServerAnswers ==
  \E q \in asked :
    /\ ~InFlight(Response(q.id))
    /\ IF q.answer = Unanswered
       THEN \E a \in Answers(q) : asked' = (asked \ {q}) \cup {[q EXCEPT !.answer = a]}
       ELSE UNCHANGED asked
    /\ wire' = Append(wire, Response(q.id))
    /\ UNCHANGED <<server, memory, saved, past, spent>>

LoseConnection ==
  /\ losses < MaxLosses /\ losses' = losses + 1
  /\ wire # <<>> /\ wire' = <<>> /\ again' = sent
  /\ UNCHANGED <<log, sent, asked, memory, saved, past, kills>>

-----------------------------------------------------------------------------

Client == \/ ReceiveUpdate \/ ReceiveTooLong \/ ReceiveAnswer \/ SaveState
          \/ ReadStateFile \/ Restart \/ CrashInDifference
World == \/ \E form \in Form : ServerIssues(form)
         \/ \E i \in again : ServerRepeats(i)
         \/ ServerTooLong \/ ServerAnswers \/ LoseConnection
Next == Client \/ World

Spec == Init /\ [][Next]_vars

\* net_loop reads the socket; the server answers each query.
Receive == ReceiveUpdate \/ ReceiveTooLong \/ ReceiveAnswer
Fairness == WF_vars(Receive) /\ WF_vars(ServerAnswers)
FairSpec == Spec /\ Fairness

-----------------------------------------------------------------------------
(* Properties *)

\* What the counters in memory and on disk say is behind us reached the user or
\* the event log, or was jumped over for one of the three reasons of skipped:
\* no lost connection, repeated update, slice or restart loses anything else.
NothingMissed == Covered(mem) \cup Covered(disk) \subseteq handled \cup skipped

\* While the client runs, pts and qts go back only with a slice, whose state may
\* be older than updates that came meanwhile: every other answer sets them to what
\* they were when the server answered (get_difference_on_answer), and answers and
\* updates come in order as long as no connection was lost.
SliceArrives == \E q \in asked : q.answer.is = "slice" /\ wire # <<>>
                                /\ Head(wire) = Response(q.id)
NeverBack ==
  [][(phase = "running" /\ phase' = "running" /\ losses = 0 /\ ~SliceArrives)
       => mem'.pts >= mem.pts /\ mem'.qts >= mem.qts]_vars

\* After updatesTooLong (do_get_difference with a seq) every update there was is
\* handled in the end, slice after slice, unless it is jumped over or the
\* process restarts.
CatchesUp ==
  \A i \in 1..MaxUpdates : i \in due ~> (i \in handled \cup skipped \/ i \notin due)

-----------------------------------------------------------------------------
(* The inductive invariant *)

\* What a state says is behind it is accounted for, and the server has it.
Accounted(s) == Covered(s) \subseteq handled \cup skipped
NotAhead(s) ==
  s.pts <= StateAt(Len(log)).pts /\ s.qts <= StateAt(Len(log)).qts

Parcel == [is : {"push"}, n : DOMAIN log] \cup [is : {"answer", "too_long"}, n : Nat]

\* A query asks from where the client was, and is answered from what there is.
QueriesFit ==
  /\ IsFiniteSet(asked)
  /\ \A q \in asked : /\ Accounted(q.from) /\ NotAhead(q.from)
                      /\ q.answer.upTo \in 0..Len(log)

\* The pts and qts of s are not above those there were after n updates.
Within(s, n) == s.pts <= StateAt(n).pts /\ s.qts <= StateAt(n).qts

OnWire == {k \in DOMAIN wire : wire[k].is = "answer"}
Whole == {"state", "difference"}

\* A query is answered just if its one answer is in flight.
AnsweredOnce ==
  /\ \A q, r \in asked : q.id = r.id => q = r
  /\ \A k \in OnWire : \E q \in asked : wire[k] = Response(q.id) /\ q.answer # Unanswered
  /\ \A j, k \in OnWire : wire[j] = wire[k] => j = k
  /\ \A q \in asked : q.answer # Unanswered => InFlight(Response(q.id))

\* An answer that is no slice tells of all that is known and of all that comes
\* before it.
AnsweredLast ==
  \A q \in asked : q.answer.is \in Whole =>
    /\ Within(mem, q.answer.upTo) /\ Within(disk, q.answer.upTo)
    /\ \A r \in asked : Within(r.from, q.answer.upTo)
    /\ \A k \in OnWire : wire[k] = Response(q.id) =>
         \A j \in 1..k - 1 :
           /\ wire[j].is = "push" => wire[j].n <= q.answer.upTo
           /\ \A r \in asked : wire[j] = Response(r.id) => r.answer.upTo <= q.answer.upTo

\* While no connection is lost, what is in flight comes in order: inductive
\* together with IInv.
InOrder == losses = 0 => AnsweredOnce /\ AnsweredLast

\* Inductive: each action keeps it.
IInv ==
  /\ TypeOK /\ wire \in Seq(Parcel) /\ QueriesFit
  /\ Accounted(mem) /\ NotAhead(mem) /\ Accounted(disk) /\ NotAhead(disk)
=============================================================================
