------------------------------- MODULE SignIn -------------------------------
(***************************************************************************)
(* From the start of the process to the main loop: loop, start_registering *)
(* and connect_to_server (loop.c) with their queries (queries.c), and the  *)
(* questions that the core's thread asks the user through waitAndGet       *)
(* (telegramcore.cpp, telegram.cpp).                                       *)
(*                                                                         *)
(* Three parties: the core, which waits for one query or one question at a *)
(* time; the main thread, which runs a queue of events and shows the page  *)
(* of the question; the server, where an account lives in one data centre  *)
(* and another one refuses its phone number with the number of the right   *)
(* one.  What is known of the data centres is kept in the auth file, or in *)
(* the event log.  The key exchange is one step here (see Handshake).      *)
(***************************************************************************)
EXTENDS Integers, Sequences, FiniteSets

CONSTANTS
  DCs,         \* data centres, by their numbers; 1 is the one to begin with
  MaxCalls,    \* bound: phone calls the user asks for
  MaxCrashes   \* bound: ends of the process, of which it is started again

SignInAssumption ==
  /\ 1 \in DCs /\ DCs \subseteq Nat \ {0} /\ IsFiniteSet(DCs)
  /\ MaxCalls \in Nat /\ MaxCrashes \in Nat

Question == {"phone", "code", "details"}
Queries == {"config", "check", "nearest", "send_code", "send_code_again", "sign"}

VARIABLES
  pc,         \* what the core waits for, or "main", "stopped"
  known,      \* DC_list
  keys,       \* those with an auth key
  auth,       \* those with has_auth
  working,    \* dc_working_num
  fresh,      \* auth_state = 100
  saved,      \* the auth file, or what replaying the event log gives
  keepsLog,   \* binlog_enabled, which never changes
  register,   \* register_mode, which never changes
  mode,       \* sign "in" or "up"
  asking,     \* waitAndGet: "no", "asked" before the wait, "waiting", "woken"
  reply,      \* wait_and_get_callback_result
  queue,      \* events of the main thread
  page,       \* the page shown: a question, "checking" or "none"
  calling,    \* a phone call was asked for and is not answered
  place,      \* server: the data centre of the phone number
  registered, \* server: the number has an account
  home,       \* history: the data centre that was signed in to, or 0
  missed,     \* history: an answer came while the core did not wait for it
  unsaved,    \* history: the working data centre is not the one in the log
  refused,    \* history: the server refused a query
  arrived,    \* history: the main loop was reached
  calls, crashes

core == <<pc, known, keys, auth, working, fresh, mode>>
config == <<saved, keepsLog, register>>
asked == <<asking, reply, queue, page>>
server == <<place, registered>>
story == <<home, missed, unsaved, refused, arrived>>
counts == <<calling, calls, crashes>>
signin_vars == <<core, config, asked, server, story, counts>>

Memory == [working |-> working, known |-> known, keys |-> keys, auth |-> auth,
           fresh |-> fresh]
Nothing == [working |-> 1, known |-> {1}, keys |-> {}, auth |-> {}, fresh |-> FALSE]

\* One type invariant: what is signed in to has a key, what has a key is known.
TypeOK ==
  /\ pc \in Queries \cup Question \cup {"exchange", "keys", "import", "main", "stopped"}
  /\ auth \subseteq keys /\ keys \subseteq known /\ known \subseteq DCs
  /\ working \in known /\ saved.working \in saved.known
  /\ asking \in {"no", "asked", "waiting", "woken"}
  /\ (asking # "no") = (pc \in Question)
  /\ page \in Question \cup {"checking", "none"} /\ home \in DCs \cup {0}
  /\ calls \in 0..MaxCalls /\ crashes \in 0..MaxCrashes

\* read_auth_file, empty_auth_file and replay_log of a new log; then the first
\* key exchange unless there is a key.  auth_state is not in the event log.
Load(s) ==
  /\ known' = s.known /\ keys' = s.keys /\ auth' = s.auth /\ working' = s.working
  /\ fresh' = (s.fresh /\ ~keepsLog)
  /\ pc' = IF s.working \in s.keys THEN "config" ELSE "exchange"

Init ==
  /\ known = {1} /\ keys = {} /\ auth = {} /\ working = 1 /\ fresh = FALSE
  /\ pc = "exchange" /\ saved = Nothing /\ keepsLog \in BOOLEAN
  /\ register \in BOOLEAN /\ mode = "in"
  /\ asking = "no" /\ reply = "none" /\ queue = <<>> /\ page = "none"
  /\ place \in DCs /\ registered \in BOOLEAN
  /\ home = 0 /\ missed = FALSE /\ unsaved = FALSE /\ refused = FALSE /\ arrived = FALSE
  /\ calling = FALSE /\ calls = 0 /\ crashes = 0

-----------------------------------------------------------------------------
(* What is kept *)

\* write_auth_file, of the state m; without effect when there is an event log.
WriteAuthFile(m) == saved' = IF keepsLog THEN saved ELSE m

\* The events of data centres change the memory, and the log if there is one.
LogDcOptions == saved' = IF keepsLog THEN [saved EXCEPT !.known = DCs] ELSE saved
LogKeys(ks) == IF keepsLog THEN [saved EXCEPT !.keys = @ \cup ks] ELSE saved
LogSigned(d) == IF keepsLog THEN [saved EXCEPT !.auth = @ \cup {d}] ELSE saved

\* Slip: the working data centre is not written to the event log.
LogWorking_Not(d) == saved

LogWorking(d) == IF keepsLog THEN [saved EXCEPT !.working = d] ELSE saved

-----------------------------------------------------------------------------
(* Questions: waitAndGet *)

\* The type is noted and the signal emitted, before the mutex is locked.
WaitAndGet(type) ==
  /\ pc' = type /\ asking' = "asked" /\ reply' = "none"
  /\ queue' = Append(queue, [is |-> "ask", type |-> type, value |-> "none"])
  /\ UNCHANGED page

NoQuestion == UNCHANGED asked

\* wait_and_get_wcond.wait.
Wait ==
  /\ asking = "asked" /\ asking' = "waiting"
  /\ UNCHANGED <<core, config, reply, queue, page, server, story, counts>>

\* The user fills in the page, which is replaced by that of checking
\* (waitAndGetCallback); the answer is queued for the core's object, which
\* lives in the main thread.
UserAnswers == \E value \in {"right", "wrong", "call"} :
  /\ page \in Question /\ page' = "checking"
  /\ value # "right" => page = "code"
  /\ IF value = "call" THEN calls < MaxCalls /\ calls' = calls + 1 ELSE UNCHANGED calls
  /\ queue' = Append(queue, [is |-> "answer", type |-> page, value |-> value])
  /\ UNCHANGED <<core, config, asking, reply, server, story, calling, crashes>>

\* Slip: the answer wakes nobody.
Callback_Quiet(type, value) ==
  /\ reply' = IF pc = type THEN value ELSE reply
  /\ missed' = (missed \/ asking # "waiting")
  /\ UNCHANGED asking

\* waitAndGet_callback, of an answer to the question that was asked last: it
\* wakes the core if that waits already, and else nobody.
Callback(type, value) ==
  /\ reply' = IF pc = type THEN value ELSE reply
  /\ asking' = IF pc = type /\ asking = "waiting" THEN "woken" ELSE asking
  /\ missed' = (missed \/ asking # "waiting")

\* The main thread runs the oldest event.
MainThread ==
  /\ queue # <<>> /\ queue' = Tail(queue)
  /\ LET e == Head(queue) IN
       \/ /\ e.is = "ask" /\ page' = e.type /\ UNCHANGED <<asking, reply, missed>>
       \/ /\ e.is = "answer" /\ Callback(e.type, e.value) /\ UNCHANGED page
  /\ UNCHANGED <<core, config, server, home, unsaved, refused, arrived, counts>>

-----------------------------------------------------------------------------
(* Start: loop *)

Fails == pc' = "stopped" /\ NoQuestion
SameDCs == UNCHANGED <<known, keys, auth, working, fresh>>
Registering == UNCHANGED <<keepsLog, register, server, counts>>

\* dc_authorize of the working data centre.
ExchangeKey ==
  /\ pc = "exchange" /\ pc' = "config"
  /\ keys' = keys \cup {working} /\ fresh' = TRUE
  /\ NoQuestion /\ Registering /\ UNCHANGED <<known, auth, working, mode, story>>
  /\ saved' = IF keepsLog THEN LogKeys({working}) ELSE Memory'

\* help_get_config_on_answer: the other data centres.
ConfigOnAnswer ==
  /\ pc = "config" /\ pc' = "keys" /\ known' = DCs /\ LogDcOptions
  /\ NoQuestion /\ Registering /\ UNCHANGED <<keys, auth, working, fresh, mode, story>>

\* dc_authorize of all the others; then registering, or not.
ExchangeKeys ==
  /\ pc = "keys" /\ keys' = known
  /\ saved' = IF keys = known THEN saved
              ELSE IF keepsLog THEN LogKeys(known)
              ELSE [Memory EXCEPT !.keys = known]
  /\ IF fresh \/ working \notin auth THEN WaitAndGet("phone")
     ELSE pc' = "import" /\ NoQuestion
  /\ Registering /\ UNCHANGED <<known, auth, working, fresh, mode, story>>

-----------------------------------------------------------------------------
(* Registering: start_registering *)

\* What the core does with an answer; the name of the question is in pc.
PhoneGiven ==
  /\ pc = "phone" /\ pc' = "check"
  /\ SameDCs /\ UNCHANGED <<mode, counts>>
DetailsGiven ==
  /\ pc = "details" /\ pc' = "nearest"
  /\ SameDCs /\ UNCHANGED <<mode, counts>>

\* A call is asked for: do_phone_call, and the question comes again.
CallWanted ==
  /\ pc = "code" /\ reply = "call" /\ calling' = TRUE
  /\ WaitAndGet("code") /\ SameDCs /\ UNCHANGED <<mode, calls, crashes>>
\* do_send_code_result, do_send_code_result_auth.
CodeGiven ==
  /\ pc = "code" /\ reply # "call" /\ pc' = "sign"
  /\ SameDCs /\ UNCHANGED <<mode, counts>>

Woken ==
  /\ asking = "woken"
  /\ \/ CallWanted
     \/ (PhoneGiven \/ DetailsGiven \/ CodeGiven)
        /\ asking' = "no" /\ UNCHANGED <<reply, queue, page>>
  /\ UNCHANGED <<config, server, story>>

\* A number is registered, or taken for it after a migration; register_mode
\* signs up all the same.
Checked(result) ==
  IF result /\ ~register
  THEN mode' = "in" /\ pc' = "send_code" /\ NoQuestion
  ELSE mode' = "up" /\ WaitAndGet("details")

\* check_phone_on_answer.
CheckPhoneOnAnswer ==
  /\ pc = "check" /\ Checked(registered)
  /\ SameDCs /\ UNCHANGED <<saved, story>> /\ Registering

\* check_phone_on_error with PHONE_MIGRATE_ or NETWORK_MIGRATE_; it asserts
\* that the data centre is known.
CheckPhoneMigrates ==
  /\ pc = "check" /\ working # place
  /\ IF place \in known
     THEN /\ working' = place /\ unsaved' = FALSE /\ Checked(TRUE)
          /\ saved' = IF keepsLog THEN LogWorking(place)
                      ELSE [Memory EXCEPT !.working = place]
     ELSE Fails /\ UNCHANGED <<working, mode, saved, unsaved>>
  /\ Registering /\ UNCHANGED <<known, keys, auth, fresh, home, missed, refused, arrived>>

\* nearest_dc_on_answer; the choice of the data centre is not logged.
NearestDcOnAnswer == \E d \in known :
  /\ pc = "nearest" /\ pc' = "send_code" /\ working' = d
  /\ unsaved' = (unsaved \/ (keepsLog /\ d # working))
  /\ NoQuestion /\ Registering
  /\ UNCHANGED <<known, keys, auth, fresh, mode, saved, home, missed, refused, arrived>>

\* send_code_on_answer.
SendCodeOnAnswer ==
  /\ pc \in {"send_code", "send_code_again"} /\ working = place
  /\ WaitAndGet("code")
  /\ SameDCs /\ UNCHANGED <<mode, saved, story>> /\ Registering

\* send_code_on_error with PHONE_MIGRATE_: asked again there, once.
SendCodeMigrates ==
  /\ pc = "send_code" /\ working # place
  /\ IF place \in known
     THEN /\ working' = place /\ unsaved' = FALSE /\ saved' = LogWorking(place)
          /\ pc' = "send_code_again" /\ NoQuestion
     ELSE Fails /\ UNCHANGED <<working, saved, unsaved>>
  /\ Registering
  /\ UNCHANGED <<known, keys, auth, fresh, mode, home, missed, refused, arrived>>

SignedIn(d) == LogSigned(d)

\* sign_in_on_answer; auth_state = 300 when start_registering ends.
SignInOnAnswer ==
  /\ pc = "sign" /\ reply = "right" /\ (mode = "in") = registered
  /\ pc' = "import" /\ registered' = TRUE /\ home' = working
  /\ auth' = auth \cup {working} /\ fresh' = FALSE /\ saved' = SignedIn(working)
  /\ NoQuestion
  /\ UNCHANGED <<known, keys, working, mode, keepsLog, register, place, missed, unsaved,
                 refused, arrived, counts>>

\* A query is refused: every on_error here is an assertion, after a wrong code
\* too, so that registeringInvalidCode is never emitted.
Refused ==
  /\ \/ pc \in Queries /\ pc' = "stopped" /\ UNCHANGED calling
     \/ /\ calling /\ calling' = FALSE    \* phone_call_on_error, in a net_loop
        /\ pc \in Queries \cup {"main"} /\ pc' = "stopped"
  /\ refused' = TRUE
  /\ SameDCs /\ NoQuestion
  /\ UNCHANGED <<mode, config, server, home, missed, unsaved, arrived, calls, crashes>>

PhoneCallOnAnswer ==
  /\ calling /\ pc \in Queries \cup {"main"} /\ calling' = FALSE
  /\ NoQuestion /\ UNCHANGED <<core, config, server, story, calls, crashes>>

-----------------------------------------------------------------------------
(* connect_to_server *)

\* do_export_auth, do_import_auth and bl_do_dc_signed for the first data centre
\* without; with the last of them the file is written and the loop entered.
ImportAuth ==
  /\ pc = "import"
  /\ LET todo == known \ auth
         d == CHOOSE x \in todo : \A y \in todo : x <= y
     IN \/ /\ todo # {} /\ auth' = auth \cup {d} /\ UNCHANGED <<pc, arrived>>
           /\ saved' = IF keepsLog THEN LogSigned(d) ELSE [Memory EXCEPT !.auth = auth']
        \/ /\ todo = {} /\ pc' = "main" /\ arrived' = TRUE
           /\ WriteAuthFile(Memory) /\ UNCHANGED auth
  /\ NoQuestion /\ Registering
  /\ UNCHANGED <<known, keys, working, fresh, mode, home, missed, unsaved, refused>>

\* The process ends, or ended by an assertion, and is started again.
Crash ==
  /\ crashes < MaxCrashes /\ crashes' = crashes + 1
  /\ Load(saved) /\ mode' = "in"
  /\ asking' = "no" /\ reply' = "none" /\ queue' = <<>> /\ page' = "none"
  /\ calling' = FALSE /\ missed' = FALSE /\ refused' = FALSE
  /\ UNCHANGED <<config, server, home, unsaved, arrived, calls>>

Answers ==
  \/ ExchangeKey \/ ConfigOnAnswer \/ ExchangeKeys \/ CheckPhoneOnAnswer
  \/ CheckPhoneMigrates \/ NearestDcOnAnswer \/ SendCodeOnAnswer \/ SendCodeMigrates
  \/ SignInOnAnswer \/ ImportAuth
Next ==
  \/ Wait \/ UserAnswers \/ MainThread \/ Woken
  \/ Answers \/ PhoneCallOnAnswer \/ Refused \/ Crash

\* Both threads run, queries are answered, and the user answers questions.
Progress == Wait \/ MainThread \/ Woken \/ Answers \/ Refused
Fairness == WF_signin_vars(Progress) /\ WF_signin_vars(UserAnswers)
Spec == Init /\ [][Next]_signin_vars
FairSpec == Spec /\ Fairness

-----------------------------------------------------------------------------
(* Properties *)

\* In the main loop the working data centre is that of the account, through
\* migrations, crashes and restarts; except that the nearest data centre,
\* where an account was made, is forgotten by a client with an event log.
HomeKept == pc = "main" => working = home \/ unsaved

\* A client that has reached its main loop never registers again.
SignedInOnce == arrived => pc \notin {"phone", "check", "details", "sign"}

\* The process ends by an assertion only when the server refused a query: a
\* migration always goes to a data centre that is known and has a key.
StopsOnlyWhenRefused ==
  /\ pc = "stopped" => refused
  /\ pc \in {"check", "send_code", "send_code_again", "sign"} => working \in keys

\* Every start comes to the main loop or to an assertion, when both threads
\* run and the user answers, unless an answer came before the core waited: it
\* then waits for ever.
SignInEnds == pc = "exchange" ~> pc \in {"main", "stopped"} \/ missed

-----------------------------------------------------------------------------
(* The inductive invariant *)

Event == [is : {"ask", "answer"}, type : Question, value : {"none", "right", "wrong", "call"}]

\* What is known of the data centres, in memory or kept.
Snapshot(s) ==
  /\ s \in [working : DCs, known : SUBSET DCs, keys : SUBSET DCs, auth : SUBSET DCs,
            fresh : BOOLEAN]
  /\ s.auth \subseteq s.keys /\ s.keys \subseteq s.known /\ s.working \in s.known
Kinds ==
  /\ Snapshot(Memory) /\ Snapshot(saved) /\ queue \in Seq(Event) /\ place \in DCs
  /\ {keepsLog, register, registered, calling, missed, unsaved, refused, arrived} \subseteq BOOLEAN

\* The event log has what the memory has, but for the nearest data centre.
LogFits == keepsLog =>
  /\ saved.known = known /\ saved.keys = keys /\ saved.auth = auth
  /\ saved.working = working \/ unsaved
  /\ home # 0 => saved.working = place \/ unsaved

\* Without it a state that is not fresh is one that was signed in, at home.
SignedInAtHome(s) == s.working \in s.auth /\ s.working = place
FileFits == ~keepsLog =>
  /\ pc # "exchange" /\ ~fresh => SignedInAtHome(Memory)
  /\ ~saved.fresh /\ saved.working \in saved.keys => SignedInAtHome(saved)

\* What has been done of the start, by what the core waits for.
InLogin == {"phone", "check", "details", "nearest", "send_code", "send_code_again",
            "code", "sign"}
Steps ==
  /\ pc \in InLogin \cup {"keys", "import", "main"} => known = DCs
  /\ pc \in InLogin \cup {"import", "main"} => keys = DCs
  /\ pc \in InLogin /\ ~keepsLog => fresh
  /\ pc \in {"code", "sign"} => working = place
  /\ pc \in {"import", "main"} => working \in auth /\ ~fresh
  /\ pc = "stopped" => refused
AtHome ==
  /\ home \in {0, place}
  /\ auth # {} \/ saved.auth # {} => home = place

\* After the main loop was reached nothing leads back to the login.
Arrived == arrived =>
  /\ pc \notin InLogin \cup {"exchange"} /\ ~fresh /\ working \in auth
  /\ saved.working \in saved.auth /\ (keepsLog \/ ~saved.fresh)

\* Inductive: each action keeps it.
IInv == TypeOK /\ Kinds /\ LogFits /\ FileFits /\ Steps /\ AtHome /\ Arrived
=============================================================================
