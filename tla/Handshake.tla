----------------------------- MODULE Handshake -----------------------------
(***************************************************************************)
(* The key exchange with the data centres and the state that all their     *)
(* connections share (mtproto-client.c): c_state, the nonces and           *)
(* auth_success.  dc_authorize exchanges a key with one data centre at a   *)
(* time, while connections of the others live on.                          *)
(*                                                                         *)
(* An exchange is known by its nonce, a number.  A key is the number of    *)
(* its exchange, and whether it was shifted: process_dh_answer puts the    *)
(* zeros of a key shorter than 256 bytes behind it instead of before.      *)
(* The clock is the estimate of the server's time, from a clock that       *)
(* stands still while the machine sleeps.                                  *)
(***************************************************************************)
EXTENDS Integers, FiniteSets

CONSTANTS
  DCs,         \* data centres
  Moduli,      \* what a server may send as the prime
  MaxNonce,    \* bound: exchanges begun
  MaxLosses,   \* bound: lost connections
  MaxSleeps,   \* bound: sleeps of the machine
  MaxStarts    \* bound: restarts of the process

HandshakeAssumption ==
  /\ DCs \subseteq Nat \ {0} /\ Moduli \subseteq Nat \ {0}
  /\ {MaxNonce, MaxLosses, MaxSleeps, MaxStarts} \subseteq Nat

NoDC == 0
NoKey == [nonce |-> 0, shifted |-> FALSE]
NoDh == [p |-> 0, g |-> 0]
NoPacket == [is |-> "nothing", nonce |-> 0]
Packet(is, n) == [is |-> is, nonce |-> n]

VARIABLES
  cState,     \* c_state
  nonce,      \* nonce, server_nonce and new_nonce
  success,    \* auth_success
  turn,       \* the data centre that dc_authorize waits for
  conn,       \* of each data centre: "none", "connecting" or "ready"
  wire,       \* of each connection: the packet in flight
  authKey,    \* DC->auth_key
  flags,      \* those with DC->flags & 1 and an auth_key_id
  clock,      \* of each: server_time_udelta, "unset", "right" or "behind"
  kept,       \* auth file, or event log: the keys
  logs,       \* binlog_enabled, which never changes
  dh,         \* the prime and generator that were accepted
  agreed,     \* server: the nonces of the keys of each data centre
  alive,      \* FALSE after a failed assertion
  why,        \* history: what has happened in this process
  losses, sleeps, started

link == <<conn, wire>>
machine == <<cState, nonce, success, dh>>
dcs == <<authKey, flags, clock>>
bounds == <<losses, sleeps, started>>
handshake_vars == <<machine, turn, link, dcs, kept, logs, agreed, alive, why, bounds>>

State == {"init", "reqpq_sent", "reqdh_sent", "client_dh_sent", "authorized"}
Reason == {"lost", "silent", "shifted", "refused", "slept"}

\* One type invariant: a data centre with a key has its number from its exchange.
TypeOK ==
  /\ cState \in State /\ nonce \in 0..MaxNonce /\ success \in BOOLEAN
  /\ turn \in DCs \cup {NoDC} /\ conn \in [DCs -> {"none", "connecting", "ready"}]
  /\ \A d \in DCs : conn[d] # "ready" => wire[d] = NoPacket
  /\ \A d \in flags : authKey[d] # NoKey
  /\ clock \in [DCs -> {"unset", "right", "behind"}] /\ why \subseteq Reason

Init ==
  /\ cState = "init" /\ nonce = 0 /\ success = FALSE /\ turn = NoDC
  /\ conn = [d \in DCs |-> "none"] /\ wire = [d \in DCs |-> NoPacket]
  /\ authKey = [d \in DCs |-> NoKey] /\ flags = {} /\ dh = NoDh
  /\ clock = [d \in DCs |-> "unset"] /\ kept = authKey /\ logs \in BOOLEAN
  /\ agreed = [d \in DCs |-> {}] /\ alive = TRUE /\ why = {}
  /\ losses = 0 /\ sleeps = 0 /\ started = 0

-----------------------------------------------------------------------------
(* check_DH_params *)

IsPrime(p) == p > 1 /\ \A k \in 2..(p - 1) : p % k # 0

\* What p is modulo 4 * g, for each g.
Residue(p, g) ==
  LET x == p % (4 * g)
  IN \/ g = 2 /\ x = 7
     \/ g = 3 /\ x % 3 = 2
     \/ g = 4
     \/ g = 5 /\ x % 5 \in {1, 4}
     \/ g = 6 /\ x \in {19, 23}
     \/ g = 7 /\ x % 7 \in {3, 5, 6}

CheckDHParams(p, g) ==
  g \in 2..7 /\ Residue(p, g) /\ IsPrime(p) /\ IsPrime(p \div 2)

-----------------------------------------------------------------------------
(* Beginning *)

\* An assertion fails.
Stops == /\ alive' = FALSE
         /\ UNCHANGED <<machine, link, dcs, kept, why>>

\* Slip: c_state is left as it is.
DcAuthorize_KeepsState(d) ==
  /\ success' = FALSE /\ turn' = d
  /\ conn' = [conn EXCEPT ![d] = IF @ = "none" THEN "connecting" ELSE @]
  /\ UNCHANGED cState

\* dc_authorize: the session is made if there is none.
DcAuthorize(d) ==
  /\ cState' = "init" /\ success' = FALSE /\ turn' = d
  /\ conn' = [conn EXCEPT ![d] = IF @ = "none" THEN "connecting" ELSE @]

\* loop: for each data centre without a key in turn.
Authorize == \E d \in DCs \ flags :
  /\ alive /\ turn = NoDC /\ nonce < MaxNonce /\ DcAuthorize(d)
  /\ UNCHANGED <<nonce, dh, wire, dcs, kept, logs, agreed, alive, why, bounds>>

\* net_loop ends when auth_success is set.
Authorized ==
  /\ alive /\ turn # NoDC /\ success /\ turn' = NoDC
  /\ UNCHANGED <<machine, link, dcs, kept, logs, agreed, alive, why, bounds>>

\* send_query: a session for a data centre with a key.
DcCreateSession == \E d \in flags :
  /\ alive /\ turn = NoDC /\ conn[d] = "none"
  /\ conn' = [conn EXCEPT ![d] = "connecting"]
  /\ UNCHANGED <<machine, turn, wire, dcs, kept, logs, agreed, alive, why, bounds>>

\* send_req_pq_packet, with a new nonce.
SendReqPq(d) ==
  /\ nonce' = nonce + 1 /\ cState' = "reqpq_sent"
  /\ wire' = [wire EXCEPT ![d] = Packet("req_pq", nonce')]
  /\ UNCHANGED <<success, dh, dcs, kept, alive, why>>

\* In rpc_execute and tc_becomes_ready.
EffectiveState(d) == IF d \in flags THEN "authorized" ELSE cState

\* tc_becomes_ready: a connection that is made again in the middle of the
\* exchange meets an assertion.
TcBecomesReady == \E d \in DCs :
  /\ alive /\ conn[d] = "connecting"
  /\ LET o == EffectiveState(d) IN
       \/ o = "init" /\ conn' = [conn EXCEPT ![d] = "ready"] /\ SendReqPq(d)
       \/ /\ o = "authorized" /\ conn' = [conn EXCEPT ![d] = "ready"]
          /\ UNCHANGED <<machine, wire, dcs, kept, alive, why>>
       \/ o \notin {"init", "authorized"} /\ Stops
  /\ UNCHANGED <<turn, logs, agreed, bounds>>

-----------------------------------------------------------------------------
(* The server *)

\* It answers the packet it has; the key is its own from then on.
ServerAnswers == \E d \in DCs :
  LET p == wire[d]
      answer == [req_pq |-> "res_pq", req_dh |-> "dh_params", client_dh |-> "gen_ok"]
  IN /\ p.is \in DOMAIN answer
     /\ wire' = [wire EXCEPT ![d] = Packet(answer[p.is], p.nonce)]
     /\ agreed' = [agreed EXCEPT ![d] = IF p.is = "client_dh" THEN @ \cup {p.nonce} ELSE @]
     /\ UNCHANGED <<machine, turn, conn, dcs, kept, logs, alive, why, bounds>>

\* Or not with what the client expects: an error, parameters of another kind.
ServerRefuses == \E d \in DCs :
  /\ wire[d].is \in {"req_pq", "req_dh", "client_dh"}
  /\ wire' = [wire EXCEPT ![d] = Packet("refusal", 0)] /\ why' = why \cup {"refused"}
  /\ UNCHANGED <<machine, turn, conn, dcs, kept, logs, agreed, alive, bounds>>

-----------------------------------------------------------------------------
(* Answers: rpc_execute *)

\* process_respq_answer: the factors, and the request of the parameters.
ProcessResPq(d) ==
  IF wire[d] = Packet("res_pq", nonce)
  THEN /\ cState' = "reqdh_sent"
       /\ wire' = [wire EXCEPT ![d] = Packet("req_dh", nonce)]
       /\ UNCHANGED <<nonce, success, dh, conn, dcs, kept, alive, why>>
  ELSE Stops

\* process_dh_answer: the key is computed and put where it is kept, with the
\* server's time.
ProcessDhAnswer(d) ==
  IF wire[d] = Packet("dh_params", nonce)
  THEN \E p \in Moduli, g \in 1..8, short \in BOOLEAN :
         IF ~CheckDHParams(p, g)
         THEN why' = why \cup {"refused"} /\ alive' = FALSE
              /\ UNCHANGED <<machine, link, dcs, kept>>
         ELSE /\ dh' = [p |-> p, g |-> g] /\ cState' = "client_dh_sent"
              /\ clock' = [clock EXCEPT ![d] = "right"]
              /\ authKey' = [authKey EXCEPT ![d] = [nonce |-> nonce, shifted |-> short]]
              /\ why' = IF short THEN why \cup {"shifted"} ELSE why
              /\ wire' = [wire EXCEPT ![d] = Packet("client_dh", nonce)]
              /\ UNCHANGED <<nonce, success, conn, flags, kept, alive>>
  ELSE Stops

\* Slip: the server's hash of the key is not compared.
ProcessAuthComplete_Trusts(d) ==
  IF wire[d] # Packet("gen_ok", nonce) THEN Stops
  ELSE /\ flags' = flags \cup {d} /\ kept' = [kept EXCEPT ![d] = authKey[d]]
       /\ wire' = [wire EXCEPT ![d] = NoPacket] /\ dh' = NoDh
       /\ cState' = "authorized" /\ success' = TRUE
       /\ UNCHANGED <<nonce, conn, authKey, clock, alive, why>>

\* process_auth_complete: the key goes to the event log before the server's
\* hash of it is compared, and to the auth file after.
ProcessAuthComplete(d) ==
  LET key == authKey[d] IN
  IF wire[d] # Packet("gen_ok", nonce) THEN Stops
  ELSE /\ flags' = flags \cup {d}
       /\ IF key.shifted
          THEN /\ alive' = FALSE
               /\ kept' = IF logs THEN [kept EXCEPT ![d] = key] ELSE kept
               /\ UNCHANGED <<machine, wire>>
          ELSE /\ kept' = [kept EXCEPT ![d] = key]
               /\ wire' = [wire EXCEPT ![d] = NoPacket] /\ dh' = NoDh
               /\ cState' = "authorized" /\ success' = TRUE
               /\ UNCHANGED <<alive, nonce>>
       /\ UNCHANGED <<conn, authKey, clock, why>>

Received == \E d \in DCs :
  /\ alive /\ d \notin flags
  /\ wire[d].is \in {"res_pq", "dh_params", "gen_ok", "refusal"}
  /\ LET o == EffectiveState(d) IN
       \/ o = "reqpq_sent" /\ ProcessResPq(d)
       \/ o = "reqdh_sent" /\ ProcessDhAnswer(d)
       \/ o = "client_dh_sent" /\ ProcessAuthComplete(d)
  /\ UNCHANGED <<turn, logs, agreed, bounds>>

\* process_rpc_message, of a message under the key: its time is compared with
\* the estimate, which the first one sets after a restart.
ProcessRpcMessage == \E d \in flags :
  /\ alive /\ conn[d] = "ready" /\ EffectiveState(d) = "authorized"
  /\ ~authKey[d].shifted /\ authKey[d].nonce \in agreed[d]
  /\ \/ clock[d] = "unset" /\ clock' = [clock EXCEPT ![d] = "right"] /\ UNCHANGED alive
     \/ clock[d] = "behind" /\ alive' = FALSE /\ UNCHANGED clock
  /\ UNCHANGED <<machine, turn, link, authKey, flags, kept, logs, agreed, why, bounds>>

-----------------------------------------------------------------------------
(* What goes wrong *)

\* A connection is lost, with the packets on it, and made again.
ConnectionLost == \E d \in DCs :
  /\ alive /\ conn[d] = "ready" /\ losses < MaxLosses /\ losses' = losses + 1
  /\ conn' = [conn EXCEPT ![d] = "connecting"] /\ wire' = [wire EXCEPT ![d] = NoPacket]
  /\ why' = IF d \in flags THEN why ELSE why \cup {"lost"}
  /\ UNCHANGED <<machine, turn, dcs, kept, logs, agreed, alive, sleeps, started>>

\* ping_alarm after five periods without a packet: the ping is encrypted, and
\* init_enc_msg asserts that there is a key.
PingAlarm == \E d \in DCs \ flags :
  /\ alive /\ conn[d] = "ready" /\ alive' = FALSE /\ why' = why \cup {"silent"}
  /\ UNCHANGED <<machine, turn, link, dcs, kept, logs, agreed, bounds>>

\* The machine sleeps: the monotonic clock falls behind the server's.
Sleep ==
  /\ alive /\ sleeps < MaxSleeps /\ sleeps' = sleeps + 1
  /\ clock' = [d \in DCs |-> IF clock[d] = "right" THEN "behind" ELSE clock[d]]
  /\ why' = why \cup {"slept"}
  /\ UNCHANGED <<machine, turn, link, authKey, flags, kept, logs, agreed, alive,
                 losses, started>>

\* The process ends, or has failed, and is started again.
Restart ==
  /\ started < MaxStarts /\ started' = started + 1
  /\ cState' = "init" /\ success' = FALSE /\ turn' = NoDC /\ dh' = NoDh
  /\ conn' = [d \in DCs |-> "none"] /\ wire' = [d \in DCs |-> NoPacket]
  /\ authKey' = kept /\ flags' = {d \in DCs : kept[d] # NoKey}
  /\ clock' = [d \in DCs |-> "unset"] /\ alive' = TRUE /\ why' = {}
  /\ UNCHANGED <<nonce, kept, logs, agreed, losses, sleeps>>

Next ==
  \/ Authorize \/ Authorized \/ DcCreateSession \/ TcBecomesReady \/ ServerAnswers
  \/ ServerRefuses \/ Received \/ ProcessRpcMessage \/ ConnectionLost \/ PingAlarm
  \/ Sleep \/ Restart

\* Connections are made, packets arrive, the server answers, the loop runs on.
Progress == Authorized \/ TcBecomesReady \/ ServerAnswers \/ Received
Fairness == WF_handshake_vars(Progress)
Spec == Init /\ [][Next]_handshake_vars
FairSpec == Spec /\ Fairness

-----------------------------------------------------------------------------
(* Properties *)

\* A key in use, or kept for the next start, is one the server has too, whatever
\* is lost or restarted; except that the event log keeps a shifted one.
KeysAgree == \A d \in DCs :
  /\ d \in flags /\ alive => authKey[d].nonce \in agreed[d]
  /\ kept[d] # NoKey => kept[d].nonce \in agreed[d] /\ (kept[d].shifted => logs)

\* The process stops by an assertion only if a connection was lost or silent
\* before it had its key, the key was short, the server refused, or the
\* machine slept.  Connections of other data centres may fail at any time.
StopsOnlyFor == ~alive => why # {}

\* A generator that check_DH_params accepts is a square modulo the prime.
GeneratorIsSquare ==
  dh = NoDh \/ \E y \in 1..(dh.p - 1) : (y * y) % dh.p = dh.g

\* Every exchange that begins gives a key, or the process stops.
ExchangeEnds == \A d \in DCs :
  turn = d ~> d \in flags \/ ~alive \/ turn # d

-----------------------------------------------------------------------------
(* The inductive invariant *)

KeyRecord == [nonce : 0..MaxNonce, shifted : BOOLEAN]
PacketRecord == [is : {"nothing", "req_pq", "res_pq", "req_dh", "dh_params", "client_dh",
                       "gen_ok", "refusal"}, nonce : 0..MaxNonce]
Records ==
  /\ wire \in [DCs -> PacketRecord] /\ agreed \in [DCs -> SUBSET (1..MaxNonce)]
  /\ authKey \in [DCs -> KeyRecord] /\ kept \in [DCs -> KeyRecord] /\ flags \subseteq DCs
  /\ alive \in BOOLEAN /\ logs \in BOOLEAN

\* Connections are those of data centres with a key and of the one whose turn it
\* is; a nonce is left for an exchange that has not begun.
TurnFits ==
  /\ \A d \in DCs : conn[d] = "none" \/ d \in flags \/ d = turn
  /\ success => cState = "authorized" /\ turn \in flags \cup {NoDC}
  /\ cState = "init" =>
       \/ turn # NoDC /\ nonce < MaxNonce
       \/ turn = NoDC /\ \A d \in DCs \ flags : conn[d] = "none"

\* A packet that follows the key is of the exchange of that key; the server has
\* the key that it has confirmed, and those in use.
WireFits == \A d \in DCs :
  /\ wire[d].is \in {"client_dh", "gen_ok"} => authKey[d].nonce = wire[d].nonce
  /\ wire[d].is \notin {"nothing", "refusal"} => wire[d].nonce > 0
  /\ wire[d].is = "gen_ok" => wire[d].nonce \in agreed[d]
  /\ d \in flags => authKey[d].nonce \in agreed[d]
  /\ kept[d] # NoKey => kept[d].nonce \in agreed[d] /\ (kept[d].shifted => logs)

\* As long as nothing has gone wrong the packet of the exchange under way is the
\* one that its state waits for.
Expected == [reqpq_sent |-> {"req_pq", "res_pq"}, reqdh_sent |-> {"req_dh", "dh_params"},
             client_dh_sent |-> {"client_dh", "gen_ok"}]
InStep == why = {} =>
  /\ alive /\ \A d \in DCs : clock[d] # "behind"
  /\ turn \in DCs \ flags =>
       /\ cState # "authorized"
       /\ cState = "init" => conn[turn] = "connecting"
       /\ cState # "init" => /\ conn[turn] = "ready" /\ wire[turn].nonce = nonce
                             /\ wire[turn].is \in Expected[cState]
       /\ cState = "client_dh_sent" => ~authKey[turn].shifted

\* Inductive: each action keeps it.
IInv == TypeOK /\ Records /\ TurnFits /\ WireFits /\ InStep
=============================================================================
