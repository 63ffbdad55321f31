------------------------------- MODULE Outbox -------------------------------
(***************************************************************************)
(* Messages that were typed: the class Telegram hands them to the core one *)
(* a second (telegram.cpp).                                                *)
(***************************************************************************)
EXTENDS Integers, Sequences

CONSTANT MaxTyped  \* bound: messages typed

OutboxAssumption == MaxTyped \in Nat

VARIABLES
  sendQueue,  \* msg_send_queue
  sendTimer,  \* msg_send_timer runs
  typed,      \* messages typed, which are numbered
  handed      \* history: those given to the core, in order

outbox_vars == <<sendQueue, sendTimer, typed, handed>>

\* One type invariant: the queue and what was handed over hold typed messages.
TypeOK ==
  /\ sendQueue \in Seq(1..MaxTyped) /\ handed \in Seq(1..MaxTyped)
  /\ typed \in 0..MaxTyped /\ sendTimer \in BOOLEAN

Init == sendQueue = <<>> /\ sendTimer = FALSE /\ typed = 0 /\ handed = <<>>

\* sendMessage: the first of the queue goes at once, and starts the timer.
SendMessage ==
  /\ typed < MaxTyped /\ typed' = typed + 1
  /\ sendQueue' = Append(sendQueue, typed')
  /\ IF sendQueue = <<>>
     THEN handed' = Append(handed, typed') /\ sendTimer' = TRUE
     ELSE UNCHANGED <<handed, sendTimer>>

\* timerEvent: the first of the queue was sent; the timer stops with the queue.
SendTimerEvent ==
  /\ sendQueue' = Tail(sendQueue)
  /\ sendTimer' = (sendQueue' # <<>>)
  /\ handed' = IF sendQueue' = <<>> THEN handed ELSE Append(handed, Head(sendQueue'))

SendTimer == sendTimer /\ SendTimerEvent /\ UNCHANGED typed

Next == SendMessage \/ SendTimer

\* A timer that runs fires.
Fairness == WF_outbox_vars(SendTimer)
Spec == Init /\ [][Next]_outbox_vars
FairSpec == Spec /\ Fairness

-----------------------------------------------------------------------------
(* Properties *)

\* Messages are handed to the core in the order they were typed, each once; the
\* queue holds the last that was and those after it, and the timer runs for it.
HandedInOrder ==
  /\ handed \o (IF sendQueue = <<>> THEN <<>> ELSE Tail(sendQueue)) = [k \in 1..typed |-> k]
  /\ sendTimer = (sendQueue # <<>>)

\* Every message that was typed is handed over.
AllHandedOver ==
  \A k \in 1..MaxTyped : typed >= k ~> \E j \in DOMAIN handed : handed[j] = k

\* Inductive: each action keeps it.
IInv == TypeOK /\ HandedInOrder
=============================================================================
