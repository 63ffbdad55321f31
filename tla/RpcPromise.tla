----------------------------- MODULE RpcPromise -----------------------------
(***************************************************************************)
(* What the query engine of telegram_cli/queries.c promises to the code    *)
(* that calls send_query: every query is handed to its on_answer or        *)
(* on_error method at most once, and, when the server keeps its session,   *)
(* exactly once.  A method may itself send further queries; they start in  *)
(* the very step that finishes the one it was called for.                  *)
(*                                                                         *)
(* Nothing here is code: acknowledgements, timers, resends, salts and lost *)
(* connections are what RpcQueries adds and hides.                         *)
(***************************************************************************)
CONSTANT Query              \* the queries the program ever sends

VARIABLE status             \* of every query: "idle", "pending", "finished"

Idle    == {q \in Query : status[q] = "idle"}
Pending == {q \in Query : status[q] = "pending"}

Init == status = [q \in Query |-> "idle"]

Start(q) ==
  /\ q \in Idle
  /\ status' = [status EXCEPT ![q] = "pending"]

\* The method of q runs, and may start the queries of F.
Finish(q, F) ==
  /\ q \in Pending
  /\ F \subseteq Idle
  /\ status' = [r \in Query |-> IF r = q THEN "finished"
                                ELSE IF r \in F THEN "pending" ELSE status[r]]

FinishAny(q) == \E F \in SUBSET Idle : Finish(q, F)

Next == \E q \in Query : Start(q) \/ FinishAny(q)

Spec == Init /\ [][Next]_status

\* The promise with its liveness half: a started query is finished.
FairSpec == Spec /\ \A q \in Query : WF_status(FinishAny(q))
=============================================================================
