--------------------------- MODULE MCMessageStore ---------------------------
(* Instances of MessageStore for TLC: a plain message, one to the secret   *)
(* chat and one from it.                                                   *)
EXTENDS MessageStore

CONSTANTS m1, s1, i1

PlainAndSecret == {m1, s1}
OnlySecret == {s1}
OneIncoming == {i1}
=============================================================================
