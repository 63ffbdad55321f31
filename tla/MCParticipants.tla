--------------------------- MODULE MCParticipants ---------------------------
(* Participants by itself, for what an assertion of its event says.         *)
EXTENDS Participants
=============================================================================
