---------------------------- MODULE MCSecretChat ----------------------------
(* Instances of SecretChat for TLC: the .cfg files give the constants.     *)
EXTENDS SecretChat
=============================================================================
