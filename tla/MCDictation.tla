----------------------------- MODULE MCDictation ------------------------------
(* Small instances of Dictation for TLC. *)
EXTENDS Dictation
=============================================================================
