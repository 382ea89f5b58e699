---------------------------- MODULE MCStringBuffer ----------------------------
(* Instances of StringBuffer for TLC. *)
EXTENDS StringBuffer
=============================================================================
