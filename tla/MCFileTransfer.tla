---------------------------- MODULE MCFileTransfer ----------------------------
(* FileTransfer for TLC: its constants are numbers that a cfg gives. *)
EXTENDS FileTransfer
=============================================================================
