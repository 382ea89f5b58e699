----------------------------- MODULE MCFrameStream -----------------------------
(* FrameStream for TLC: its constants are numbers, which the configurations    *)
(* give.                                                                       *)
EXTENDS FrameStream
=============================================================================
