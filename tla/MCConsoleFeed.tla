----------------------------- MODULE MCConsoleFeed -----------------------------
(* An instance of ConsoleFeed for TLC. *)
EXTENDS ConsoleFeed

CONSTANTS c1, w1

OneController == {c1}
OneTerminal   == {w1}
=============================================================================
