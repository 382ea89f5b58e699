---------------------------- MODULE MCServerRegistry ----------------------------
(* Instances of ServerRegistry for TLC. *)
EXTENDS ServerRegistry

CONSTANTS s1, s2, c1, w1, i1, u1, u2

\* Two servers compete for one id; a controller and a terminal belong to one
\* of two users.
OneServer     == {s1}
TwoServers    == {s1, s2}
OneController == {c1}
OneTerminal   == {w1}
OneID         == {i1}
OneUser       == {u1}
TwoUsers      == {u1, u2}
=============================================================================
