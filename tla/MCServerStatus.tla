---------------------------- MODULE MCServerStatus ----------------------------
(* Instances of ServerStatus: one or two calls of serCtl, each of any type. *)
EXTENDS ServerStatus, TLC

CONSTANTS r1, r2

OneRequest  == {r1}
TwoRequests == {r1, r2}

\* The requests differ only in their types, which Init chooses freely.
Symmetric == Permutations(Requests)

=============================================================================
