------------------------------ MODULE FeedPromise ------------------------------
(***************************************************************************)
(* What the console feed of a server promises its clients: whoever joined  *)
(* is owed the text that the history holds at that time and everything     *)
(* that is written from then on, and gets nothing else.  Nothing is        *)
(* promised about the order, nor that a piece comes only once; and nothing *)
(* is owed any more when the connection is lost.                           *)
(*                                                                         *)
(* The piece of text that the server wrote as the n-th is the number n.    *)
(***************************************************************************)
EXTENDS Naturals

CONSTANTS Clients, MaxPieces, Patient

VARIABLES
  written,    \* the pieces that have been given to the clients
  kept,       \* those of them that the history holds
  member,     \* the clients that have joined and are connected
  owed, got   \* the pieces that each of them has to get, and has got

vars == <<written, kept, member, owed, got>>

Pieces == 1..MaxPieces

Init ==
  /\ written = {} /\ kept = {} /\ member = {}
  /\ owed = [c \in Clients |-> {}]
  /\ got = [c \in Clients |-> {}]

\* A piece is owed to all who are there.
Write ==
  \E n \in Pieces \ written :
    /\ written' = written \cup {n}
    /\ kept' \in {kept, kept \cup {n}}
    /\ owed' = [c \in Clients |-> IF c \in member THEN owed[c] \cup {n} ELSE {}]
    /\ UNCHANGED <<member, got>>

Join(c) ==
  /\ c \notin member
  /\ member' = member \cup {c}
  /\ owed' = [owed EXCEPT ![c] = kept]
  /\ UNCHANGED <<written, kept, got>>

Get(c) ==
  /\ \E S \in SUBSET (owed[c] \ got[c]) :
       S # {} /\ got' = [got EXCEPT ![c] = @ \cup S]
  /\ UNCHANGED <<written, kept, member, owed>>

\* Some clients leave or lose their connection.
Leave ==
  \E left \in SUBSET member :
    /\ left # {}
    /\ member' = member \ left
    /\ owed' = [c \in Clients |-> IF c \in left THEN {} ELSE owed[c]]
    /\ got' = [c \in Clients |-> IF c \in left THEN {} ELSE got[c]]
    /\ UNCHANGED <<written, kept>>

Next == Write \/ Leave \/ \E c \in Clients : Join(c) \/ Get(c)

\* Whoever takes what comes is not kept waiting.
Spec == Init /\ [][Next]_vars

FairSpec == Spec /\ \A c \in Patient : WF_vars(Get(c))
=============================================================================
