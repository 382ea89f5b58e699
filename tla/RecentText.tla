------------------------------ MODULE RecentText ------------------------------
(***************************************************************************)
(* What the console history of a server promises: a reader gets the most   *)
(* recent text, in order and without a gap, up to the end of a whole       *)
(* append; at least Least characters of it and at most Most (where there   *)
(* were so many).  Text is dropped only from the front, and what was       *)
(* dropped does not come back.                                             *)
(*                                                                         *)
(* The character that was written as the n-th is the number n.             *)
(***************************************************************************)
EXTENDS Naturals, Sequences

CONSTANTS Least, Most, MaxText, MaxWritten

VARIABLES
  text,       \* what is kept
  last,       \* how many characters have been put in
  target,     \* how many there will be at the end of the append
  appending,  \* an append is going on
  seen        \* what the last reader got

vars == <<text, last, target, appending, seen>>

\* The n most recent characters when l have been written.
Window(n, l) == [i \in 1..n |-> l - n + i]

\* Whether n of l characters are neither too few nor too many.
Kept(n, l, least) == n <= Most /\ n <= l /\ (n >= least \/ n = l)

Init == text = <<>> /\ last = 0 /\ target = 0 /\ appending = FALSE /\ seen = <<>>

Begin ==
  /\ ~appending /\ appending' = TRUE
  /\ \E n \in 0..MaxText : target + n <= MaxWritten /\ target' = target + n
  /\ UNCHANGED <<text, last, seen>>

\* Some more text is put in and some old text dropped.
Extend ==
  /\ appending
  /\ last' \in last..target
  /\ \E n \in 0..Most :
       /\ Kept(n, last', Least)
       /\ last' - n >= last - Len(text)
       /\ text' = Window(n, last')
       /\ \/ appending'
          \/ ~appending' /\ last' = target /\ Kept(n, last', Least + 1)
  /\ appending' \in BOOLEAN
  /\ UNCHANGED <<target, seen>>

Read ==
  /\ ~appending
  /\ seen' = text
  /\ UNCHANGED <<text, last, target, appending>>

\* The server is gone, and another starts with nothing.
Renew ==
  /\ ~appending
  /\ text' = <<>> /\ last' = 0 /\ target' = 0 /\ seen' = <<>>
  /\ UNCHANGED appending

Next == Begin \/ Extend \/ Read \/ Renew

Spec == Init /\ [][Next]_vars
=============================================================================
