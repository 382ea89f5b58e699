----------------------------- MODULE StringBuffer -----------------------------
(***************************************************************************)
(* The console history of a Server: a list of at most max_len nodes of     *)
(* node_max_size bytes each.  buffer_append calls itself for the text that *)
(* does not fit into the tail; one such call is one step here, and all of  *)
(* them run under sbMutex, which server_read holds around the append and   *)
(* the add of a client around buffer_get_string.                           *)
(*                                                                         *)
(* The character that was written as the n-th is the number n, so that a   *)
(* lost, doubled or misplaced one shows.                                   *)
(***************************************************************************)
EXTENDS Naturals, SequencesExt

CONSTANTS
  MaxNodes,    \* max_len
  NodeSize,    \* node_max_size
  MaxText,     \* the longest text of one append
  MaxWritten   \* bound on the text written to one buffer

\* With nodes of one byte the recursion would not end; the code uses 32, 512.
ASSUME SizeAssumption ==
  /\ MaxNodes \in Nat \ {0}
  /\ NodeSize \in Nat \ {0, 1}
  /\ MaxText \in Nat /\ MaxWritten \in Nat

VARIABLES
  nodes,      \* from head to tail, with their cur_len and their data
  cur_len,    \* how many nodes the buffer believes to have
  written,    \* length of all the text given to buffer_append so far
  rest,       \* str: what the append that is going on has still to put in
  appending,  \* server_read holds sbMutex
  got         \* the last result of buffer_get_string

vars == <<nodes, cur_len, written, rest, appending, got>>

\* No byte is left for the final NUL.
Available_NoNUL == NodeSize - Last(nodes).cur_len

\* The free space of the tail, less one byte for the final NUL.
Available == NodeSize - Last(nodes).cur_len - 1

buffer_node_create == [cur_len |-> 0, data |-> <<>>]

\* The buffer with s concatenated to the data of its tail.
WithTail(s) ==
  [nodes EXCEPT ![Len(nodes)] =
     [cur_len |-> @.cur_len + Len(s), data |-> @.data \o s]]

\* What buffer_get_string collects: no more of a node than its cur_len.
Text ==
  FlattenSeq([i \in 1..Len(nodes) |->
                SubSeq(nodes[i].data, 1, nodes[i].cur_len)])

\* The final NUL is forgotten.
Allocated_NoNUL == (cur_len - 1) * NodeSize + Last(nodes).cur_len

\* What buffer_get_string allocates for it.
Allocated == (cur_len - 1) * NodeSize + Last(nodes).cur_len + 1

Init ==
  /\ nodes = <<>> /\ cur_len = 0
  /\ written = 0 /\ rest = <<>> /\ appending = FALSE
  /\ got = <<>>

\* server_read locks sbMutex and calls buffer_append.
BeginAppend ==
  /\ ~appending
  /\ \E n \in 0..MaxText :
       /\ written + n <= MaxWritten
       /\ rest' = [i \in 1..n |-> written + i]
       /\ written' = written + n
  /\ appending' = TRUE
  /\ UNCHANGED <<nodes, cur_len, got>>

\* The first call makes the first node.
FirstNode ==
  /\ appending /\ nodes = <<>>
  /\ nodes' = <<buffer_node_create>> /\ cur_len' = 1
  /\ UNCHANGED <<written, rest, appending, got>>

\* The text fits, the recursion ends, and server_read unlocks sbMutex.
Fits ==
  /\ appending /\ nodes # <<>>
  /\ Len(rest) <= Available
  /\ nodes' = WithTail(rest)
  /\ rest' = <<>> /\ appending' = FALSE
  /\ UNCHANGED <<cur_len, written, got>>

\* The tail is filled, and a new tail comes after it.
Longer == Append(WithTail(SubSeq(rest, 1, Available)), buffer_node_create)

\* The head is dropped one node too early.
TooMany_Early == cur_len + 1 >= MaxNodes
TooMany == cur_len + 1 > MaxNodes

\* cur_len is not lowered again after the head was dropped.
NodeCount_NotLowered == cur_len + 1

\* ++ cur_len, and -- cur_len when the head was dropped.
NodeCount == IF TooMany THEN cur_len ELSE cur_len + 1

\* The recursive call is given str again.
Residue_Same == rest

\* str + available.
Residue == SubSeq(rest, Available + 1, Len(rest))

\* The text fills the tail; a new tail takes the rest, and the head goes when
\* there are too many nodes.
Overflows ==
  /\ appending /\ nodes # <<>>
  /\ Len(rest) > Available
  /\ nodes' = IF TooMany THEN Tail(Longer) ELSE Longer
  /\ cur_len' = NodeCount
  /\ rest' = Residue
  /\ UNCHANGED <<written, appending, got>>

\* A client that is added locks sbMutex and takes the text; NULL is <<>> here.
buffer_get_string ==
  /\ ~appending
  /\ got' = Text
  /\ UNCHANGED <<nodes, cur_len, written, rest, appending>>

\* The destructor empties the buffer, and another Server makes a new one.
buffer_reconstruct ==
  /\ ~appending
  /\ nodes' = <<>> /\ cur_len' = 0 /\ written' = 0 /\ got' = <<>>
  /\ UNCHANGED <<rest, appending>>

buffer_append == FirstNode \/ Fits \/ Overflows

Next == BeginAppend \/ buffer_append \/ buffer_get_string \/ buffer_reconstruct

Spec == Init /\ [][Next]_vars

\* The thread that appends waits for nobody.
FairSpec == Spec /\ WF_vars(buffer_append)

-----------------------------------------------------------------------------
(* Properties. *)

\* A character is its position, and a buffer a list of nodes; no node holds
\* more than node_max_size bytes with its NUL, so that `available` is never
\* negative, and there are never more nodes than max_len.
TypeOK ==
  /\ nodes \in Seq([cur_len : 0..NodeSize - 1, data : Seq(1..MaxWritten)])
  /\ Len(nodes) <= MaxNodes
  /\ cur_len \in 0..MaxNodes
  /\ written \in 0..MaxWritten
  /\ rest \in Seq(1..MaxWritten)
  /\ appending \in BOOLEAN

\* What the buffer says of itself is so, in the middle of an append too:
\* cur_len counts the nodes, the cur_len of a node counts its data, and all
\* nodes but the tail are full.
ListConsistent ==
  /\ cur_len = Len(nodes)
  /\ \A i \in 1..Len(nodes) : nodes[i].cur_len = Len(nodes[i].data)
  /\ \A i \in 1..Len(nodes) - 1 : nodes[i].cur_len = NodeSize - 1

\* The text and its NUL fit into the memory that buffer_get_string allocates
\* (version 1.0 of the code wrote past its end).
GotFits == nodes # <<>> => Len(Text) + 1 <= Allocated

\* The buffer keeps what RecentText promises: max_len - 1 full nodes and one
\* character at least.
Recent ==
  INSTANCE RecentText WITH
    Least <- (MaxNodes - 1) * (NodeSize - 1),
    Most <- MaxNodes * (NodeSize - 1),
    text <- Text,
    last <- written - Len(rest),
    target <- written,
    seen <- got

\* Every reader gets the most recent text, whole appends in order.
ImplementsRecentText == Recent!Spec

\* An append comes to its end, and sbMutex is free again, however long the
\* text: every call but the one that makes a fresh tail takes some of it.
AppendEnds == appending ~> ~appending
=============================================================================
