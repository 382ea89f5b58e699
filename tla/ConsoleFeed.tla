------------------------------ MODULE ConsoleFeed ------------------------------
(***************************************************************************)
(* The console of one Server object and its clients.  server_read receives *)
(* pieces of text, puts them into the history and broadcasts them: one     *)
(* detached thread for every message and client.  A client is listed       *)
(* first and given the history second.  All writing to its socket is in     *)
(* frames, under the netIOMutex of a Client or the writeMutex of a         *)
(* WebSocket.                                                              *)
(*                                                                         *)
(* frame[c][m] is where the thread stands that writes the message m to c:  *)
(* a piece of text, the greeting, the history, or the status that a        *)
(* terminal w broadcasts when it joins (named w).                          *)
(*                                                                         *)
(* The Server object outlives its clients here: ServerRegistry has its     *)
(* destructor.  The pieces of a run fit into the history: StringBuffer     *)
(* has what it keeps of more.                                              *)
(***************************************************************************)
EXTENDS Naturals

CONSTANTS
  Controllers, Terminals,   \* clients whose ids were found to be right
  Patient,                  \* those of them that take what is sent to them
  Greeting, History,        \* messages
  MaxPieces,                \* bound on what the server writes
  None

Clients  == Controllers \cup Terminals
Pieces   == 1..MaxPieces
Messages == Pieces \cup Terminals \cup {Greeting, History}

ASSUME FeedAssumption ==
  /\ MaxPieces \in Nat
  /\ Controllers \cap Terminals = {}
  /\ Patient \subseteq Clients
  /\ {Greeting, History} \cap (Pieces \cup Terminals) = {} /\ Greeting # History
  /\ Pieces \cap Terminals = {}
  /\ None \notin Messages \cup Clients

VARIABLES
  reader,     \* where server_read stands
  read,       \* how many pieces it has received
  stored,     \* the pieces in the history
  pc,         \* where the thread of each client stands
  listed,     \* CTLList and WSList
  copy,       \* strbuf: what each client took out of the history
  frame,
  lock,       \* netIOMutex, writeMutex: the message whose writer has it
  conn,       \* whether a send to the client succeeds
  SerMutex, cliMutex, sbMutex,   \* the client thread that has it
  fault       \* the undefined behaviour the process ran into, if any

feedVars   == <<reader, read, stored>>
clientVars == <<pc, listed, copy>>
socketVars == <<frame, lock, conn>>
mutexes    == <<SerMutex, cliMutex, sbMutex>>
vars       == <<feedVars, clientVars, socketVars, mutexes, fault>>

FramePhases  == {"none", "begin", "body", "sent", "lost"}
ClientPhases == {"waiting", "list", "greeting", "copy", "status", "history",
                 "start", "reading", "removing", "gone"}

\* The client is being added, and its thread holds SerMutex.
Attaching(c) == pc[c] \in {"list", "greeting", "copy", "status", "history", "start"}

Running     == fault = "none"
Exists(c)   == pc[c] # "gone"
Finished(p) == p \in {"sent", "lost"}
Goto(c, p)  == pc' = [pc EXCEPT ![c] = p]

\* The head of a frame could not be sent and left the mutex locked.
Stuck(c) == lock[c] # None /\ frame[c][lock[c]] = "lost"

Init ==
  /\ reader = "recv" /\ read = 0 /\ stored = {}
  /\ pc = [c \in Clients |-> "waiting"]
  /\ listed = {}
  /\ copy = [c \in Clients |-> {}]
  /\ frame = [c \in Clients |-> [m \in Messages |-> "none"]]
  /\ lock = [c \in Clients |-> None]
  /\ conn = [c \in Clients |-> "open"]
  /\ SerMutex = None /\ cliMutex = None /\ sbMutex = None
  /\ fault = "none"

-----------------------------------------------------------------------------
(* Writing a frame: writeSocketData of a Client, writeData of a WebSocket. *)
(* A definition Name_Bug is Name with a bug that its code could have had;  *)
(* it is part of no behaviour and serves to see which property notices.    *)

Write(c, m, p) == frame' = [frame EXCEPT ![c][m] = p]

\* The head goes out without the mutex.
WriteHead_Unlocked(c, m) ==
  /\ Running /\ frame[c][m] = "begin" /\ Exists(c)
  /\ \/ conn[c] = "open" /\ Write(c, m, "body") /\ lock' = [lock EXCEPT ![c] = m]
     \/ conn[c] = "broken" /\ Write(c, m, "lost") /\ UNCHANGED lock
  /\ UNCHANGED <<feedVars, clientVars, conn, mutexes, fault>>

\* The mutex is taken and the head sent; when that fails, writeSocketData
\* unlocks and writeData does not.
WriteHead(c, m) ==
  /\ Running /\ frame[c][m] = "begin" /\ Exists(c)
  /\ lock[c] = None
  /\ \/ conn[c] = "open" /\ Write(c, m, "body") /\ lock' = [lock EXCEPT ![c] = m]
     \/ /\ conn[c] = "broken" /\ Write(c, m, "lost")
        /\ lock' = IF c \in Terminals THEN [lock EXCEPT ![c] = m] ELSE lock
  /\ UNCHANGED <<feedVars, clientVars, conn, mutexes, fault>>

WriteBody(c, m) ==
  /\ Running /\ frame[c][m] = "body" /\ Exists(c)
  /\ Write(c, m, IF conn[c] = "open" THEN "sent" ELSE "lost")
  /\ lock' = [lock EXCEPT ![c] = None]
  /\ UNCHANGED <<feedVars, clientVars, conn, mutexes, fault>>

\* The thread still has the pointer to a client that was deleted.
WriteFreed(c, m) ==
  /\ Running /\ frame[c][m] \in {"begin", "body"} /\ ~Exists(c)
  /\ fault' = "freedClient"
  /\ UNCHANGED <<feedVars, clientVars, socketVars, mutexes>>

\* Broadcast passes over the clients that are still being added.
Broadcast_Reading(m) ==
  frame' = [c \in Clients |->
              IF c \in listed /\ pc[c] = "reading"
              THEN [frame[c] EXCEPT ![m] = "begin"] ELSE frame[c]]

\* Broadcast starts a thread for every listed client.
Broadcast(m) ==
  frame' = [c \in Clients |->
              IF c \in listed THEN [frame[c] EXCEPT ![m] = "begin"] ELSE frame[c]]

-----------------------------------------------------------------------------
(* server_read.                                                            *)

\* Text starts with a T and goes into the history; the later pieces of a long
\* frame and the status of the server are only broadcast.
ReadPiece ==
  /\ Running /\ reader = "recv"
  /\ read < MaxPieces /\ read' = read + 1
  /\ reader' \in {"append", "broadcast"}
  /\ UNCHANGED <<stored, clientVars, socketVars, mutexes, fault>>

AppendPiece ==
  /\ Running /\ reader = "append"
  /\ sbMutex = None
  /\ stored' = stored \cup {read}
  /\ reader' = "broadcast"
  /\ UNCHANGED <<read, clientVars, socketVars, mutexes, fault>>

\* Broadcast waits for the clients instead of starting threads.
BroadcastPiece_Waiting ==
  /\ Running /\ reader = "broadcast"
  /\ cliMutex = None
  /\ \A c \in listed : lock[c] = None
  /\ Broadcast(read)
  /\ reader' = "recv"
  /\ UNCHANGED <<read, stored, clientVars, lock, conn, mutexes, fault>>

BroadcastPiece ==
  /\ Running /\ reader = "broadcast"
  /\ cliMutex = None
  /\ Broadcast(read)
  /\ reader' = "recv"
  /\ UNCHANGED <<read, stored, clientVars, lock, conn, mutexes, fault>>

-----------------------------------------------------------------------------
(* A controller joins: its constructor and Server::add(Controller).        *)

\* The lookup of its Server is in ServerRegistry.  OK is written without a
\* frame, and nobody asks whether it could be sent.
ControllerGreet(c) ==
  /\ Running /\ pc[c] = "waiting"
  /\ SerMutex = None /\ SerMutex' = c
  /\ Write(c, Greeting, IF conn[c] = "open" THEN "sent" ELSE "lost")
  /\ Goto(c, "list")
  /\ UNCHANGED <<feedVars, listed, copy, lock, conn, cliMutex, sbMutex, fault>>

ControllerList(c) ==
  /\ Running /\ pc[c] = "list"
  /\ cliMutex = None
  /\ listed' = listed \cup {c}
  /\ Goto(c, "copy")
  /\ UNCHANGED <<feedVars, copy, socketVars, mutexes, fault>>

\* An empty history is not sent.
SendHistory(c, text) ==
  \/ text = {} /\ Goto(c, "start") /\ UNCHANGED frame
  \/ text # {} /\ Goto(c, "history") /\ Write(c, History, "begin")

ControllerCopy(c) ==
  /\ Running /\ pc[c] = "copy"
  /\ sbMutex = None
  /\ copy' = [copy EXCEPT ![c] = stored]
  /\ SendHistory(c, stored)
  /\ UNCHANGED <<feedVars, listed, lock, conn, mutexes, fault>>

-----------------------------------------------------------------------------
(* A terminal joins: terminalAccess and Server::add(WebSocket).            *)

TerminalTryLock(w) ==
  /\ Running /\ pc[w] = "waiting"
  /\ \/ SerMutex = None /\ SerMutex' = w /\ Goto(w, "list")
     \/ SerMutex # None /\ SerMutex' = None /\ Goto(w, "gone")
  /\ UNCHANGED <<feedVars, listed, copy, socketVars, cliMutex, sbMutex, fault>>

\* TOK is written after cliMutex was released.
TerminalList_Unlocked(w) ==
  /\ Running /\ pc[w] = "list"
  /\ cliMutex = None
  /\ listed' = listed \cup {w}
  /\ Write(w, Greeting, "begin")
  /\ Goto(w, "greeting")
  /\ UNCHANGED <<feedVars, copy, lock, conn, mutexes, fault>>

\* TOK is written while cliMutex is held.
TerminalList(w) ==
  /\ Running /\ pc[w] = "list"
  /\ cliMutex = None /\ cliMutex' = w
  /\ listed' = listed \cup {w}
  /\ Write(w, Greeting, "begin")
  /\ Goto(w, "greeting")
  /\ UNCHANGED <<feedVars, copy, lock, conn, SerMutex, sbMutex, fault>>

TerminalGreeted(w) ==
  /\ Running /\ pc[w] = "greeting"
  /\ Finished(frame[w][Greeting])
  /\ cliMutex' = None
  /\ Goto(w, "copy")
  /\ UNCHANGED <<feedVars, listed, copy, socketVars, SerMutex, sbMutex, fault>>

\* The text is taken out of the history.
TerminalCopy_Emptied(w) ==
  /\ Running /\ pc[w] = "copy"
  /\ sbMutex = None /\ sbMutex' = w
  /\ copy' = [copy EXCEPT ![w] = stored]
  /\ stored' = {}
  /\ Goto(w, "status")
  /\ UNCHANGED <<reader, read, listed, socketVars, SerMutex, cliMutex, fault>>

TerminalCopy(w) ==
  /\ Running /\ pc[w] = "copy"
  /\ sbMutex = None /\ sbMutex' = w
  /\ copy' = [copy EXCEPT ![w] = stored]
  /\ Goto(w, "status")
  /\ UNCHANGED <<feedVars, listed, socketVars, SerMutex, cliMutex, fault>>

SendStatusAndHistory(w) ==
  /\ Goto(w, IF copy[w] = {} THEN "start" ELSE "history")
  /\ frame' = [c \in Clients |-> [m \in Messages |->
       IF \/ m = w /\ c \in listed
          \/ m = History /\ c = w /\ copy[w] # {}
       THEN "begin" ELSE frame[c][m]]]

\* The return for an empty history forgets sbMutex.
TerminalStatus_Locked(w) ==
  /\ Running /\ pc[w] = "status"
  /\ cliMutex = None
  /\ sbMutex' = IF copy[w] = {} THEN sbMutex ELSE None
  /\ SendStatusAndHistory(w)
  /\ UNCHANGED <<feedVars, listed, copy, lock, conn, SerMutex, cliMutex, fault>>

\* The status goes to all clients, and then the history to this one.
TerminalStatus(w) ==
  /\ Running /\ pc[w] = "status"
  /\ cliMutex = None
  /\ sbMutex' = None
  /\ SendStatusAndHistory(w)
  /\ UNCHANGED <<feedVars, listed, copy, lock, conn, SerMutex, cliMutex, fault>>

-----------------------------------------------------------------------------
(* What a controller and a terminal have in common.                        *)

HistorySent(c) ==
  /\ Running /\ pc[c] = "history"
  /\ Finished(frame[c][History])
  /\ Goto(c, "start")
  /\ UNCHANGED <<feedVars, listed, copy, socketVars, mutexes, fault>>

\* The reader thread runs, and SerMutex is released.
Attached(c) ==
  /\ Running /\ pc[c] = "start"
  /\ SerMutex' = None
  /\ Goto(c, "reading")
  /\ UNCHANGED <<feedVars, listed, copy, socketVars, cliMutex, sbMutex, fault>>

\* The connection breaks: sending fails from now on.
Break(c) ==
  /\ Running /\ conn[c] = "open" /\ Exists(c)
  /\ conn' = [conn EXCEPT ![c] = "broken"]
  /\ UNCHANGED <<feedVars, clientVars, frame, lock, mutexes, fault>>

\* The peer closed or the connection broke; a controller shuts its socket down.
ReadEnds(c) ==
  /\ Running /\ pc[c] = "reading"
  /\ Goto(c, "removing")
  /\ conn' = IF c \in Controllers THEN [conn EXCEPT ![c] = "broken"] ELSE conn
  /\ UNCHANGED <<feedVars, listed, copy, frame, lock, mutexes, fault>>

\* The client is deleted and stays in the list.
Leave_Listed(c) ==
  /\ Running /\ pc[c] = "removing"
  /\ cliMutex = None
  /\ conn' = [conn EXCEPT ![c] = "broken"]
  /\ Goto(c, "gone")
  /\ UNCHANGED <<feedVars, listed, copy, frame, lock, mutexes, fault>>

\* Server::remove, and the client is deleted.
Leave(c) ==
  /\ Running /\ pc[c] = "removing"
  /\ cliMutex = None
  /\ listed' = listed \ {c}
  /\ conn' = [conn EXCEPT ![c] = "broken"]
  /\ Goto(c, "gone")
  /\ UNCHANGED <<feedVars, copy, frame, lock, mutexes, fault>>

-----------------------------------------------------------------------------
ServerRead == AppendPiece \/ BroadcastPiece

ControllerStep(c) == ControllerGreet(c) \/ ControllerList(c) \/ ControllerCopy(c)

TerminalStep(w) ==
  \/ TerminalTryLock(w) \/ TerminalList(w) \/ TerminalGreeted(w)
  \/ TerminalCopy(w) \/ TerminalStatus(w)

ClientStep(c) ==
  \/ c \in Controllers /\ ControllerStep(c)
  \/ c \in Terminals /\ TerminalStep(c)
  \/ HistorySent(c) \/ Attached(c) \/ Leave(c)

Next ==
  \/ ReadPiece \/ ServerRead
  \/ \E c \in Clients : ClientStep(c) \/ Break(c) \/ ReadEnds(c)
  \/ \E c \in Clients, m \in Messages :
       WriteHead(c, m) \/ WriteBody(c, m) \/ WriteFreed(c, m)

Spec == Init /\ [][Next]_vars

\* A send to c comes to an end: the peer reads, or there was next to nothing
\* in the buffers of its young connection, or the connection is broken.
Sendable(c) == c \in Patient \/ Attaching(c) \/ conn[c] = "broken"

\* One of the threads that write to c goes on.
WriteStep(c) ==
  Sendable(c) /\ \E m \in Messages : WriteHead(c, m) \/ WriteBody(c, m)

(***************************************************************************)
(* The threads of the manager make their next step when they can.  A send  *)
(* to a client that has stopped reading may block for ever.                *)
(***************************************************************************)
Fairness ==
  /\ WF_vars(ServerRead)
  /\ \A c \in Clients : WF_vars(ClientStep(c)) /\ WF_vars(WriteStep(c))

FairSpec == Spec /\ Fairness

-----------------------------------------------------------------------------
(* Safety. *)

\* Every variable has the type of the field, list or lock it stands for; outside the
\* sections of Server::add that write while they have a lock, it is free.
TypeOK ==
  /\ reader \in {"recv", "append", "broadcast"}
  /\ read \in 0..MaxPieces
  /\ stored \subseteq Pieces
  /\ pc \in [Clients -> ClientPhases]
  /\ listed \subseteq Clients
  /\ copy \in [Clients -> SUBSET Pieces]
  /\ frame \in [Clients -> [Messages -> FramePhases]]
  /\ lock \in [Clients -> Messages \cup {None}]
  /\ conn \in [Clients -> {"open", "broken"}]
  /\ SerMutex \in Clients \cup {None}
  /\ cliMutex \in {w \in Terminals : pc[w] = "greeting"} \cup {None}
  /\ sbMutex \in {w \in Terminals : pc[w] = "status"} \cup {None}
  /\ fault \in {"none", "freedClient"}

\* Between the head and the body of a frame nobody else writes to the socket
\* of a client, with all the threads that Broadcast detached for it.
FramesWhole ==
  \A c \in Clients : \A m, n \in Messages :
    frame[c][m] = "body" /\ frame[c][n] = "body" => m = n

\* The first thing that a client gets is its OK or TOK: no thread of a
\* broadcast overtakes it, although the client is in the list already when the
\* TOK is written.
GreetingFirst ==
  \A c \in Clients : \A m \in Messages \ {Greeting} :
    frame[c][m] \in {"body", "sent"} => frame[c][Greeting] = "sent"

\* There is no gap between the history that a client took and the feed: what
\* is in the history by now was in its copy, or has a thread that brings it, or
\* is about to be broadcast to it.
NoGap ==
  \A c \in listed : pc[c] \in {"history", "start", "reading"} =>
    /\ \A n \in stored :
         n \in copy[c] \/ frame[c][n] # "none" \/ (n = read /\ reader = "broadcast")
    /\ copy[c] # {} => frame[c][History] # "none"

-----------------------------------------------------------------------------
(* Steps and progress. *)

\* Broadcast starts no thread for a client that was deleted.
StartedForLiving ==
  \A c \in Clients : \A m \in Messages :
    frame[c][m] = "none" /\ frame'[c][m] # "none" => Exists(c)

WritersOfLiving == [][StartedForLiving]_vars

\* Clients that do not read, break or leave never hold up server_read: it gets
\* back to recv, though it shares cliMutex with a terminal that is greeted and
\* sbMutex with one that waits for cliMutex.
FeedNotHeld == reader # "recv" ~> (reader = "recv" \/ ~Running)

\* A client that is being added comes out of SerMutex, unless the head of a
\* frame to it failed and left its writeMutex locked.
AttachEnds ==
  \A c \in Clients : Attaching(c) ~> (~Attaching(c) \/ Stuck(c) \/ ~Running)

-----------------------------------------------------------------------------
(* Refinement. *)

Written == stored \cup (1..IF reader = "recv" THEN read ELSE read - 1)

Members == {c \in listed : Running /\ conn[c] = "open" /\ pc[c] # "removing"}

OwedTo(c) ==
  IF c \in Members THEN stored \cup {n \in Pieces : frame[c][n] # "none"} ELSE {}

GotBy(c) ==
  IF c \in Members
  THEN {n \in Pieces : \/ frame[c][n] = "sent"
                       \/ frame[c][History] = "sent" /\ n \in copy[c]}
  ELSE {}

Promise ==
  INSTANCE FeedPromise WITH
    written <- Written, kept <- stored, member <- Members,
    owed <- [c \in Clients |-> OwedTo(c)], got <- [c \in Clients |-> GotBy(c)]

\* A client that is connected gets the text from the start of its history on,
\* every piece of it if it goes on reading, and nothing else.
ImplementsFeedPromise == Promise!FairSpec

=============================================================================
