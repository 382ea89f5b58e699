---------------------------- MODULE ServerRegistry ----------------------------
(***************************************************************************)
(* The manager's registry of game servers and the life of the objects that *)
(* hang off it: one thread per accepted connection, which turns into a     *)
(* game server (SER), a controller (CTL) or a browser terminal (WebSocket).*)
(*                                                                         *)
(*   SerList   map<int,Server*>     guarded by the global lock SerMutex    *)
(*   CTLList   Server::CTLList      guarded by that Server's cliMutex      *)
(*   WSList    Server::WSList       guarded by that Server's cliMutex      *)
(*                                                                         *)
(* A Server object is identified with the connection that created it, and  *)
(* likewise a Controller or WebSocket object.  SerMutex is a variable      *)
(* because the Server destructor, the Controller constructor and           *)
(* terminalAccess hold it across several steps.  A section of cliMutex     *)
(* only walks a list, so each is one action, and so is a section of        *)
(* SerMutex that only looks an id up or inserts one.                       *)
(***************************************************************************)

CONSTANTS
  ServerConns,       \* connections that announce themselves with "SER"
  ControllerConns,   \* connections that announce themselves with "CTL"
  TerminalConns,     \* WebSocket connections to /ws
  SerIDs,            \* server instance ids
  UsrIDs,            \* user ids
  None               \* no thread, no object, no id

Clients == ControllerConns \cup TerminalConns
Conns   == ServerConns \cup Clients

ASSUME ConnAssumption ==
  /\ ServerConns \cap Clients = {}
  /\ ControllerConns \cap TerminalConns = {}
  /\ None \notin Conns \cup SerIDs \cup UsrIDs

VARIABLES
  pc,             \* where the thread of each connection stands
  sid, uid,       \* SerID and UsrID a connection announced
  SerMutex,       \* owner of the global lock, None when it is free
  SerList,        \* SerIDs -> Server object
  CTLList,        \* Server object -> its controllers
  WSList,         \* Server object -> its terminals
  ser,            \* the Server a controller or terminal points to
  shut,           \* the socket was shut down by the Server's destructor
  fault,          \* the undefined behaviour the process ran into, if any
  foreignUnlock   \* history: some thread released SerMutex without owning it

vars == <<pc, sid, uid, SerMutex, SerList, CTLList, WSList, ser, shut,
          fault, foreignUnlock>>

lists    == <<CTLList, WSList>>
identity == <<sid, uid>>

ServerPhases == {"idle", "checkID", "readUsr", "construct", "greet",
                 "serving", "destroy", "closing", "waiting", "erase"}
ClientPhases == {"idle", "checkID", "readUsr", "construct", "tryLock",
                 "busy", "forbidden", "lookup", "attach", "start", "reading",
                 "forwarding", "leaving", "removing"}

Faults == {"none", "nullServer", "wildThread", "freedServer"}

(***************************************************************************)
(* The Server object exists from its constructor's insert to the end of    *)
(* its destructor, and its destructor holds SerMutex in three phases.      *)
(***************************************************************************)
AlivePhases == {"greet", "serving", "destroy", "closing", "waiting", "erase"}
Destroying  == {"closing", "waiting", "erase"}
Serving     == {"start", "reading", "forwarding", "leaving", "removing"}

Alive(s) == pc[s] \in AlivePhases

\* The threads inside a section of SerMutex that spans several steps.
InSection(t) == IF t \in ServerConns THEN pc[t] \in Destroying
                                     ELSE pc[t] \in {"lookup", "attach", "start"}

\* Variant: the lock is taken without waiting for its owner.
Lock_NotWaiting(t) == SerMutex' = t

Lock(t) == SerMutex = None /\ SerMutex' = t
Unlock  == SerMutex' = None

Running   == fault = "none"
Goto(t, phase) == pc' = [pc EXCEPT ![t] = phase]

\* The thread of t ends and its connection slot is free for another peer.
HangUp(t) ==
  /\ Goto(t, "idle")
  /\ sid' = [sid EXCEPT ![t] = None]
  /\ uid' = [uid EXCEPT ![t] = None]

\* ... and its controller or terminal object is gone.
Detach(c) ==
  /\ HangUp(c)
  /\ ser' = [ser EXCEPT ![c] = None]
  /\ shut' = [shut EXCEPT ![c] = FALSE]

Fail(what) ==
  /\ fault' = what
  /\ UNCHANGED <<pc, sid, uid, SerMutex, SerList, CTLList, WSList, ser, shut,
                 foreignUnlock>>

Init ==
  /\ pc = [t \in Conns |-> "idle"]
  /\ sid = [t \in Conns |-> None]
  /\ uid = [t \in Conns |-> None]
  /\ SerMutex = None
  /\ SerList = [i \in SerIDs |-> None]
  /\ CTLList = [s \in ServerConns |-> {}]
  /\ WSList = [s \in ServerConns |-> {}]
  /\ ser = [c \in Clients |-> None]
  /\ shut = [c \in Clients |-> FALSE]
  /\ fault = "none"
  /\ foreignUnlock = FALSE

-----------------------------------------------------------------------------
(* Accepting a connection and reading its request.                         *)
(* A definition Name_Bug is Name with a bug that its code could have had;  *)
(* it is part of no behaviour and serves to see which property notices.    *)

\* A game server taken for a terminal.
FirstPhase_Misrouted(t) == IF t \in ControllerConns THEN "checkID" ELSE "tryLock"

\* Where the first bytes of a connection lead.
FirstPhase(t) == IF t \in TerminalConns THEN "tryLock" ELSE "checkID"

\* A slot that named a Server object is reused only when no pointer to that
\* object is left, so that an object keeps one identity in the model.
Accept(t) ==
  /\ Running /\ pc[t] = "idle"
  /\ \A c \in Clients : ser[c] # t
  /\ \E i \in SerIDs, u \in UsrIDs :
       /\ sid' = [sid EXCEPT ![t] = i]
       /\ uid' = [uid EXCEPT ![t] = u]
  /\ Goto(t, FirstPhase(t))
  /\ UNCHANGED <<SerMutex, SerList, lists, ser, shut, fault, foreignUnlock>>

\* A game server needs a free SerID, a controller one that is taken.
Admissible(t) == (t \in ServerConns) <=> (SerList[sid[t]] = None)

CheckSerID(t) ==
  /\ Running /\ pc[t] = "checkID"
  /\ SerMutex = None
  /\ \/ Admissible(t) /\ Goto(t, "readUsr") /\ UNCHANGED identity
     \/ ~Admissible(t) /\ HangUp(t)      \* SERID_EXIST, SERID_UNEXIST
  /\ UNCHANGED <<SerMutex, SerList, lists, ser, shut, fault, foreignUnlock>>

\* The second recv runs without the lock; the peer may close or send garbage.
ReadUsrID(t) ==
  /\ Running /\ pc[t] = "readUsr"
  /\ \/ Goto(t, "construct") /\ UNCHANGED identity
     \/ HangUp(t)                        \* USRID_FORMAT_INCOREET
  /\ UNCHANGED <<SerMutex, SerList, lists, ser, shut, fault, foreignUnlock>>

-----------------------------------------------------------------------------
(* Game server: constructor, greeting, reader, destructor. *)

\* SerList[SerID] = this instead of insert.
ServerConstruct_Overwrites(s) ==
  /\ Running /\ pc[s] = "construct"
  /\ SerMutex = None
  /\ SerList' = [SerList EXCEPT ![sid[s]] = s]
  /\ Goto(s, "greet")
  /\ UNCHANGED <<identity, SerMutex, lists, ser, shut, fault, foreignUnlock>>

\* map::insert leaves an entry that is already there untouched.
ServerConstruct(s) ==
  /\ Running /\ pc[s] = "construct"
  /\ SerMutex = None
  /\ SerList' = IF SerList[sid[s]] = None
                  THEN [SerList EXCEPT ![sid[s]] = s] ELSE SerList
  /\ Goto(s, "greet")
  /\ UNCHANGED <<identity, SerMutex, lists, ser, shut, fault, foreignUnlock>>

\* server_join writes OK; by now the Server is listed and may have clients.
ServerGreet(s) ==
  /\ Running /\ pc[s] = "greet"
  /\ Goto(s, "serving")
  /\ UNCHANGED <<identity, SerMutex, SerList, lists, ser, shut, fault,
                 foreignUnlock>>

\* The peer closed, or sent a frame that server_read gives up on.
ServerReadEnds(s) ==
  /\ Running /\ pc[s] = "serving"
  /\ Goto(s, "destroy")
  /\ UNCHANGED <<identity, SerMutex, SerList, lists, ser, shut, fault,
                 foreignUnlock>>

DestroyLock(s) ==
  /\ Running /\ pc[s] = "destroy"
  /\ Lock(s)
  /\ Goto(s, "closing")
  /\ UNCHANGED <<identity, SerList, lists, ser, shut, fault, foreignUnlock>>

DestroyShutdown(s) ==
  /\ Running /\ pc[s] = "closing"
  /\ shut' = [c \in Clients |-> shut[c] \/ c \in CTLList[s] \cup WSList[s]]
  /\ Goto(s, "waiting")
  /\ UNCHANGED <<identity, SerMutex, SerList, lists, ser, fault,
                 foreignUnlock>>

\* The destructor does not wait at all.
DestroyWait_NotWaiting(s) ==
  /\ Running /\ pc[s] = "waiting"
  /\ Goto(s, "erase")
  /\ UNCHANGED <<identity, SerMutex, SerList, lists, ser, shut, fault,
                 foreignUnlock>>

\* The loop runs while either list has members (|| for &&).
DestroyWait_BothLists(s) ==
  /\ Running /\ pc[s] = "waiting"
  /\ CTLList[s] = {} /\ WSList[s] = {}
  /\ Goto(s, "erase")
  /\ UNCHANGED <<identity, SerMutex, SerList, lists, ser, shut, fault,
                 foreignUnlock>>

\* The loop runs while both lists have members.
DestroyWait(s) ==
  /\ Running /\ pc[s] = "waiting"
  /\ CTLList[s] = {} \/ WSList[s] = {}
  /\ Goto(s, "erase")
  /\ UNCHANGED <<identity, SerMutex, SerList, lists, ser, shut, fault,
                 foreignUnlock>>

\* The entry stays in the registry.
DestroyErase_KeepsEntry(s) ==
  /\ Running /\ pc[s] = "erase"
  /\ Unlock
  /\ CTLList' = [CTLList EXCEPT ![s] = {}]
  /\ WSList' = [WSList EXCEPT ![s] = {}]
  /\ HangUp(s)
  /\ UNCHANGED <<SerList, ser, shut, fault, foreignUnlock>>

\* The entry is erased by key, whichever Server it holds, and the memory goes.
DestroyErase(s) ==
  /\ Running /\ pc[s] = "erase"
  /\ SerList' = [SerList EXCEPT ![sid[s]] = None]
  /\ Unlock
  /\ CTLList' = [CTLList EXCEPT ![s] = {}]
  /\ WSList' = [WSList EXCEPT ![s] = {}]
  /\ HangUp(s)
  /\ UNCHANGED <<ser, shut, fault, foreignUnlock>>

-----------------------------------------------------------------------------
(* Controller: constructor, reader, destructor. *)

\* SerList[SerID] is dereferenced whether or not the entry is still there.
ControllerConstruct(c) ==
  /\ Running /\ pc[c] = "construct"
  /\ SerMutex = None
  /\ LET s == SerList[sid[c]] IN
       \/ s = None /\ Fail("nullServer")
       \/ /\ s # None /\ uid[s] # uid[c]
          /\ Goto(c, "forbidden")
          /\ UNCHANGED <<identity, SerMutex, SerList, lists, ser, shut, fault,
                         foreignUnlock>>
       \/ /\ s # None /\ uid[s] = uid[c]
          /\ Lock(c)
          /\ ser' = [ser EXCEPT ![c] = s]
          /\ Goto(c, "attach")
          /\ UNCHANGED <<identity, SerList, lists, shut, fault, foreignUnlock>>

\* controller_join joins th2, which a refused Controller never set.
ControllerForbidden(c) ==
  /\ Running /\ pc[c] = "forbidden"
  /\ Fail("wildThread")

ControllerAttach(c) ==
  /\ Running /\ pc[c] = "attach"
  /\ \/ ~Alive(ser[c]) /\ Fail("freedServer")
     \/ /\ Alive(ser[c])
        /\ CTLList' = [CTLList EXCEPT ![ser[c]] = @ \cup {c}]
        /\ Goto(c, "start")
        /\ UNCHANGED <<identity, SerMutex, SerList, WSList, ser, shut, fault,
                       foreignUnlock>>

\* The controller stays in the list of its Server.
ControllerLeave_StaysListed(c) ==
  /\ Running /\ pc[c] = "leaving"
  /\ Detach(c)
  /\ UNCHANGED <<SerMutex, SerList, lists, fault, foreignUnlock>>

ControllerLeave(c) ==
  /\ Running /\ pc[c] = "leaving"
  /\ \/ ~Alive(ser[c]) /\ Fail("freedServer")
     \/ /\ Alive(ser[c])
        /\ CTLList' = [CTLList EXCEPT ![ser[c]] = @ \ {c}]
        /\ Detach(c)
        /\ UNCHANGED <<SerMutex, SerList, WSList, fault, foreignUnlock>>

-----------------------------------------------------------------------------
(* Browser terminal: terminalAccess. *)

\* When try_lock fails the thread unlocks all the same, whoever owns the lock
\* by then, and gives up.
TerminalBusy(w) ==
  /\ Running /\ pc[w] = "tryLock"
  /\ SerMutex # None
  /\ Goto(w, "busy")
  /\ UNCHANGED <<identity, SerMutex, SerList, lists, ser, shut, fault,
                 foreignUnlock>>

TerminalUnlock(w) ==
  /\ Running /\ pc[w] = "busy"
  /\ Unlock
  /\ foreignUnlock' = TRUE
  /\ HangUp(w)
  /\ UNCHANGED <<SerList, lists, ser, shut, fault>>

\* The creator of the server is not compared.
checkID_AnyUser(i, u) == SerList[i] # None

checkID(i, u) == SerList[i] # None /\ uid[SerList[i]] = u

TerminalCheck(w) ==
  /\ Running /\ pc[w] = "tryLock"
  /\ SerMutex = None
  /\ \/ /\ checkID(sid[w], uid[w])
        /\ Lock(w)
        /\ Goto(w, "lookup")
        /\ UNCHANGED identity
     \/ /\ ~checkID(sid[w], uid[w])
        /\ HangUp(w)
        /\ UNCHANGED SerMutex
  /\ UNCHANGED <<SerList, lists, ser, shut, fault, foreignUnlock>>

\* The registry is read once more, under a lock that another terminal may have
\* released since; without an entry operator[] makes a null one.
TerminalLookup(w) ==
  /\ Running /\ pc[w] = "lookup"
  /\ LET s == SerList[sid[w]] IN
       \/ s = None /\ Fail("nullServer")
       \/ /\ s # None
          /\ ser' = [ser EXCEPT ![w] = s]
          /\ Goto(w, "attach")
          /\ UNCHANGED <<identity, SerMutex, SerList, lists, shut, fault, foreignUnlock>>

TerminalAttach(w) ==
  /\ Running /\ pc[w] = "attach"
  /\ \/ ~Alive(ser[w]) /\ Fail("freedServer")
     \/ /\ Alive(ser[w])
        /\ WSList' = [WSList EXCEPT ![ser[w]] = @ \cup {w}]
        /\ Goto(w, "start")
        /\ UNCHANGED <<identity, SerMutex, SerList, CTLList, ser, shut, fault,
                       foreignUnlock>>

\* A terminal that finds itself closed by the destructor (isClose) leaves the
\* list alone.
TerminalLeave(w) ==
  /\ Running /\ pc[w] = "leaving"
  /\ \/ ~shut[w] /\ Goto(w, "removing") /\ UNCHANGED <<identity, ser, shut>>
     \/ /\ shut[w]
        /\ Detach(w)
  /\ UNCHANGED <<SerMutex, SerList, lists, fault, foreignUnlock>>

TerminalRemove(w) ==
  /\ Running /\ pc[w] = "removing"
  /\ \/ ~Alive(ser[w]) /\ Fail("freedServer")
     \/ /\ Alive(ser[w])
        /\ WSList' = [WSList EXCEPT ![ser[w]] = @ \ {w}]
        /\ Detach(w)
        /\ UNCHANGED <<SerMutex, SerList, CTLList, fault, foreignUnlock>>

-----------------------------------------------------------------------------
(* What a controller and a terminal have in common. *)

\* History has been sent, the reader thread runs, SerMutex is released.
ClientStart(c) ==
  /\ Running /\ pc[c] = "start"
  /\ Unlock
  /\ Goto(c, "reading")
  /\ UNCHANGED <<identity, SerList, lists, ser, shut, fault, foreignUnlock>>

\* writeSocketData to the game server, for a command from the peer: the write
\* returns when the game server reads or its connection breaks, and not before.
ClientForward(c) ==
  /\ Running /\ pc[c] = "reading"
  /\ \/ ~Alive(ser[c]) /\ Fail("freedServer")
     \/ /\ Alive(ser[c])
        /\ Goto(c, "forwarding")
        /\ UNCHANGED <<identity, SerMutex, SerList, lists, ser, shut, fault,
                       foreignUnlock>>

\* protocols_route shuts the socket of a Server that is gone, and the netIOMutex
\* that is then unlocked went with it.
ForwardEnds(c) ==
  /\ Running /\ pc[c] = "forwarding"
  /\ \/ ~Alive(ser[c]) /\ Fail("freedServer")
     \/ /\ Alive(ser[c])
        /\ Goto(c, "reading")
        /\ UNCHANGED <<identity, SerMutex, SerList, lists, ser, shut, fault,
                       foreignUnlock>>

\* The peer closed, or the destructor shut the socket down.
ClientReadEnds(c) ==
  /\ Running /\ pc[c] = "reading"
  /\ Goto(c, "leaving")
  /\ UNCHANGED <<identity, SerMutex, SerList, lists, ser, shut, fault,
                 foreignUnlock>>

\* The operator starts the manager again after it died.
Restart ==
  /\ ~Running
  /\ pc' = [t \in Conns |-> "idle"]
  /\ sid' = [t \in Conns |-> None]
  /\ uid' = [t \in Conns |-> None]
  /\ SerMutex' = None
  /\ SerList' = [i \in SerIDs |-> None]
  /\ CTLList' = [s \in ServerConns |-> {}]
  /\ WSList' = [s \in ServerConns |-> {}]
  /\ ser' = [c \in Clients |-> None]
  /\ shut' = [c \in Clients |-> FALSE]
  /\ fault' = "none"
  /\ foreignUnlock' = FALSE

ServerStep(s) ==
  \/ ServerConstruct(s) \/ ServerGreet(s) \/ ServerReadEnds(s)
  \/ DestroyLock(s) \/ DestroyShutdown(s) \/ DestroyWait(s) \/ DestroyErase(s)

ControllerStep(c) ==
  \/ ControllerConstruct(c) \/ ControllerForbidden(c)
  \/ ControllerAttach(c) \/ ControllerLeave(c)

TerminalStep(w) ==
  \/ TerminalBusy(w) \/ TerminalUnlock(w) \/ TerminalCheck(w) \/ TerminalLookup(w)
  \/ TerminalAttach(w) \/ TerminalLeave(w) \/ TerminalRemove(w)

Next ==
  \/ \E t \in Conns : Accept(t)
  \/ \E t \in ServerConns \cup ControllerConns : CheckSerID(t) \/ ReadUsrID(t)
  \/ \E s \in ServerConns : ServerStep(s)
  \/ \E c \in ControllerConns : ControllerStep(c)
  \/ \E w \in TerminalConns : TerminalStep(w)
  \/ \E c \in Clients :
       ClientStart(c) \/ ClientForward(c) \/ ForwardEnds(c) \/ ClientReadEnds(c)
  \/ Restart

\* What the thread of a client does without waiting for its peer, for SerMutex or
\* for the game server.
ClientGoesOn(c) ==
  \/ c \in ControllerConns /\ (ControllerAttach(c) \/ ControllerLeave(c))
  \/ c \in TerminalConns /\ (TerminalLookup(c) \/ TerminalAttach(c) \/ TerminalLeave(c))
  \/ ClientStart(c)

(***************************************************************************)
(* A runnable thread that waits neither for its peer nor for SerMutex      *)
(* makes its next step.  The recv of a client that was shut down returns   *)
(* what had come before, which may be forwarded, and then nothing: it ends *)
(* if it is called again and again, hence the strong fairness.  Less is    *)
(* assumed: that not all destructors, nor all clients, stand still for     *)
(* ever.  Nothing is assumed of a write to a game server (ForwardEnds).    *)
(* Server::add is a step here that ends; ConsoleFeed (AttachEnds) has the  *)
(* frames it writes and the one case where it does not.                    *)
(***************************************************************************)
Fairness ==
  /\ WF_vars(\E s \in ServerConns :
               DestroyShutdown(s) \/ DestroyWait(s) \/ DestroyErase(s))
  /\ WF_vars(\E c \in Clients : ClientGoesOn(c))
  /\ SF_vars(\E c \in Clients : shut[c] /\ ClientReadEnds(c))

Spec == Init /\ [][Next]_vars

FairSpec == Spec /\ Fairness

-----------------------------------------------------------------------------
(* Safety. *)

\* Every variable has the type of the field or global it stands for.
TypeOK ==
  /\ pc \in [Conns -> ServerPhases \cup ClientPhases]
  /\ \A s \in ServerConns : pc[s] \in ServerPhases
  /\ \A c \in Clients : pc[c] \in ClientPhases
  /\ sid \in [Conns -> SerIDs \cup {None}]
  /\ uid \in [Conns -> UsrIDs \cup {None}]
  /\ SerMutex \in Conns \cup {None}
  /\ SerList \in [SerIDs -> ServerConns \cup {None}]
  /\ CTLList \in [ServerConns -> SUBSET ControllerConns]
  /\ WSList \in [ServerConns -> SUBSET TerminalConns]
  /\ ser \in [Clients -> ServerConns \cup {None}]
  /\ shut \in [Clients -> BOOLEAN]
  /\ fault \in Faults
  /\ foreignUnlock \in BOOLEAN

\* A connection in use has announced an id and a user, and a client from the
\* lookup of its Server to the end holds a pointer to it.
Announced ==
  /\ \A t \in Conns : pc[t] # "idle" => sid[t] \in SerIDs /\ uid[t] \in UsrIDs
  /\ \A c \in Clients :
       pc[c] \in Serving \cup {"attach"} <=> ser[c] \in ServerConns

\* The slot of a deleted Server stays empty while a pointer to it is left.
SlotKept ==
  \A c \in Clients : ser[c] # None => pc[ser[c]] \in AlivePhases \cup {"idle"}

\* Who is listed is served; only the terminals of a Server that has shut its
\* clients down may be gone already, and a shut client has such a Server.
Listing ==
  /\ \A s \in ServerConns : ~Alive(s) => CTLList[s] = {} /\ WSList[s] = {}
  /\ \A s \in ServerConns : \A c \in CTLList[s] : ser[c] = s /\ pc[c] \in Serving
  /\ \A s \in ServerConns : pc[s] \notin {"waiting", "erase"} =>
       \A w \in WSList[s] : ser[w] = s /\ pc[w] \in Serving
  /\ \A c \in Clients : shut[c] =>
       pc[c] \in Serving /\ pc[ser[c]] \in {"waiting", "erase", "idle"}

\* As long as nobody released the lock for somebody else, its owner is exactly
\* the one thread inside a destructor, a Controller constructor or the
\* attaching part of terminalAccess.
SerMutexOwner ==
  ~foreignUnlock => \A t \in Conns : InSection(t) <=> SerMutex = t

\* The registry never leads to a deleted Server or to one with another id,
\* even though a destructor erases the entry of its id without looking whose
\* it is, and even when SerMutex has been released by a stranger.
NoDanglingEntry ==
  \A i \in SerIDs : \A s \in ServerConns :
    SerList[i] = s => Alive(s) /\ sid[s] = i

\* Whoever a Server would broadcast to is a controller or terminal that points
\* back at it and is still being served when it is handed to a thread that
\* writes.  A closed terminal stays listed while the destructor runs.
ListedClientsServed ==
  \A s \in ServerConns : \A c \in CTLList[s] \cup WSList[s] :
    (c \in ControllerConns \/ pc[s] \notin Destroying) =>
      ser[c] = s /\ pc[c] \in Serving

\* A controller or terminal only ever reaches a Server of the id and the user it
\* announced, although the slot of the id may have changed hands since it was
\* checked.  A terminal checks the user before it looks the Server up again, and
\* then has SerMutex to thank for it: no stranger may have released it.
AttachedSameUser ==
  \A c \in Clients :
    ser[c] # None /\ Alive(ser[c]) =>
      /\ sid[c] = sid[ser[c]]
      /\ c \in ControllerConns \/ ~foreignUnlock => uid[c] = uid[ser[c]]

\* What makes it so: the entry that a terminal has checked stays until it is read.
CheckStands ==
  ~foreignUnlock =>
    \A w \in TerminalConns : pc[w] = "lookup" => checkID(sid[w], uid[w])

\* The destructor frees the object only after one of the two lists drained,
\* and nobody joins in the meantime.
HalfDrained ==
  \A s \in ServerConns :
    pc[s] = "erase" /\ ~foreignUnlock => CTLList[s] = {} \/ WSList[s] = {}

-----------------------------------------------------------------------------
(* Steps. *)

\* No controller or terminal is added to a Server whose destructor has begun
\* to shut the listed ones down: it would be freed under the newcomer.
NoAdd ==
  \A s \in ServerConns :
    pc[s] \in Destroying /\ ~foreignUnlock =>
      CTLList'[s] \subseteq CTLList[s] /\ WSList'[s] \subseteq WSList[s]

NoLateAttach == [][NoAdd]_vars

\* Only the end of the Server that holds an id, or of a second Server that was
\* let in under the same id, takes the id out of the registry.
ErasedByNamesake ==
  \A i \in SerIDs :
    Running /\ SerList[i] # None /\ SerList'[i] # SerList[i] =>
      \E s \in ServerConns : sid[s] = i /\ pc[s] = "erase" /\ pc'[s] = "idle"

EntryErasedByNamesake == [][ErasedByNamesake]_vars

-----------------------------------------------------------------------------
(* Progress. *)

\* Whoever holds SerMutex for more than a step releases it, so that one server which
\* disconnects with controllers attached does not stop the manager.  It does stop it
\* while the destructor waits for a client whose write to the game server has not
\* returned, for ever if the game server neither reads nor closes.
SectionReleased ==
  SerMutex # None ~>
    \/ SerMutex = None \/ ~Running \/ foreignUnlock
    \/ \E c \in Clients : pc[c] = "forwarding" /\ ser[c] = SerMutex

-----------------------------------------------------------------------------
(* What a comment says, and the code does not do. *)

\* classFunDef.h:274, "wait until all controllers have disconnected".
AllControllersGone ==
  \A s \in ServerConns : pc[s] = "erase" => CTLList[s] = {}
=============================================================================
