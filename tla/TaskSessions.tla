----------------------------- MODULE TaskSessions -----------------------------
(***************************************************************************)
(* Task sessions of one Server object.  A handler of the web API (ls,      *)
(* fileUpload, getfile, fileRename, getBackups) takes one of max_task_count *)
(* slots, draws a task id, registers it and tells the game server, which   *)
(* opens a second connection and names the id.  The thread of that         *)
(* connection (taskStart) hands its socket to the handler through taskList *)
(* and then parks on the mutex of the handler's request until the handler  *)
(* is done with the socket.                                                *)
(*                                                                         *)
(*   cur         cur_task_count                                            *)
(*   taskList    map<int,SOCKET_T>, taskMutex  map<int,mutex*>             *)
(*   mutex[r]    the `new mutex` of request r, named by its request        *)
(*                                                                         *)
(* A request runs once and is answered by at most one connection, which    *)
(* bears its name: TaskSessions is bounded by the number of Requests.      *)
(* statMutex and SrcMutex guard single steps here, and are left out.       *)
(***************************************************************************)
EXTENDS Naturals, FiniteSets

CONSTANTS
  Requests,     \* HTTP requests, and the task connections they bring about
  Kinds,        \* which handlers the requests call
  TaskIDs,      \* the range of rand() % 99999 + 1
  MaxTasks,     \* max_task_count
  None,         \* no id, no entry
  Pending,      \* an entry of taskList that is still -1
  Stdin         \* an entry that operator[] made: descriptor 0

AllKinds == {"ls", "upload", "getfile", "rename", "backups"}

ASSUME TaskAssumption ==
  /\ IsFiniteSet(Requests)
  /\ Kinds \subseteq AllKinds
  /\ MaxTasks \in Nat
  /\ None \notin TaskIDs
  /\ {None, Pending, Stdin} \cap Requests = {}
  /\ Pending # None /\ Stdin # None /\ Pending # Stdin

VARIABLES
  phase,       \* where the handler of each request stands
  kind,        \* which handler it is
  id,          \* taskID it drew; kept when it is done
  sock,        \* what createTask returned
  end,         \* how its use of the session ended
  mutex,       \* its mutex
  conn,        \* where the taskStart thread of the connection stands
  peer,        \* what the game server did at its end of the connection
  parked,      \* whose mutex the taskStart thread waits for
  taskList, taskMutex,
  cur,
  fault        \* the undefined behaviour the process ran into, if any

requestVars == <<phase, kind, id, sock, end>>
connVars    == <<conn, peer, parked>>
tables      == <<taskList, taskMutex>>
vars        == <<requestVars, mutex, connVars, tables, cur, fault>>

Creating == {"slot", "draw", "register", "ask", "poll", "expire"}
Endless  == {"spin", "stuckAsk", "stuckUse"}
Phases   == Creating \cup Endless \cup {"idle", "use", "leave", "last", "done"}
ConnPhases == {"none", "asked", "connected", "waiting", "forget", "closed"}
Ends     == {"none", "refused", "failed", "done", "broken"}

Running == fault = "none"
Goto(r, p) == phase' = [phase EXCEPT ![r] = p]
Registered(i) == taskList[i] # None

Init ==
  /\ phase = [r \in Requests |-> "idle"]
  /\ kind = [r \in Requests |-> "none"]
  /\ id = [r \in Requests |-> None]
  /\ sock = [r \in Requests |-> None]
  /\ end = [r \in Requests |-> "none"]
  /\ mutex = [r \in Requests |-> "none"]
  /\ conn = [r \in Requests |-> "none"]
  /\ peer = [r \in Requests |-> "open"]
  /\ parked = [r \in Requests |-> None]
  /\ taskList = [i \in TaskIDs |-> None]
  /\ taskMutex = [i \in TaskIDs |-> None]
  /\ cur = 0
  /\ fault = "none"

-----------------------------------------------------------------------------
(* createTask, called by a handler.                                        *)
(* A definition Name_Bug is Name with a bug that its code could have had;  *)
(* it is part of no behaviour and serves to see which property notices.    *)

\* webAPI (or fileUpload) makes the mutex and locks it.
Start(r) ==
  /\ Running /\ phase[r] = "idle"
  /\ \E k \in Kinds : kind' = [kind EXCEPT ![r] = k]
  /\ mutex' = [mutex EXCEPT ![r] = "held"]
  /\ Goto(r, "slot")
  /\ UNCHANGED <<id, sock, end, connVars, tables, cur, fault>>

\* redTaskCount without its check: an unsigned counter would wrap around.
Lower_Unchecked == cur - 1

\* redTaskCount, which stops at zero.
Lower == IF cur > 0 THEN cur - 1 ELSE cur

\* createTask gives up: -2 without a slot, -1 otherwise.
Give(r, how) ==
  /\ end' = [end EXCEPT ![r] = how]
  /\ Goto(r, "leave")

IncTaskCount(r) ==
  /\ Running /\ phase[r] = "slot"
  /\ \/ cur < MaxTasks /\ cur' = cur + 1 /\ Goto(r, "draw") /\ UNCHANGED end
     \/ cur >= MaxTasks /\ Give(r, "refused") /\ UNCHANGED cur
  /\ UNCHANGED <<kind, id, sock, mutex, connVars, tables, fault>>

\* A description of more than 1000 bytes; ls passes length 1, getBackups 0.
TooLong(r) ==
  /\ Running /\ phase[r] = "draw"
  /\ kind[r] \notin {"ls", "backups"}
  /\ cur' = Lower
  /\ Give(r, "failed")
  /\ UNCHANGED <<kind, id, sock, mutex, connVars, tables, fault>>

\* Reads taskList without statMutex; while every id is taken it draws on.
DrawID(r) ==
  /\ Running /\ phase[r] = "draw"
  /\ \/ \E i \in TaskIDs :
          /\ ~Registered(i)
          /\ id' = [id EXCEPT ![r] = i]
          /\ Goto(r, "register")
     \/ (\A i \in TaskIDs : Registered(i)) /\ UNCHANGED <<id, phase>>
  /\ UNCHANGED <<kind, sock, end, mutex, connVars, tables, cur, fault>>

RegisterTask(r) ==
  /\ Running /\ phase[r] = "register"
  /\ taskList' = [taskList EXCEPT ![id[r]] = Pending]
  /\ taskMutex' = [taskMutex EXCEPT ![id[r]] = r]
  /\ Goto(r, "ask")
  /\ UNCHANGED <<kind, id, sock, end, mutex, connVars, cur, fault>>

\* The frame to the game server, whose loss goes unnoticed.
AskGameServer(r) ==
  /\ Running /\ phase[r] = "ask"
  /\ conn' = [conn EXCEPT ![r] = "asked"]
  /\ Goto(r, "poll")
  /\ UNCHANGED <<kind, id, sock, end, mutex, peer, parked, tables, cur, fault>>

\* The game server keeps its connection and reads no more: writeSocketData never
\* returns.  (If it does in the end, this is AskGameServer.)
AskStalls(r) ==
  /\ Running /\ phase[r] = "ask"
  /\ Goto(r, "stuckAsk")
  /\ UNCHANGED <<kind, id, sock, end, mutex, connVars, tables, cur, fault>>

\* taskList[taskID] makes an entry 0 where there is none any more.
PollHit(r) ==
  /\ Running /\ phase[r] = "poll"
  /\ taskList[id[r]] # Pending
  /\ LET s == IF Registered(id[r]) THEN taskList[id[r]] ELSE Stdin IN
       /\ taskList' = [taskList EXCEPT ![id[r]] = s]
       /\ sock' = [sock EXCEPT ![r] = s]
  /\ Goto(r, "use")
  /\ UNCHANGED <<kind, id, end, mutex, connVars, taskMutex, cur, fault>>

\* createTask waits for the game server without end.
PollTimeout_Never(r) == phase[r] = "timeout" /\ UNCHANGED vars

\* The last of 500 looks found nothing ...
PollTimeout(r) ==
  /\ Running /\ phase[r] = "poll"
  /\ taskList[id[r]] = Pending
  /\ Goto(r, "expire")
  /\ UNCHANGED <<kind, id, sock, end, mutex, connVars, tables, cur, fault>>

\* ... and in another section of statMutex the entry goes, whatever it holds.
Expire(r) ==
  /\ Running /\ phase[r] = "expire"
  /\ taskList' = [taskList EXCEPT ![id[r]] = None]
  /\ cur' = Lower
  /\ Give(r, "failed")
  /\ UNCHANGED <<kind, id, sock, mutex, connVars, taskMutex, fault>>

-----------------------------------------------------------------------------
(* What the handlers do with the session. *)

\* How the exchange can end, by handler and by what the game server did; the
\* browser may leave too.  fileUpload compares a size_t with 0, and fileRename
\* looks at no result.
Outcomes(k, p) ==
  (IF p = "done" THEN {"done"} ELSE {})
    \cup (IF k # "rename" THEN {"broken"} ELSE {})
    \cup (IF p = "gone" /\ k \in {"upload", "rename", "backups"}
            THEN {"done"} ELSE {})

PeerOf(s) == IF s \in Requests THEN peer[s] ELSE "gone"

Use(r) ==
  /\ Running /\ phase[r] = "use"
  /\ \E e \in Outcomes(kind[r], PeerOf(sock[r])) : Give(r, e)
  /\ UNCHANGED <<kind, id, sock, mutex, connVars, tables, cur, fault>>

\* Without a game server getBackups goes round for ever on an empty recv, and
\* fileUpload on a body that has ended early: the -1 of send, a size_t, counts as
\* sent.  (A loop that the browser ends is Use.)
Spin(r) ==
  /\ Running /\ phase[r] = "use"
  /\ kind[r] \in {"backups", "upload"} /\ PeerOf(sock[r]) = "gone"
  /\ Goto(r, "spin")
  /\ UNCHANGED <<kind, id, sock, end, mutex, connVars, tables, cur, fault>>

\* The sockets have no time-out and no keepalive: a handler waits for ever on a game
\* server that neither goes on nor closes, and on such a browser, to which only
\* fileRename sends no more than the socket holds.
UseStalls(r) ==
  /\ Running /\ phase[r] = "use"
  /\ PeerOf(sock[r]) = "open" \/ kind[r] # "rename"
  /\ Goto(r, "stuckUse")
  /\ UNCHANGED <<kind, id, sock, end, mutex, connVars, tables, cur, fault>>

\* An error path that returns without redTaskCount.
Releases_OnlyWhenDone(k, e) == {e = "done"}

\* Whether a handler calls redTaskCount at its end.  createTask has done so
\* already when it failed, and was refused a slot in the other early case.
Releases(k, e) ==
  IF k = "backups" /\ e = "refused" THEN BOOLEAN
  ELSE {\/ e = "done"
        \/ e = "broken" /\ k # "backups"
        \/ e \in {"failed", "refused"} /\ k \in {"getfile", "rename"}}

\* fileUpload unlocks the mutex first, the others leave that to webAPI.
UnlocksFirst(r) == kind[r] = "upload"

ReleaseSlot(r) ==
  /\ Running
  /\ \/ ~UnlocksFirst(r) /\ phase[r] = "leave" /\ Goto(r, "last")
     \/ UnlocksFirst(r) /\ phase[r] = "last" /\ Goto(r, "done")
  /\ \E b \in Releases(kind[r], end[r]) : cur' = IF b THEN Lower ELSE cur
  /\ UNCHANGED <<kind, id, sock, end, mutex, connVars, tables, fault>>

\* Every handler deletes its mutex, as fileUpload does in one case.
UnlockTask_Deletes(r) ==
  /\ Running
  /\ \/ UnlocksFirst(r) /\ phase[r] = "leave" /\ Goto(r, "last")
     \/ ~UnlocksFirst(r) /\ phase[r] = "last" /\ Goto(r, "done")
  /\ mutex' = [mutex EXCEPT ![r] = "deleted"]
  /\ UNCHANGED <<kind, id, sock, end, connVars, tables, cur, fault>>

\* An early return of a handler that timed out forgets the mutex.
UnlockTask_NotWhenFailed(r) ==
  /\ Running
  /\ \/ UnlocksFirst(r) /\ phase[r] = "leave" /\ Goto(r, "last")
     \/ ~UnlocksFirst(r) /\ phase[r] = "last" /\ Goto(r, "done")
  /\ mutex' = [mutex EXCEPT ![r] = IF end[r] = "failed" THEN @ ELSE "free"]
  /\ UNCHANGED <<kind, id, sock, end, connVars, tables, cur, fault>>

\* fileUpload deletes a mutex that was never registered.
UnlockTask(r) ==
  /\ Running
  /\ \/ UnlocksFirst(r) /\ phase[r] = "leave" /\ Goto(r, "last")
     \/ ~UnlocksFirst(r) /\ phase[r] = "last" /\ Goto(r, "done")
  /\ mutex' = [mutex EXCEPT ![r] =
                 IF kind[r] = "upload" /\ end[r] = "refused" THEN "deleted"
                                                             ELSE "free"]
  /\ UNCHANGED <<kind, id, sock, end, connVars, tables, cur, fault>>

-----------------------------------------------------------------------------
(* The game server's end, and taskStart. *)

\* startTask may fail, or come any time after the request.
Connect(c) ==
  /\ Running /\ conn[c] = "asked"
  /\ conn' = [conn EXCEPT ![c] = "connected"]
  /\ UNCHANGED <<requestVars, mutex, peer, parked, tables, cur, fault>>

\* The id is unknown, or the echo could not be sent.
JoinRefused(c) ==
  /\ Running /\ conn[c] = "connected"
  /\ conn' = [conn EXCEPT ![c] = "closed"]
  /\ UNCHANGED <<requestVars, mutex, peer, parked, tables, cur, fault>>

\* Echo, socket and mutex in one section of statMutex.  Where taskMutex has no
\* entry operator[] returns a null pointer.
Join(c) ==
  /\ Running /\ conn[c] = "connected"
  /\ Registered(id[c])
  /\ taskList' = [taskList EXCEPT ![id[c]] = c]
  /\ conn' = [conn EXCEPT ![c] = "waiting"]
  /\ parked' = [parked EXCEPT ![c] = taskMutex[id[c]]]
  /\ fault' = IF taskMutex[id[c]] = None THEN "deadMutex" ELSE fault
  /\ UNCHANGED <<requestVars, mutex, peer, taskMutex, cur>>

\* The thread does not wait for the handler.
Unpark_NotWaiting(c) ==
  /\ Running /\ conn[c] = "waiting"
  /\ mutex' = [mutex EXCEPT ![parked[c]] = "deleted"]
  /\ conn' = [conn EXCEPT ![c] = "forget"]
  /\ UNCHANGED <<requestVars, peer, parked, tables, cur, fault>>

\* lock, unlock, delete.
Unpark(c) ==
  /\ Running /\ conn[c] = "waiting"
  /\ LET m == parked[c] IN
       \/ /\ mutex[m] = "free"
          /\ mutex' = [mutex EXCEPT ![m] = "deleted"]
          /\ conn' = [conn EXCEPT ![c] = "forget"]
          /\ UNCHANGED fault
       \/ /\ mutex[m] = "deleted"
          /\ fault' = "deadMutex"
          /\ UNCHANGED <<mutex, conn>>
  /\ UNCHANGED <<requestVars, peer, parked, tables, cur>>

\* The last thing the thread does before protocols_route shuts the socket.
ForgetMutex(c) ==
  /\ Running /\ conn[c] = "forget"
  /\ taskMutex' = [taskMutex EXCEPT ![id[c]] = None]
  /\ conn' = [conn EXCEPT ![c] = "closed"]
  /\ UNCHANGED <<requestVars, mutex, peer, parked, taskList, cur, fault>>

\* The game server has sent its answer, or received the file and said OK.
PeerDone(c) ==
  /\ Running /\ conn[c] = "waiting" /\ peer[c] = "open"
  /\ kind[c] = "upload" => \E r \in Requests : phase[r] = "use" /\ sock[r] = c
  /\ peer' = [peer EXCEPT ![c] = "done"]
  /\ UNCHANGED <<requestVars, mutex, conn, parked, tables, cur, fault>>

\* It closed the connection early, or broke down.
PeerGone(c) ==
  /\ Running /\ conn[c] = "waiting" /\ peer[c] = "open"
  /\ peer' = [peer EXCEPT ![c] = "gone"]
  /\ UNCHANGED <<requestVars, mutex, conn, parked, tables, cur, fault>>

\* The game server leaves and a new Server object takes its place.  Handlers
\* and taskStart threads that still use the old one use freed memory.
UsesServer == \/ \E r \in Requests : phase[r] \in Creating \cup {"stuckAsk"}
              \/ \E c \in Requests : conn[c] \in {"waiting", "forget"}

ServerReplaced ==
  /\ Running
  /\ \/ UsesServer /\ fault' = "freedServer" /\ UNCHANGED tables
     \/ /\ ~UsesServer
        /\ taskList' = [i \in TaskIDs |-> None]
        /\ taskMutex' = [i \in TaskIDs |-> None]
        /\ UNCHANGED fault
  /\ UNCHANGED <<requestVars, mutex, connVars, cur>>

\* The manager is started again after it died or fell idle.
Restart ==
  /\ ~Running \/ \A r \in Requests : phase[r] = "done"
  /\ phase' = [r \in Requests |-> "idle"]
  /\ kind' = [r \in Requests |-> "none"]
  /\ id' = [r \in Requests |-> None]
  /\ sock' = [r \in Requests |-> None]
  /\ end' = [r \in Requests |-> "none"]
  /\ mutex' = [r \in Requests |-> "none"]
  /\ conn' = [r \in Requests |-> "none"]
  /\ peer' = [r \in Requests |-> "open"]
  /\ parked' = [r \in Requests |-> None]
  /\ taskList' = [i \in TaskIDs |-> None]
  /\ taskMutex' = [i \in TaskIDs |-> None]
  /\ cur' = 0
  /\ fault' = "none"

Handler(r) ==
  \/ IncTaskCount(r) \/ TooLong(r) \/ DrawID(r) \/ RegisterTask(r)
  \/ AskGameServer(r) \/ PollHit(r) \/ PollTimeout(r) \/ Expire(r)
  \/ AskStalls(r) \/ Use(r) \/ Spin(r) \/ UseStalls(r) \/ ReleaseSlot(r) \/ UnlockTask(r)

Connection(c) ==
  \/ Connect(c) \/ JoinRefused(c) \/ Join(c) \/ Unpark(c) \/ ForgetMutex(c)
  \/ PeerDone(c) \/ PeerGone(c)

Next ==
  \/ \E r \in Requests : Start(r) \/ Handler(r) \/ Connection(r)
  \/ ServerReplaced
  \/ Restart

(***************************************************************************)
(* A handler and a taskStart thread make their next step when they can:    *)
(* the lock sections are short, and createTask counts its looks.  Nothing  *)
(* is asked of the game server and of the browser: a handler that waits    *)
(* for them may be stuck, which is a step of its own.                      *)
(***************************************************************************)
Fairness ==
  \A r \in Requests :
    /\ WF_vars(Handler(r))
    /\ WF_vars(Unpark(r) \/ ForgetMutex(r))

Spec == Init /\ [][Next]_vars

FairSpec == Spec /\ Fairness

-----------------------------------------------------------------------------
(* Safety. *)

\* Every variable has the type of the field, global or local it stands for.
TypeOK ==
  /\ phase \in [Requests -> Phases]
  /\ kind \in [Requests -> Kinds \cup {"none"}]
  /\ id \in [Requests -> TaskIDs \cup {None}]
  /\ sock \in [Requests -> Requests \cup {None, Stdin}]
  /\ end \in [Requests -> Ends]
  /\ mutex \in [Requests -> {"none", "held", "free", "deleted"}]
  /\ conn \in [Requests -> ConnPhases]
  /\ peer \in [Requests -> {"open", "done", "gone"}]
  /\ parked \in [Requests -> Requests \cup {None}]
  /\ taskList \in [TaskIDs -> Requests \cup {None, Pending, Stdin}]
  /\ taskMutex \in [TaskIDs -> Requests \cup {None}]
  /\ cur \in Nat
  /\ fault \in {"none", "freedServer", "deadMutex"}

\* The requests that have a slot: createTask took one for them, and neither
\* createTask nor the handler has given it back.
HasSlot(r) ==
  \/ phase[r] \in {"draw", "register", "ask", "poll", "expire", "use"} \cup Endless
  \/ /\ end[r] \in {"done", "broken"}
     /\ phase[r] = "leave" \/ (UnlocksFirst(r) /\ phase[r] = "last")

Holders == {r \in Requests : HasSlot(r)}

\* Through every time-out, refusal and broken exchange the counter of task
\* sessions is the number of requests that have one, and within its limit,
\* as long as only ls and upload are asked for: their handlers release exactly
\* what createTask acquired for them.
SlotsExact ==
  (\A r \in Requests : kind[r] \in {"none", "ls", "upload"}) =>
    cur = Cardinality(Holders) /\ cur <= MaxTasks

\* Two requests drew the same id.
Clash(r) == \E q \in Requests \ {r} : id[q] = id[r]

\* A handler that uses a session talks over the connection that was opened for
\* it, and the thread of that connection stays parked on the handler's own
\* locked mutex, so that the connection is not shut under it: whatever late
\* answers, time-outs and other sessions do, unless an id was drawn twice.
OwnSession ==
  \A r \in Requests :
    phase[r] = "use" /\ ~Clash(r) =>
      sock[r] = r /\ conn[r] = "waiting" /\ parked[r] = r /\ mutex[r] = "held"

\* A mutex is not used after it was deleted, nor looked up after it was
\* forgotten, unless an id was drawn twice.
MutexAliveUnlessClash ==
  fault = "deadMutex" => \E r \in Requests : id[r] # None /\ Clash(r)

\* A mutex goes only after its request has unlocked it for good.
MutexDeletedLast ==
  \A r \in Requests :
    mutex[r] = "deleted" => phase[r] = "done" \/ (UnlocksFirst(r) /\ phase[r] = "last")

-----------------------------------------------------------------------------
(* Progress. *)

\* Every request that has asked for a session comes to an end: it is refused,
\* times out or ends its exchange, with the ids that a run has.  Those that do not
\* are getBackups and fileUpload in their loops without a game server, and a
\* handler that a game server or a browser keeps waiting without closing.
RequestEnds ==
  \A r \in Requests :
    phase[r] = "slot" ~> (phase[r] \in Endless \cup {"done"} \/ ~Running)

\* A taskStart thread that parked is released, even one that joined when its
\* request was just giving up on it, unless it is parked for a request that loops
\* or is kept waiting for ever.
TaskThreadEnds ==
  \A c \in Requests :
    conn[c] = "waiting" ~>
      \/ conn[c] # "waiting" \/ ~Running
      \/ \E r \in Requests : parked[c] = r /\ phase[r] \in Endless

-----------------------------------------------------------------------------
(* What the documentation and the comments say, and the code does not do. *)

\* typedefine.h:201, the largest number of task sessions.
SlotsBounded == Cardinality(Holders) <= MaxTasks
=============================================================================
