------------------------------ MODULE ServerStatus ------------------------------
(***************************************************************************)
(* Starting and stopping a game: the handlers of /api/ctl (serCtl), the    *)
(* status of the Server object, the connection to the game server client,  *)
(* which may break and is made again, and in the client the launcher       *)
(* thread with its child process, the reader thread and one thread per     *)
(* command (serverControl).                                                *)
(*                                                                         *)
(* A request is one call of serCtl, and later the frame and the thread     *)
(* that come of it.  Nothing in the code orders the accesses to status,    *)
(* SERSTATUS and serAttr, so each is a step of its own.                    *)
(***************************************************************************)
EXTENDS Naturals, Sequences, FiniteSets

CONSTANTS
  Requests,       \* calls of serCtl
  MaxInFlight,    \* bound: status frames that fit into the connection
  MaxBreaks       \* bound: how often the connection breaks

ASSUME StatusAssumption ==
  IsFiniteSet(Requests) /\ MaxInFlight \in Nat \ {0} /\ MaxBreaks \in Nat

VARIABLES
  phase, type,    \* of each request: how far it got and what it asks for
  status,         \* Server::status of the latest Server object
  listed,         \* that object is in SerList
  linkUp,         \* both ends of the client's latest joined connection work
  toManager,      \* status frames under way to server_read
  toClient,       \* requests whose 0x3 frame is under way to ReadRemoteData
  reader,         \* where ReadRemoteData stands
  repeated,       \* argument of its setServerStatus after a reconnection
  launcher,       \* where launch stands
  telling,        \* argument of its latest setServerStatus
  SERSTATUS,      \* the client's record of the status
  serAttr,        \* the flags suspend, reboot and launch
  child,          \* the game: none (pid is 0), up, or gone (pid is stale)
  pipe,           \* lines "stop" in inputPipe that no game has read
  breaks,         \* how often the connection broke
  fault,          \* what ended one of the two processes, if anything
  overlap,        \* history: the latest setServerStatus ran beside another
  mixed,          \* history: a status of this connection was taken for text
  sleeps, wakes   \* history: suspensions, and returns from one

manager == <<status, listed>>
wire    == <<linkUp, toManager, toClient, breaks, mixed>>
rejoin  == <<reader, repeated>>
game    == <<child, pipe>>
count   == <<sleeps, wakes>>
starter == <<launcher, telling, count>>
client  == <<rejoin, starter, SERSTATUS, serAttr, game, overlap>>
vars    == <<phase, type, manager, wire, client, fault>>

CloseTypes == {"stop", "suspend", "reboot", "force-shutdown"}
Types      == CloseTypes \cup {"launch"}
Flags      == {"suspend", "reboot", "launch"}
Reported   == {"RUNNING", "SUSPENDED", "STOPED"}
Statuses   == Reported \cup {"STOPPING", "other"}
\* Server::status has no initial value.  serCtl tells two values from the rest.
Unset      == {"RUNNING", "STOPED", "other"}

InHandler  == {"check", "check2", "mark", "write"}
Phases     == InHandler \cup {"idle", "freed", "sent", "received", "flagged",
                              "done", "over"}

Running == fault = "none"
Fail(what) == fault' = what /\ UNCHANGED <<phase, manager, wire, client>>

Goto(r, p) == phase' = [phase EXCEPT ![r] = p]
GotoAll(ps, p) ==
  phase' = [r \in Requests |-> IF phase[r] \in ps THEN p ELSE phase[r]]

Init ==
  /\ phase = [r \in Requests |-> "idle"]
  /\ type \in [Requests -> Types]
  /\ status \in Unset
  /\ listed = TRUE
  /\ linkUp = TRUE /\ breaks = 0
  /\ toManager = <<>> /\ toClient = <<>>
  /\ reader = "reading" /\ repeated = "none"
  /\ launcher = "tell" /\ telling = "RUNNING"
  /\ SERSTATUS = "none"
  /\ serAttr = [flag \in Flags |-> FALSE]
  /\ child = "none" /\ pipe = 0
  /\ fault = "none"
  /\ overlap = FALSE /\ mixed = FALSE /\ sleeps = 0 /\ wakes = 0

-----------------------------------------------------------------------------
(* Manager: serCtl, server_read, and the end of a Server.                  *)
(* A definition Name_Bug is Name with a bug that its code could have had;  *)
(* it is part of no behaviour and serves to see which property notices.    *)

\* webAPI has found the Server and let go of SerMutex.
Ask(r) ==
  /\ phase[r] = "idle" /\ listed
  /\ Goto(r, "check")
  /\ UNCHANGED <<manager, wire, client>>

\* The status is read once for a closing command and twice for a launch.
CheckStatus(r) ==
  /\ phase[r] = "check"
  /\ \/ type[r] \in CloseTypes /\ status = "RUNNING" /\ Goto(r, "mark")
     \/ type[r] = "launch" /\ status # "RUNNING" /\ Goto(r, "check2")
     \/ (type[r] = "launch" <=> status = "RUNNING") /\ Goto(r, "over")
  /\ UNCHANGED <<manager, wire, client>>

CheckStoped(r) ==
  /\ phase[r] = "check2"
  /\ Goto(r, IF status = "STOPED" THEN "over" ELSE "write")
  /\ UNCHANGED <<manager, wire, client>>

MarkStopping(r) ==
  /\ phase[r] = "mark"
  /\ status' = "STOPPING"
  /\ Goto(r, "write")
  /\ UNCHANGED <<listed, wire, client>>

WriteCommand(r) ==
  /\ phase[r] = "write"
  /\ \/ linkUp /\ toClient' = Append(toClient, r) /\ Goto(r, "sent")
     \/ ~linkUp /\ Goto(r, "over") /\ UNCHANGED toClient
  /\ UNCHANGED <<manager, linkUp, toManager, breaks, mixed, client>>

\* The handler goes on with a Server that was deleted meanwhile.
UseFreedServer(r) == phase[r] = "freed" /\ Fail("freedServer")

\* Every frame is taken for a status.
Understood_Any(st) == st

\* An opcode 0 without data changes nothing.
Understood(st) == IF st \in Reported THEN st ELSE status

ReadStatus ==
  /\ linkUp /\ toManager # <<>>
  /\ status' = Understood(Head(toManager))
  /\ toManager' = Tail(toManager)
  /\ UNCHANGED <<phase, listed, linkUp, toClient, breaks, mixed, client>>

\* Out of step with the frames, it may take a status for one, or any text.
Misread ==
  /\ linkUp /\ mixed
  /\ status' \in Reported
  /\ UNCHANGED <<phase, listed, wire, client>>

\* What the manager has not read is lost, what the client has not may be.
\* server_read leaves also at a piece or a head that fits no frame.
BreakLink ==
  /\ linkUp /\ breaks < MaxBreaks
  /\ linkUp' = FALSE /\ breaks' = breaks + 1
  /\ toManager' = <<>> /\ mixed' = FALSE
  /\ \/ UNCHANGED <<toClient, phase>>
     \/ toClient' = <<>> /\ GotoAll({"sent"}, "over")
  /\ UNCHANGED <<manager, client>>

DeleteServer ==
  /\ listed /\ ~linkUp
  /\ listed' = FALSE
  /\ GotoAll(InHandler, "freed")
  /\ UNCHANGED <<status, wire, client>>

-----------------------------------------------------------------------------
(* Client: sending a status on whatever remote_socket is at the moment. *)

\* Frames behind an announcement wait for the Server that it creates.
Carries == linkUp \/ reader = "announced"

\* ReadData sends a line as a head and a body.  A status, sent without SendMutex,
\* may come between them or be received together with text: server_read takes it
\* for a part of the line.  There are no lines before the first game.  What comes of
\* the bytes under way, and of those that follow, is Misread.
TakenForText ==
  /\ linkUp /\ child # "none"
  /\ mixed' = TRUE /\ toManager' = <<>>

SendStatus(st) ==
  \/ /\ Carries /\ ~mixed /\ Len(toManager) < MaxInFlight
     /\ toManager' = Append(toManager, st) /\ UNCHANGED mixed
  \/ TakenForText
  \/ (~Carries \/ mixed) /\ UNCHANGED <<toManager, mixed>>

\* SIGPIPE is not ignored: writing to a connection that the manager has closed
\* ends the client, be it a status or a line of the game's console.
BrokenPipe ==
  /\ ~linkUp /\ reader \in {"reading", "follow", "repeat", "store"}
  /\ launcher = "tell" \/ reader = "repeat" \/ child = "up"
  /\ Fail("brokenPipe")

-----------------------------------------------------------------------------
(* Client: ReadRemoteData and AccessServer. *)

inClient == <<starter, serAttr, game>>

ReadCommand ==
  /\ reader = "reading" /\ toClient # <<>>
  /\ Goto(Head(toClient), "received")
  /\ toClient' = Tail(toClient)
  /\ UNCHANGED <<manager, linkUp, toManager, breaks, mixed, client>>

CloseSocket ==
  /\ reader = "reading" /\ ~linkUp /\ toClient = <<>>
  /\ reader' = "dial"
  /\ UNCHANGED <<phase, manager, wire, repeated, SERSTATUS, inClient,
                 overlap>>

\* connect, and the announcement.
Dial ==
  /\ reader = "dial"
  /\ reader' = "announced"
  /\ UNCHANGED <<phase, manager, wire, repeated, SERSTATUS, inClient, overlap>>

\* The id is taken for as long as the old Server is listed; or the connection
\* breaks, or a status that was sent before the announcement spoils it.
JoinRefused ==
  /\ reader = "announced"
  /\ reader' = "dial"
  /\ toManager' = <<>>
  /\ UNCHANGED <<phase, manager, linkUp, toClient, breaks, mixed, repeated,
                 SERSTATUS, inClient, overlap>>

\* The status is not repeated after a reconnection.
AfterJoin_Silent == "reading"

AfterJoin == "follow"

Join ==
  /\ reader = "announced" /\ ~listed
  /\ reader' = AfterJoin
  /\ listed' = TRUE /\ linkUp' = TRUE
  /\ status' \in Unset
  /\ UNCHANGED <<phase, toManager, toClient, breaks, mixed, repeated, SERSTATUS,
                 inClient, overlap>>

\* setServerStatus(SERSTATUS): the argument, the frame, the record.
\* It overlaps with the launcher's if that has sent and not yet recorded.
Beside == overlap' = (overlap \/ launcher = "record")

ReadArgument ==
  /\ reader = "follow"
  /\ reader' = "repeat"
  /\ repeated' = SERSTATUS
  /\ Beside
  /\ UNCHANGED <<phase, manager, wire, SERSTATUS, inClient>>

RepeatStatus ==
  /\ reader = "repeat"
  /\ SendStatus(repeated)
  /\ reader' = "store"
  /\ Beside
  /\ UNCHANGED <<phase, manager, linkUp, toClient, breaks, repeated, SERSTATUS,
                 inClient>>

StoreRepeated ==
  /\ reader = "store"
  /\ reader' = "reading"
  /\ SERSTATUS' = repeated /\ repeated' = "none"
  /\ Beside
  /\ UNCHANGED <<phase, manager, wire, inClient>>

-----------------------------------------------------------------------------
(* Client: the threads of serverControl. *)

\* pid is 0 until the first fork: kill(0, SIGABRT) is for the whole group.
KillOwnGroup(r) ==
  /\ phase[r] = "received" /\ type[r] = "force-shutdown"
  /\ child = "none"
  /\ Fail("killedItself")

ForceShutdown(r) ==
  /\ phase[r] = "received" /\ type[r] = "force-shutdown"
  /\ child # "none"
  /\ child' = "gone"
  /\ Goto(r, "done")
  /\ UNCHANGED <<manager, wire, rejoin, starter, SERSTATUS, serAttr, pipe, overlap>>

SetFlag(r) ==
  /\ phase[r] = "received"
  /\ type[r] \in Flags
  /\ serAttr' = [serAttr EXCEPT ![type[r]] = TRUE]
  /\ Goto(r, IF type[r] = "launch" THEN "done" ELSE "flagged")
  /\ UNCHANGED <<manager, wire, rejoin, starter, SERSTATUS, game, overlap>>

SendStop(r) ==
  /\ phase[r] = "flagged" \/ (phase[r] = "received" /\ type[r] = "stop")
  /\ pipe' = pipe + 1
  /\ Goto(r, "done")
  /\ UNCHANGED <<manager, wire, rejoin, starter, SERSTATUS, serAttr, child,
                 overlap>>

-----------------------------------------------------------------------------
(* Client: the game, and launch, which goes on for ever (loop is 1). *)

\* The game ends by itself, at a line somebody typed, or at one of the lines
\* "stop", and may have read any number of these by then.
GameEnds ==
  /\ child = "up"
  /\ child' = "gone"
  /\ pipe' \in 0..pipe
  /\ UNCHANGED <<phase, manager, wire, rejoin, starter, SERSTATUS, serAttr,
                 overlap>>

\* The flag stays set.
Spent_Kept(flag) == serAttr

\* Every flag is reset with the one that was acted on.
Spent_All(flag) == [f \in Flags |-> FALSE]

Spent(flag) == [serAttr EXCEPT ![flag] = FALSE]

Announcing(st) == launcher' = "tell" /\ telling' = st

\* setServerStatus: the frame, then the record.
Tell ==
  /\ launcher = "tell"
  /\ SendStatus(telling)
  /\ launcher' = "record"
  /\ overlap' = (reader \in {"repeat", "store"})
  /\ UNCHANGED <<phase, manager, linkUp, toClient, breaks, reader, repeated,
                 telling, count, SERSTATUS, serAttr, game>>

Record ==
  /\ launcher = "record"
  /\ SERSTATUS' = telling
  /\ launcher' = CASE telling = "RUNNING" -> "fork"
                   [] telling = "SUSPENDED" -> "suspended"
                   [] telling = "STOPED" -> "stoped"
  /\ overlap' = (overlap \/ reader \in {"repeat", "store"})
  /\ UNCHANGED <<phase, manager, wire, rejoin, telling, count, serAttr, game>>

unrelated == <<phase, manager, wire, rejoin, SERSTATUS, overlap>>

Fork ==
  /\ launcher = "fork"
  /\ launcher' = "wait" /\ child' = "up"
  /\ UNCHANGED <<unrelated, telling, count, serAttr, pipe>>

\* waitpid returns, and the flag suspend is looked at.
Wait ==
  /\ launcher = "wait" /\ child = "gone"
  /\ Announcing(IF serAttr["suspend"] THEN "SUSPENDED" ELSE "STOPED")
  /\ UNCHANGED <<unrelated, count, serAttr, game>>

Sleep ==
  /\ launcher = "suspended"
  /\ launcher' = "asleep"
  /\ serAttr' = Spent("suspend")
  /\ sleeps' = sleeps + 1
  /\ UNCHANGED <<unrelated, telling, wakes, game>>

Wake ==
  /\ launcher = "asleep" /\ serAttr["launch"]
  /\ serAttr' = Spent("launch")
  /\ wakes' = wakes + 1
  /\ Announcing("RUNNING")
  /\ UNCHANGED <<unrelated, sleeps, game>>

\* At once after a reboot, else after a pause of ten seconds.
Relaunch ==
  /\ \/ /\ launcher = "stoped" /\ serAttr["reboot"]
        /\ serAttr' = Spent("reboot")
        /\ Announcing("RUNNING")
     \/ /\ launcher = "stoped" /\ ~serAttr["reboot"]
        /\ launcher' = "pause" /\ UNCHANGED <<serAttr, telling>>
     \/ /\ launcher = "pause"
        /\ Announcing("RUNNING") /\ UNCHANGED serAttr
  /\ UNCHANGED <<unrelated, count, game>>

-----------------------------------------------------------------------------
HandlerStep(r) ==
  Ask(r) \/ CheckStatus(r) \/ CheckStoped(r) \/ MarkStopping(r) \/ WriteCommand(r)

CommandStep(r) == ForceShutdown(r) \/ SetFlag(r) \/ SendStop(r)

ReaderStep ==
  \/ ReadCommand \/ CloseSocket \/ Dial \/ JoinRefused \/ Join
  \/ ReadArgument \/ RepeatStatus \/ StoreRepeated

LauncherStep == Tell \/ Record \/ Fork \/ Wait \/ Sleep \/ Wake \/ Relaunch

Step ==
  \/ \E r \in Requests : HandlerStep(r) \/ CommandStep(r)
  \/ ReadStatus \/ Misread \/ BreakLink \/ DeleteServer
  \/ ReaderStep \/ LauncherStep
  \/ GameEnds

Failure ==
  \/ \E r \in Requests : UseFreedServer(r) \/ KillOwnGroup(r)
  \/ BrokenPipe

Next ==
  /\ Running /\ UNCHANGED type
  /\ \/ Step /\ UNCHANGED fault
     \/ Failure

Spec == Init /\ [][Next]_vars

-----------------------------------------------------------------------------
(* Properties *)

\* Every variable has its type (typedef.h:8-35, typedefine.h:39-43).
TypeOK ==
  /\ phase \in [Requests -> Phases] /\ type \in [Requests -> Types]
  /\ status \in Statuses
  /\ listed \in BOOLEAN /\ linkUp \in BOOLEAN /\ breaks \in Nat
  /\ toManager \in Seq(Reported \cup {"none"}) /\ toClient \in Seq(Requests)
  /\ reader \in {"reading", "dial", "announced", "follow", "repeat", "store"}
  /\ repeated \in Reported \cup {"none"} /\ SERSTATUS \in Reported \cup {"none"}
  /\ launcher \in {"tell", "record", "fork", "wait", "suspended", "asleep",
                   "stoped", "pause"}
  /\ telling \in Reported
  /\ serAttr \in [Flags -> BOOLEAN]
  /\ child \in {"none", "up", "gone"} /\ pipe \in Nat
  /\ fault \in {"none", "freedServer", "brokenPipe", "killedItself"}
  /\ overlap \in BOOLEAN /\ mixed \in BOOLEAN /\ sleeps \in Nat /\ wakes \in Nat

\* The connection works and no status is under way.
Quiet ==
  /\ linkUp /\ reader = "reading" /\ toManager = <<>>
  /\ launcher \notin {"tell", "record"}

\* A handler has begun to close the game.
Closing == \E r \in Requests : phase[r] # "idle" /\ type[r] \in CloseTypes

\* Through every delay, end of the game and reconnection, the status that serCtl
\* goes by is what the launcher last told, or STOPPING on behalf of a request
\* to close, unless two calls of setServerStatus overlapped or a status of this
\* connection was taken for a part of a line (remote.h:135-136, servCtl.h:28-34,
\* demo.cpp:74-80, ser.h:49-85).
StatusAgrees ==
  Quiet /\ ~overlap /\ ~mixed =>
    status = telling \/ (status = "STOPPING" /\ Closing)

\* "Follow up the current status" (remote.h:135): when a reconnection is over, the
\* manager knows what the launcher is doing, even if no status was taken for text.
StatusFollowed == Quiet /\ ~mixed => status \in {telling, "STOPPING"}

Of(t, phases) == {r \in Requests : type[r] = t /\ phase[r] \in phases}

\* Each return from a suspension is paid for by a launch of its own: a game that
\* is suspended does not start by itself (demo.cpp:118-124, servCtl.h:23-25).
WakesPaid == wakes + (IF serAttr["launch"] THEN 1 ELSE 0)
               <= Cardinality(Of("launch", {"done"}))

\* Each suspension is paid for by a suspend of its own: a game that crashed or was
\* stopped is started again (demo.cpp:113-117, servCtl.h:19-22).
SuspensionsPaid ==
  sleeps + (IF serAttr["suspend"] THEN 1 ELSE 0)
    <= Cardinality(Of("suspend", {"flagged", "done"}))

\* A suspend is not lost on its way: until the first suspension, a game that is
\* up after the line of a suspend was sent has a "stop" before it, and the flag
\* that makes the launcher sleep afterwards is set (servCtl.h:19-22).
SuspendHeld ==
  Of("suspend", {"done"}) # {} /\ sleeps = 0 /\ child = "up"
    => pipe > 0 /\ serAttr["suspend"]

=============================================================================
