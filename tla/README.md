# A TLA+ model of MinecraftServerManager

MinecraftServerManager is a manager process that game servers, controllers and
browsers connect to. This directory holds TLA+ modules that model its core, TLC
configurations that check them on small instances, and TLAPS proofs of what
matters most for every instance. Paths below are relative to `src/`.

## 1. The system

### Processes and threads

- **The manager** (`manager.cpp`, `h/`). One thread accepts connections on port
  6636 (`h/server.h`) and starts one detached thread per connection, which runs
  `protocols_route` (`h/protocols/route.h`). The first three bytes decide what
  the connection becomes: `SER` a game server, `CTL` a controller, `TAK` a task
  connection of a game server, anything else HTTP, which leads to a file, to the
  web API, or by an upgrade to a terminal (`/ws`) or a file upload.
- **The game server's client** (`ClientDemo_cpp_version/`). It runs the game as
  a child, sends its console to the manager, obeys commands, and opens a task
  connection whenever it is asked to list, receive, rename or back up files.
- **The browser** (`web/`). Pages that call the web API and the terminal.

### Components, their state, operations and interactions

| component | state | operations | talks to |
|---|---|---|---|
| routing (`route.h`, `server.h`) | locals of one thread | read type and ids, look the id up, refuse, hand over, shut the socket | registry under `SerMutex` |
| registry (`typedefine.h`, `classFunDef.h`) | `SerList`, `SerMutex` and its owner | constructor inserts, destructor shuts clients, waits for them, erases | everything |
| clients of a server (`classFunDef.h`, `ctl.h`, `wsTerminal.h`) | `CTLList`, `WSList` under `cliMutex`; the pointer `ser` of each client | attach, forward commands, leave | the Server object they point to |
| task sessions (`classFunDef.h`, `webAPI.h`, `wsFileUpload.h`, `transferfile.h`) | `taskList`, `taskMutex`, one mutex per request, `cur_task_count` | `createTask`, `taskStart`, five handlers | browser, game server |
| console history (`stringBuffer.h`) | a list of nodes of bounded length | append, read, clear | `server_read` and the `add` of a client, under `sbMutex` |
| console feed (`ser.h`, `classFunDef.h`, `websocket.h`) | the client lists, threads that carry one message each | `Broadcast`, history on joining | every client |
| frames (`frame_builder.h`, three readers) | a byte stream | build, read, dispatch | game server, controller |
| status and launcher (`webAPI.h`, `demo.cpp`, `servCtl.h`, `remote.h`) | `status` in the manager; `SERSTATUS`, `launch`, `suspend` in the client | launch, stop, suspend, reboot, kill, reconnect | frames |
| HTTP, WebSocket (`h/http/`) | the request being parsed; the body's reader and what it has yet to read | parse, unmask, send a range of a file, take an upload in | browser, game server |
| helpers, manager console, web pages | none that lasts | | |

`PROJECT.json` lists the same parts with what is modelled of each.

### What is hard in it

- `SerMutex` is held across many steps by a destructor that waits for other
  threads, by the constructor of a controller and by `terminalAccess`; other
  users hold it for one lookup and act on the result later, and a terminal that
  finds it taken releases it for its owner.
- No socket has a time-out for sending: whoever writes to a peer that reads no
  more waits, with the locks it has.
- Objects are freed by their own thread while others hold pointers to them.
- A task session is a rendezvous of two connections through two maps and a
  mutex that one thread makes and another deletes, with a time-out that races
  a late answer.
- A slot counter is kept by hand on every way out of five handlers.
- The history is a list that grows at one end and shrinks at the other in the
  middle of a recursive append.
- Console messages travel in a thread each; frames are read as if the stream
  kept their boundaries; status is kept in two places that are updated apart.
- A client is listed before it gets its history, and its objects are deleted
  while threads that write to it are in flight.
- Files go through loops whose lengths are signed, unsigned and cut to the
  length of a file, with reads and sends that fall short.

### What makes each part correct

- Registry: an id leads to a living Server with that id, or nowhere; one thread
  at a time in a section of `SerMutex`, and each comes out of it; a client
  reaches only Servers of its own user, and a freed Server has no clients.
- Task sessions: a handler talks over the connection opened for it; no mutex is
  used after it is deleted; the counter is the number of sessions; every
  request ends and every parked thread is released.
- History: a reader gets the latest text, without a gap, as much as fits.
- Feed: a client gets its greeting first, then every line from the start of its
  history on, in whole frames; nobody who stops reading holds the others up.
- Frames: the frames read are those written, however TCP cuts the stream.
- Files: the receiver has the part of the file that it asked for, and an upload
  is called a success when it was stored.
- Status: the manager's status becomes the launcher's, and no command is lost
  or served twice.

## 2. Modules

| module | models | checked by | proved in |
|---|---|---|---|
| `ServerRegistry` | routing by id, registry, client lists, `SerMutex`, life of a Server | `MCServerRegistry` | `ServerRegistryProofs` |
| `TaskSessions` | task slots, ids, `createTask`, `taskStart`, five handlers | `MCTaskSessions` | `TaskSessionsProofs` |
| `ServerStatus` | the commands of `/api/ctl`, the two statuses, the reconnection, the launcher and its game | `MCServerStatus` | `ServerStatusProofs` |
| `StringBuffer` | the console history | `MCStringBuffer` | `StringBufferProofs` |
| `RecentText` | abstract: what the history promises | implemented by `StringBuffer` | `StringBufferProofs` |
| `ConsoleFeed` | `server_read`, `Broadcast` and its threads, joining and leaving clients | `MCConsoleFeed` | `ConsoleFeedProofs` |
| `FeedPromise` | abstract: what a client of the feed is owed | implemented by `ConsoleFeed` | `ConsoleFeedProofs` |
| `FrameStream` | the four readers of frames over a byte stream | `MCFrameStream` | `FrameStreamProofs` |
| `FileTransfer` | files from `web/`, uploads, views of files of the game server | `MCFileTransfer` | `FileTransferProofs` |

In every module a definition `Name_Bug` is `Name` with a bug its code might have
had. It is part of no behaviour; `PROJECT.json` says which property notices it.

### ServerRegistry

A connection is a thread with a program counter `pc`; its ids are `sid` and
`uid`. A Server object is named by the connection that made it and exists while
`pc` is in `AlivePhases`. `SerMutex` is a variable holding its owner, because
`myMutex` (`typedefine.h:94-135`) lets any thread unlock it. A section that only
looks an id up or inserts one is one step and needs the lock free. The sections
that go on for several steps are those of

- the destructor: `DestroyLock`, `DestroyShutdown` (shut every listed client),
  `DestroyWait` (the loop at `classFunDef.h:275`), `DestroyErase`;
- a controller: `ControllerConstruct`, `ControllerAttach`, `ClientStart`;
- a terminal: `TerminalCheck` (`checkID`), `TerminalLookup` (which reads the entry
  again), `TerminalAttach`, `ClientStart`.

A client that has read a command is `forwarding` it from `ClientForward` to
`ForwardEnds`: `writeSocketData` to the game server returns when that reads, or when the
connection breaks. `stop()` shuts the client's own socket and not that of the game
server, which `protocols_route` shuts after the destructor.

`cliMutex` guards walks of one list, so each of these is one step. A step on a
freed Server, a null Server or an unset thread pointer is undefined behaviour:
it sets `fault` and stops the process, and `Restart` starts it again. What is
written to the clients is in `ConsoleFeed`, what they send in `FrameStream`:
`Server::add` is one step here and some ten there, and the one case in which it
does not return (below) is left to `ConsoleFeed`.

`foreignUnlock` is a history variable: a terminal has released the lock for somebody
else. From then on two threads may be in sections at the same time; those that only
look an id up or insert one stay one step each, that is, what `std::map` does when two
threads use it at once is not modelled.

### TaskSessions

`phase[r]` is where the handler of request `r` stands, from `Start` through
`IncTaskCount`, `DrawID`, `RegisterTask`, `AskGameServer` and the looks of
`createTask` (`PollHit`, `PollTimeout`, `Expire`) to the exchange (`Use`) and the
way out (`ReleaseSlot`, `UnlockTask`, in the order of the handler). `conn[r]` is
where the task connection it brings about stands: `Connect`, `Join` or
`JoinRefused`, `Unpark`, `ForgetMutex`. `peer[r]` is what the game server does at
its end. Which results end the exchange well is `Outcomes`, which of them give
the slot back is `Releases`; both are read off the handlers line by line:

| ended | ls, upload | getfile | rename | getBackups |
|---|---|---|---|---|
| well | gives back | gives back | gives back | gives back |
| broken off | gives back | gives back | cannot tell | keeps the slot |
| timed out (already given back) | | gives back again | gives back again | |
| refused (had none) | | gives back | gives back | either: its result is not set |

A handler that never returns is in one of the `Endless` phases. `Spin`: without a game
server `getBackups` goes round on an empty `recv`, and `fileUpload` when the body has
ended early, as the -1 of `send` counts as sent. `AskStalls` and `UseStalls`: a game
server or a browser keeps its connection and neither reads nor sends; the
time-outs of the sockets are commented out (`webAPI.h:15-16`). A handler that
waits and is answered in the end is `AskGameServer` or `Use`.

`taskList[i]` of an id that was erased makes an entry 0 by `operator[]`, so a
handler may then talk to descriptor 0 (`Stdin`). `ServerReplaced` is the game
server leaving and coming back with a new Server object.

### ServerStatus

Four kinds of threads share `status` in the manager, `SERSTATUS`, `serAttr` and
`pid` in the client, and no lock orders their accesses, so each access is a step:

- a request of `serCtl`, whose `phase` goes from `Ask` through the reads of the
  status (one for a closing command, two for a launch) and `MarkStopping` to the
  frame, and later, in the client, through the thread of `serverControl`: `SetFlag`
  before `SendStop`, or `ForceShutdown`;
- `ReadRemoteData`: `ReadCommand`, then after a break `CloseSocket`, `Dial`,
  `JoinRefused` or `Join`, and the repetition of the status in three steps, for
  its argument is read, then sent, then stored (`ReadArgument`, `RepeatStatus`,
  `StoreRepeated`);
- `launch`: `Tell` and `Record` are the two halves of `setServerStatus`, `Fork`,
  `Wait`, and the ways on: `Sleep` and `Wake`, or `Relaunch`;
- the game, which ends when it likes and leaves in its standard input any number
  of the lines "stop" it has not read, for the next game to read (`pipe`).

`toManager` and `toClient` are the frames under way. A status that is sent while
the client waits for the answer to its announcement (`announced`) stands behind it
and is read by the Server that comes of it, or spoils it. A break loses what
the manager has not read; what the client has not read may or may not arrive. A
new Server object starts with any value in `status` (`Unset`), as the constructor
sets none. `loop` is 1 throughout: `readConfig` never changes it.

`overlap` is a history variable: whether the latest `setServerStatus` ran beside
another. So is `mixed`: `setServerStatus` sends without `SendMutex`, so its frame may stand
between the head and the data of a line, or be received in one piece with text, and
`server_read` takes it for text (`TakenForText`). Its reader is out of step then: until the
connection ends, which it may do by itself, text may be taken for a status
(`Misread`). How that comes about byte by byte is in `FrameStream`; here any status
sent while a game may write lines can be lost so. `StatusAgrees` is about the rest. `StatusFollowed`,
which the comment in `remote.h` promises, does not except `overlap` and fails for it; it
excepts `mixed`, so that its trace shows the reconnection and not a lost frame.

### StringBuffer and RecentText

A character is the number of its position in all that was written. One call of
the recursive `buffer_append` is one step (`FirstNode`, `Fits`, `Overflows`), so
that the state between two calls is seen; all of them run under `sbMutex`
(`appending`), which a reader (`buffer_get_string`) needs too. `RecentText` has
no nodes: it keeps the `n` latest characters, at least `Least` and at most `Most`
where that many were written, drops only from the front, and is read between
appends. The refinement mapping takes `text` to what `buffer_get_string` would
collect, `Least` to `(max_len - 1) * (node_max_size - 1)` and `Most` to
`max_len * (node_max_size - 1)`.

### ConsoleFeed and FeedPromise

One Server object and its clients. `frame[c][m]` is where the thread stands that
writes message `m` to client `c`: `begin`, `body` between the head and the data
of the frame, `sent` or `lost`. `lock[c]` is `netIOMutex` or `writeMutex` with the
message whose writer has it. Messages are the pieces of text, the greeting, the
history of a client, and the status that a joining terminal broadcasts.

- `server_read`: `ReadPiece`, `AppendPiece` under `sbMutex`, `BroadcastPiece` under
  `cliMutex`, which starts one writer per listed client.
- a controller: `ControllerGreet` (its OK has no frame), `ControllerList`,
  `ControllerCopy`, `HistorySent`, `Attached`;
- a terminal: `TerminalTryLock` with its unlock of somebody else's lock,
  `TerminalList` and `TerminalGreeted`, between which `cliMutex` is held over a send,
  `TerminalCopy` and `TerminalStatus`, between which `sbMutex` is held while it waits
  for `cliMutex`, and then as a controller;
- both: `ReadEnds`, `Leave` (removed and deleted), `Break` at any time;
- a writer: `WriteHead` with the error return that forgets `writeMutex`
  (`Stuck`), `WriteBody`, and `WriteFreed`, the fault of a thread that still has
  the pointer to a deleted client.

`FeedPromise` has no threads and no locks: a client that joins is owed what the
history holds then and every piece that is written from then on, and gets nothing
else. It promises no order, since every piece has a thread of its own, nor
that a piece comes only once, since a client is listed before it copies the history.
The refinement mapping counts a client as a member from its listing until it
leaves or its connection breaks, a piece as owed when it is in the history or has a
thread, and as got when a frame with it, or with the history that holds it, is sent.

### FrameStream

The loop that reads frames is written four times: `server_read`,
`controller_read_socket`, `ReadRemoteData`, and `terminalRead` with `readHeadFrame`
and `readData`. `kind` says which it is; `wire` holds the bytes under way, each
with its frame and place; `Receive` takes any part of what has come and was asked
for. What each asks for differs: the server the length of its buffer, the client
too, the controller the length of the frame for every piece, the terminal the
whole of its need for every round, behind what it has. Two history
variables say what has happened to the bytes: `together` (a recv saw bytes of the
next frame behind those of its own) and `cut` (a recv returned less than it could
of its frame). A third, `inside`, says what the writer has done: the game server's client
sends a line as a head and its data under `SendMutex`, and a status without it, so that
one can stand between the two (`WriteInside`, `WriteBody`). The properties are about
each of the four under these conditions:

| reader | keeps in step | leaves an open connection only if |
|---|---|---|
| server | frames do not come together, no status inside a line | one of them did |
| client | frames do not come together | they did |
| controller | frames do not come together, or none is cut | both happened |
| terminal | no frame is cut | one was cut |

Bytes that are no head are parsed as any head (`ReadHead`). A write behind a buffer
is the phase `crashed`: the client receives a command by the length in its head into
2048 bytes (`ClientCommand`), as the controller does a piece. The text that a
controller, a terminal or the client has read is written on before the loop goes
on: `handing` until `HandedOn`, which may never come.

### FileTransfer

One transfer of one file, whose bytes are their offsets; `job` says which:

- a file of `web/`: `OutputFile` and `SendFile`, with a range or without one. The
  numbers of a range meet in a `size_t`, which is a number modulo `SizeT`;
- an upload: `StartUpload`, then in turns `ReadUpload` (`HTTPFileReader::read`) and
  `SendUpload`, then `AwaitOK`; `Store` is `acceptFile` of the game server, and
  `StoreReset` its `recv` that returns -1: `cnt` is a `size_t` and -1 passes for a length,
  so that it waits for one byte more than before and `fwrite` gets a length that no
  buffer has. What that writes, if anything, is `Junk`. The `recv` after it returns 0 and
  ends the loop (`StoreFails`);
- a view: `OpenFile` and `FeedFile` of `viewfile`, `GetHead` and `Relay` of `getfile`.
  `Resize` lets the file change while it is viewed.

Reads and sends that fall short, `BrowserGone` and `GameServerGone` may come at any
time, and `Stall`: a peer keeps its connection and neither reads nor sends any more, so
that whoever sends to it, or waits for it to send, waits until the connection breaks.
`stray` is a history variable: `acceptFile` took -1 for a length. How the task connection comes about is in `TaskSessions`.

## 3. Runs

| run | instance | shows |
|---|---|---|
| `registry_safety` | 2 servers of one id, 1 controller, 1 terminal, 2 users | the safety properties below, and `SectionReleased` |
| `registry_drained` | 1 server, 1 controller, 1 terminal | a Server is freed with controllers attached |
| `tasks_sessions` | 2 requests of any kind, 2 ids, 2 slots | types, own session, life of the mutexes |
| `tasks_live` | 2 requests that upload or fetch backups, 2 ids, 1 slot | `SlotsExact`, `RequestEnds`, `TaskThreadEnds` |
| `tasks_bounded` | 3 getfile requests, 1 slot | more sessions than `max_task_count` |
| `buffer_recent` | 3 nodes of 3 bytes, appends of up to 7, 12 characters | history consistent, `RecentText`, ends |
| `status_agrees` | 2 commands of any kind, 2 frames under way, 1 break | `StatusAgrees`, and that no flag is lost or served twice |
| `status_followed` | 1 command, 1 break | a running game that the manager takes for a stopped one |
| `feed` | 1 controller that may stop reading, 1 terminal that reads, 1 piece | the feed's safety and progress, `FeedPromise` |
| `frames` | 4 readers, 3 frames of up to 4 bytes, heads of 2, a buffer of 3 | the table of `FrameStream` above, and that a reader ends with its connection |
| `frames_length` | 2 frames of up to 3 bytes, a buffer of 4 | a server reader that receives more than the length says |
| `files` | files, ranges and lengths of up to 7, buffers of 3, `SizeT` 32 | what arrives, what is reported, that it ends |

The safety properties of the registry: `SerMutexOwner` (until a stranger
releases it, the lock is owned by exactly the thread that is inside a section),
`NoDanglingEntry`, `ListedClientsServed` (whoever is broadcast to is being
served), `AttachedSameUser`, `NoLateAttach` (nobody joins a Server in its
destructor) and `EntryErasedByNamesake`. `SectionReleased` is its progress: whoever
holds `SerMutex` over several steps releases it, the destructor that waits there for
its clients among them, unless it waits for one whose write to the game server does not
return. They are conditional where the code's own faults would break
them, and only there: `foreignUnlock` marks that a
terminal has released somebody's lock (`TerminalUnlock`), after which `AttachedSameUser`
says nothing of a terminal's user; and an id drawn
twice marks a clash in `OwnSession` and `MutexAliveUnlessClash`. `SlotsExact` is
about the handlers whose releases are balanced; `tasks_bounded` shows another.
`RequestEnds` and `TaskThreadEnds` name the `Endless` phases as the only ways not to
end: the loops of `getBackups` and `fileUpload` without a game server, and peers that stand
still.

Of the status: `StatusAgrees` (the connection works and nothing is under way, so
`serCtl` goes by the launcher's status, or by a STOPPING that a request to close
stands for, unless two reports overlapped or one was taken for text), `WakesPaid` and `SuspensionsPaid` (a flag is served once: what was
returned from or gone into, and the flag that is still set, is covered by commands
that were carried out) and `SuspendHeld` (flag before stop: the game that reads the
stop, be it the next one, is followed by the suspension). `status_agrees` does not
check for deadlock: a suspended game stays so when nobody asks any more.

Of the feed: `FramesWhole` (one writer between head and body), `GreetingFirst`, `NoGap`
(nothing between the history that a client took and its broadcasts),
`WritersOfLiving` (no writer is started for a deleted client), `FeedNotHeld`
(`server_read` gets back to `recv`, whoever does not read), `AttachEnds` (a client
that is being added comes out of `SerMutex`, unless its `writeMutex` was left locked)
and `ImplementsFeedPromise`.

Of the frames: `KeepsStep` and `EndsForReason` are the two columns of the table,
`HistoryWhole` says when all text reaches the history without its T, and
`EndsWithConnection` that a reader does not outlive its connection, but for the one
loop of the client that goes round when `recv` fails in the middle of console input, and
for a reader that waits for ever in the write that hands on.

Of the files: `InOrder` (what has arrived is a run of the file from the right byte on,
and never more than was announced, unless `acceptFile` took -1 for a length), `Served` (a browser that stays has what it asked
for), `Stored` (over a connection that lasts, an upload that is called a success was
stored to its last byte, and one that was read without fail is called a success), and `TransferEnds`, which excepts an
upload whose body is dry and whose game server is gone (`Dry`) and the wait for a peer
that stands still (`Waits`). `feed`, `frames` and
`files` do not check for deadlock: a feed whose clients have left, a reader
that has ended and a transfer that is done stop.

### Bounds, and why they are enough

- A `ServerRegistry` hazard needs two servers of one id (insert over an entry,
  erase of another's entry), one client of each kind (the loop over both lists)
  and two users (an id that changes hands). A connection slot is used again
  after its thread ends, so histories are unbounded. More ids would only run
  independently: a thread touches one id. Two terminals meet only through the lock
  that one of them releases for another, and each property that this could break excepts
  what follows such a release; that they hold up to it, and the rest of them
  after it, is what the theorems of section 5 say for any number of terminals.
  With two servers and two terminals, with or without a controller beside them (7.3
  million states, 290,000 without), TLC finds the same safety properties true, and with
  one server, a controller and two terminals `SectionReleased` too.
- The hazards of `TaskSessions` are between two requests; a third is needed only
  to exceed one slot after another request gave it away. With one id two
  requests draw the same, with two they may. A request runs once; `Restart`
  begins again when all are done.
- The looks of `createTask` (500 of 10 ms each) are not counted: a look finds the
  entry, or finds it pending and looks again, which is a stutter, or is the last.
- `ServerStatus`: the types of the requests are chosen at the start, so all pairs of
  commands are covered; two are what two browsers need to race, and what one flag
  needs to be set before and after it is spent. One break lets a status be lost,
  overtaken, or sent around the reconnection; a second that falls into the repetition
  itself is left to the proofs, which hold for every bound (with two requests it
  multiplies the states by more than three). `MaxInFlight` holds back the sender as a full socket
  does.
- `StringBuffer`: `MaxText` 7 spans the whole buffer of 3 x 2 characters, so one
  append may drop several heads and even its own start; `MaxWritten` 12 lets
  every node be dropped twice. The positions make the model finite; the
  structure of the list does not depend on them.
- `ConsoleFeed`: the hazards are between a client that joins, the server's reader and
  one more client, which may be stuck; of two kinds, as their locks differ. One
  piece is before, within or after the joining of each. The status that a
  terminal broadcasts is a second message to the other client. More pieces and
  clients are left to the proofs, which cover every safety property of the
  run and the safety of the refinement.
- `FrameStream`: 3 frames let the second be taken for data of the first and the third
  be cut by it; 4 bytes exceed the buffer of 3 by the one that makes a frame come in
  two pieces, and are less than what two frames bring together. Longer frames
  repeat the turns of a loop.
- `FileTransfer`: 7 bytes are three turns of a loop of 3, the last of them short;
  every range with and without its ends, inside, across and behind the end of the file.
  `SizeT` 32 is beyond any sum of lengths, as 2^64 is, so that only what is
  negative wraps around.

### Fairness, and what justifies it

- `ServerRegistry`: a thread that waits neither for a peer nor for `SerMutex`
  takes its next step (they are threads of the operating system). On a socket that
  `stop()` has shut, `recv` returns what had come before and then nothing: a
  client that gets back to it again and again ends (strong fairness, since in between it
  may forward a command). Nothing is assumed of peers, of writes to a game server
  (`ForwardEnds`), nor that a lock is granted in turn: `SectionReleased` is about threads
  that have it. It holds under less than fairness to every thread: not all destructors,
  nor all clients, stand still for ever.
- `TaskSessions`: a handler and a task thread take their next step when they
  can. `createTask` counts its looks, so `PollTimeout` ends the waiting whether
  or not the game server ever connects: no fairness for `Connect` or `Join`. None for
  `PeerDone` or `PeerGone` either: a game server that joined may keep silent for ever.
- `StringBuffer`: the thread that appends goes on; it waits for nobody.
- `ConsoleFeed`: a thread of the manager makes its next step when it can (`ServerRead`,
  `ClientStep`). A send to a client that has stopped reading may block for ever;
  it comes to an end (`Sendable`) when the peer reads, when the connection is broken, or
  while the client is being added, when its socket buffer is all but empty.
  Nothing is assumed of pieces, breaks or leaving.
- `FrameStream`: the reader's thread goes on when its `recv` has something to return.
  The peer need not write or close, and the write that hands on need not return.
- `FileTransfer`: the manager's and the game server's thread go on as long as their
  peers do. A send or a `recv` waits for a peer that stands still; the `recv` for a body
  has a time-out of five seconds (`request.h:214`). No peer is assumed to go on, and no
  connection to break.

Liveness properties end in `\/ ~Running`: a process that has run into undefined
behaviour owes nothing.

## 4. What the code does not do as it says

Four runs end in a violation on purpose; each checks one sentence of a comment
or document, and `findings` in `PROJECT.json` quotes it.

1. `registry_drained`: the destructor "waits until all controllers have
   disconnected", but its loop runs only while both lists have members.
2. `tasks_bounded`: `getfile` gives back slots that it does not have.
3. `status_followed`: a reconnection between the launcher's send of a status and its
   store repeats the old status, which reaches the manager last and stays. A game
   that runs is then STOPED to the manager, and stop, suspend, reboot and
   force-shutdown are refused until the next reconnection or end of the game.
4. `frames_length`: the length of a frame "decides how many bytes are received", and
   `server_read` receives up to 2047 whatever it says.

Also seen in the models, as steps that set `fault`, wait for ever or do something
else than they say. Of two servers with one id that announce themselves at the same time
both are answered OK and one is registered (`CheckSerID`, `ServerConstruct`); a
terminal that could not take `SerMutex` unlocks it (`TerminalUnlock`); a controller
whose server leaves after the id check dereferences a null pointer
(`ControllerConstruct`); a terminal whose connection breaks while a frame's head is
sent leaves its `writeMutex` locked (`WriteHead`), and if it is just being added, its
thread waits for it inside `SerMutex`, and no server, controller or terminal
joins any more (`AttachEnds` excepts this). When one terminal releases the lock that another has taken, the
server that this one has checked may go before it looks it up again: it is then attached
to a server of another user with the same id, or dereferences null (`TerminalLookup`).
A destructor waits for its clients with `SerMutex` locked, and one of them may be writing
to the very game server that has stopped reading: nobody joins any more until that
connection breaks (`ForwardEnds`, excepted by `SectionReleased`). A console line may
reach a client twice or in another order (`FeedPromise`); a writer may use a client
that was deleted (`WriteFreed`). A range that goes beyond the file announces more than
the file holds ("5-12" of 10 bytes, `respone.h:178`), "0-0" serves the whole
file, "-b" is read as 0 to b, and the Content-Range of "5-" ends at the length less
one (`respone.h:187-190`); `getRange` returns -2 for a missing
range where its comment says -1 (`request.h:55`); `sendHeader` never returns less than 0,
so `getfile` does not notice that it failed (`webAPI.h:193`). A
controller with a foreign user id makes `controller_join` join a thread that was
never made (`ControllerForbidden`); a terminal that ends by itself removes
itself from a Server that may be gone (`TerminalRemove`); `getBackups` never
leaves its loop when the game server closes (`Spin`) and loses its slot when an
answer is broken; `fileUpload` never leaves its loop when the body has ended early and the
game server is gone (`Spin`, `Dry`); a request to a peer that stands still keeps its slot
and its task thread for ever (`UseStalls`); with every id taken `createTask` draws for ever (`DrawID`);
`webAPI` uses the Server after it released `SerMutex` (`ServerReplaced`,
`UseFreedServer`); an upload that broke off is reported as a success, since -1 is
not `<= 0` in a `size_t` (`Outcomes`); for the same reason `acceptFile` takes a connection
that was reset for a length, and may write what it never received (`StoreReset`); a
status that is sent inside a line, or arrives with one, becomes console text, and what
follows may be taken for a status or drop the server (`TakenForText`, `WriteInside`); a
command longer than 2047 bytes is received behind the client's buffer (`ClientCommand`); a status or a console line that is sent after
the manager closed the connection ends the client by SIGPIPE (`BrokenPipe`); a
force-shutdown before the first fork kills the client's own group
(`KillOwnGroup`), and one of a game that is gone already leaves STOPPING until the
launcher's next status; a launch that is accepted in STOPPING wakes the next
suspension at once.

## 5. Proofs

All theorems are checked by TLAPS to the last leaf and hold for any sets of
connections, ids, users and requests and any limits, under the assumptions of
the modules: `ConnAssumption` (kinds of connections are disjoint, `None` is none
of them), `TaskAssumption` (finitely many requests, distinct null values),
`SizeAssumption` (at least one node, of at least two bytes), `StatusAssumption`
(finitely many requests), `FeedAssumption` (kinds of clients and of messages are
disjoint), `StreamAssumption` (a head of at least one byte, a buffer of at least two)
and `TransferAssumption` (a buffer of at least one byte, a `size_t` wider than any
length). TLC evaluates these on every run. Each safety property that a passing run
checks is the conclusion of a theorem, and so is the safety part of both
refinements.

**ServerRegistryProofs.** `Invariance` proves `IndInv`, from which the seven
safety properties of `registry_safety` and `HalfDrained` (one of the two lists is
empty when a Server is freed) follow (`TypeCorrect`, `MutexOwned`,
`NoDangling`, `ClientsServed`, `SameUser`, `Drained`, `NobodyLate`,
`ErasedWithNamesake`). None of them is inductive alone:

- `Announced`: a thread past `Accept` has ids, a client inside has a pointer.
  Without it `SerList[sid[t]]` has no type.
- `SerMutexOwner` is needed for everything about the destructor: that nobody
  else is inside is why no client is added while it waits.
- `SlotKept`: the slot of a freed Server stays empty while a client points to
  it, so that `AttachedSameUser` does not speak of a later Server. The model
  guarantees it by the guard of `Accept`: an address that is reused is left out.
- `CheckStands` is why a terminal is attached to a Server of its user: while nobody
  released the lock for somebody else, the entry that it has checked is the one it
  reads next. Without it `AttachedSameUser` is lost between the two.
- `Listing` strengthens `ListedClientsServed`: lists of freed Servers are empty,
  and a client that was shut has a Server that is waiting or gone. This is what
  lets a closed terminal skip `remove` without a stale entry to broadcast to.
- `HalfDrained` needs `Listing` and `SerMutexOwner`.

The proof has one lemma per conjunct and in each one step per action. The two
action properties are proved from `IndInv`.

`SectionsGoOn` is the part of `SectionReleased` that takes no fairness: a destructor waits
with `SerMutex` locked, but every controller it waits for has been shut down (`ShutDown`)
and is in no section of `SerMutex` (`TerminalsOnly`): it leaves, is in `recv`, or is in a write to
the game server, which is the exception of `SectionReleased`. A client that is being added
has a living Server (`AddedToLiving`), and a terminal that has checked an entry finds it
(`CheckStands`). This only holds as long as no busy terminal has released the lock.

**TaskSessionsProofs.** `SlotsCorrect` is proved from `SlotInv` (types, `IdleKind`:
a request has a kind once it has begun, `SlotsExact`), with two lemmas on the
cardinality of `Holders` when one request enters or leaves it. The others follow
from `SessionInv`: `IdDrawn` and `EndKnown` (a phase knows its id or its result),
`Fresh` (what a request has not reached is in its initial state), `MutexHeld`
(the phase of a request determines whether its mutex is locked), `MutexNamed`
(an id leads to the mutex of a request that drew it) and `SoleOwned`: for an id
only one request drew, `taskList`, `taskMutex` and the parked thread are all that
request's own. `SoleOwned` is why neither a time-out nor a late join can give a handler
another's socket. An id counts as drawn by its request until the next restart,
so that a request that draws an id which an earlier one gave up is a clash too.

`ParkedReleased` and `SessionsRunOut` are the parts of `TaskThreadEnds` and `RequestEnds`
that take no fairness. The first follows from `SessionInv` with `ReleaseInv`: a locked
mutex has a handler in a phase that ends with unlocking it (`Locks`), also when two drew
the same id. The second has a measure: each phase of a handler, of a task connection and of
its peer has a number (`StepsLeft`), and every step makes the sum for its request
smaller and for no other larger. What is left when a handler has no step left is part of
the theorem: it has returned, or it is in one of the `Endless` phases, so that no other place
is left where a handler could stay. Drawing again when all ids are taken changes
nothing; a restart begins anew.

**StringBufferProofs.** `BufferInv` is `TypeOK` and `ListConsistent`, which need
each other: that a node is not overfilled follows from `cur_len` being the
length of its data, and the list being no longer than `max_len` from `cur_len`
counting its nodes. With them the unsigned `available` never wraps around.

What the nodes hold is `TextInv`: they hold the numbers behind `Dropped` without a
gap, all of them full but the tail (`Holds`); the text that is still to be appended
follows (`Put`); and nothing was dropped before there were `max_len` nodes. From it
follow `GotFits` and `BufferKeepsRecent`, the refinement of `RecentText`: `TextKept`
says that the text of every state is within the bounds and is the latest there is,
`TextExtended` and `RecentStep` map each call to a step of `RecentText` or a stutter.
The text of the list is `FlattenSeq` of its nodes, a recursive function. That it is
the nodes one behind the other (`Joined`) is proved without a rule of induction: an
index where it fails would have a least one (`LeastIndex`, from the well-foundedness
of `<` on the naturals), and the equation of the function at that index says that it
does not fail there. `RecursionShrinks` is why `buffer_append` returns: while it appends
every step decreases `ToDo`, a natural number that counts two calls for a character and
one more for a tail that has no room.

**ServerStatusProofs.** Three invariants, each on top of `TypeOK`:

- `AgreeInv` for `StatusesAgree`: `MarksClose` (only a request to close marks the
  status) and `Followed`, which says that unless two calls overlapped, what was
  told is recorded and repeated, and the last frame under way, or with none
  the manager's status, is that report (`LastReport`) unless one of this
  connection was taken for text. The property alone says
  nothing while frames are under way, so it is not inductive.
- `PaidInv` for `WakesArePaid` and `SuspensionsArePaid`: `InTransit` (a frame under
  way to the client is of one request, which waits for it, so no request is carried
  out twice) and `FlagKept` (the flag that `Wait` has seen is still set in `Sleep`).
  Two lemmas on cardinalities say what a request that sets a flag pays.
- `HeldInv` for `SuspendIsHeld`: `FlagHeld`, `StopHeld` (a stop that is no longer in
  the pipe was read by a game that is gone, and the launcher is on its way to the
  suspension) and `OneGame` (the launcher waits for a game that is up).

**ConsoleFeedProofs.** Every safety property of the run, and `FeedKeepsPromise`: the
safety part of the refinement.

- `BodyLocked` for `FramesStayWhole`: whoever is in the body of a frame has the lock of
  that client. `FramesWhole` alone does not say why a second writer waits.
- `GreetingInv` for `GreetingComesFirst`: the phase of a client's thread determines
  how far its greeting is (`GreetingPhases`); while it is under way its owner
  holds `cliMutex`, which is why no broadcast can start, and a
  greeting that was lost was so on a broken connection, which stays broken.
- `Followed` and `HistoryBegun` for `FeedHasNoGap`: from the copying of the history on,
  before `NoGap` speaks of it, a client has a thread for each piece that is in the
  history and not in its copy.
- `PromiseInv` for the refinement: `Numbered` (threads, history and copies only know
  pieces that were read) and `BeforeAttaching` (a client that has not been listed has
  nothing). One lemma per action maps it to a step of `FeedPromise` or to a stutter.
- `NothingSentTwice` from `PromiseInv` and `StatusUnsent` (a terminal's status is only begun
  when it joins): no action begins a frame again.
- `LocksInOrder`, the part of `FeedNotHeld` and `AttachEnds` that takes no fairness, from
  these, `NothingBefore`, `LocksUsed` (the lock of a socket belongs to a frame whose head was
  sent or failed) and `MutexesUsed` (who has `cliMutex` is being greeted, and who has
  `sbMutex` waits for `cliMutex`): the locks are taken in one order, and a terminal that
  is greeted finds the lock of its socket free, since nothing else is begun for it yet.

**FrameStreamProofs.** `InStepWhenOrderly`, `HistoryWithoutT` and `LeavesForReason`
are the table of section 2, for frames, heads and buffers of any length and any way
TCP cuts them. All follow from `FrameInv`: once a status was sent inside a line only types and
the origin of the bytes are left of it (`InsideInv`), until then it is `StreamInv`:

- `WireInv`: the bytes under way are the frames written, whole, in order and without a
  gap, from `Place` on, the first byte that was not received yet.
- `ReaderInv`: as long as the stream was `Orderly`, which is the condition of the table,
  the data before `Place` was handed on, in order, and nothing else (`HandedInv`), and
  the loop stands at a head or in the data of the frame that it takes it for
  (`Standing`). `KeepsStep` alone does not say where in the stream the loop is.
- `CrashInv`: a loop that wrote behind its buffer was told a length beyond it, or had a
  frame cut. `HistoryInv`: what the server's loop keeps of frames that come `Apart` is
  their text without its T.

`ReadersRunOut` is why a loop does not outlive its connection: each of its steps, and once
the connection has ended every step, uses up some of `Fuel`, two for a byte under way,
two for a connection that was reset, what is left of its round, and one for the return from
handing on. It does not say that this return comes: `EndsWithConnection` excepts that.

**FileTransferProofs.** For any file, range, buffer and width of `size_t`:

- `FilesInOrder` from `Inv`: `FileInv` (while nothing was lost the reader stands behind
  what was sent, and what it has to read is the rest of what was announced),
  `UploadInv` and `ViewInv` (the bytes under way, and those in the buffer, follow the
  ones that have arrived). Of what a game server stored after it took -1 for a length
  (`stray`) nothing is said but that its connection is down and nothing is under way.
- `FilesServed` and `UploadsStored` from `Inv` and `Ends`, which has a part for each of
  the three kinds: a loop over a file ends where what was announced or the file ends; an
  upload whose body is long enough has text to send in every round, and `acceptFile`
  says OK only when it stored what it was told; a view counts what it relays. That a
  range of the file is announced as long as it is needs that no number of it wraps
  around in a `size_t` (`RangeServed`).
- `SurplusIsFile`: what `parseHeader` takes off the Content-Length leaves the length of
  the file, whatever the boundary and the headers.
- `TransfersRunOut` is why a transfer of each kind does not go on for ever: each step of the
  manager and of the game server, and `StoreReset`, decreases `ToDo`, and no other step
  increases it. A peer that stands still takes steps away and adds none. For a file it counts
  the bytes that its loop may still send (`FileWork`), for an upload what is left of
  the body times the longest round, and the rest of this round (`UploadWork`), with what
  `acceptFile` has not stored or, after a -1, not noticed (`Unstored`), and for a view what is left and under way
  (`ViewWork`). The loop that sends counts a -1 backwards (`resent`), less often than the
  buffer has bytes (`RoundInv`). The one exception is `Dry`, which `TransferEnds` makes too.

**Only model-checked.** Liveness under fairness: `SectionReleased`, `RequestEnds`,
`TaskThreadEnds`, `AppendEnds`, `FeedNotHeld`, `AttachEnds`, `EndsWithConnection`,
`TransferEnds` and the fairness in `ImplementsFeedPromise`; the provers have no rule
for ENABLED, on which fairness rests. What takes no fairness of them is proved: that
loops, sessions and transfers do not go on for ever (`RecursionShrinks`, `ReadersRunOut`,
`SessionsRunOut`, `TransfersRunOut`), and that nobody waits for somebody who waits for it
(`ParkedReleased`, `SectionsGoOn`, `LocksInOrder`). That the threads do go on is left to
TLC.

## 6. Plan

Done: 1 `ServerRegistry`, 2 `TaskSessions`, 3 `StringBuffer` with `RecentText`, 4
`ServerStatus`, 5 `ConsoleFeed` with `FeedPromise`, 6 `FrameStream`, 7 `FileTransfer`.
Left, in the order of what would matter most:

8. `TaskSessions` composed with `ServerRegistry`: the Server a handler uses is
   the one that may be destroyed, with descriptors that are used again.
9. Measures, as in `SessionsRunOut`, for all the threads of `ConsoleFeed` together: the
   sum over its clients and messages, which takes the theorems on finite sets.

## 7. Not modelled, and why

Text of requests, responses and refusals, and its parsing: formatting that no property
is about. The WebSocket handshake is a hash. Contents of directory and
backup lists; socket calls that fail for want of resources; `malloc` returning null; the
heap (`buffer_reconstruct` frees nodes and not their data; files whose header could not
be sent stay open); files of more than 2 GiB, whose lengths `atoi` cannot read
(`request.h:198`); a GET whose text comes in more than one piece, which `http_GET`
reads as if it had ended; a partial write of a frame on a working connection, after
which `writeSocketData` would send the length of the whole again (`classFunDef.h:77`): a
blocking socket takes everything unless the connection breaks; descriptors that are
used again after a second `shutdown` (`route.h:98`); a Server that is
destroyed while messages to its clients are in flight: `ConsoleFeed` has a Server that
stays; a fork that fails and the SIGINT that ends the client;
numbers of processes that are used again; the commands of the manager's own console, which change nothing; the web
pages, which keep only what they show; the socket helpers, which wrap single calls.
`statMutex` and `SrcMutex` appear as the atomicity of the steps they guard, and so do
`sbMutex` and `cliMutex` outside `ConsoleFeed`.
