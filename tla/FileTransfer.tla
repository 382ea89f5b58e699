----------------------------- MODULE FileTransfer -----------------------------
(***************************************************************************)
(* One file on its way: from web/ to a browser (outputFile, with and       *)
(* without a range), from a browser to a game server (fileUpload, which    *)
(* reads the body of a POST with HTTPFileReader, and acceptFile), or from  *)
(* a game server to a browser (viewfile and getfile).                      *)
(*                                                                         *)
(* A byte of a file is its offset.  The sockets block and have no timeout  *)
(* for sending: a send takes all it is given, unless the connection breaks *)
(* or its peer stands still, when it waits.  SIGPIPE is ignored            *)
(* (manager.cpp:29).  The connection to the game server is one that        *)
(* createTask returned: TaskSessions says how it comes about and goes.     *)
(***************************************************************************)
EXTENDS Integers, Sequences

CONSTANTS
  MaxSize,                \* bound on the length of a file and on what is asked of it
  Chunk,                  \* the length of the buffer of every loop
  SizeT,                  \* a size_t is a number modulo SizeT
  BoundaryLen, PartHead   \* lengths of the boundary and of the header lines of a part

ASSUME TransferAssumption ==
  /\ MaxSize \in Nat /\ BoundaryLen \in Nat /\ PartHead \in Nat
  /\ Chunk \in Nat \ {0}
  /\ SizeT \in Nat /\ SizeT > MaxSize + 1 /\ SizeT > Chunk

VARIABLES
  job,             \* what was asked for
  size,            \* the length of the file, which may change while it is viewed
  phase,           \* where the manager's handler stands
  pos, left,       \* the reader's place in the file, and what it has yet to read
  buffer,          \* what fileUpload read last
  total, resent,   \* fileUpload: total_recv and total_resend_len; getfile: total
  announced,       \* the length that the receiver was told, or None
  head,            \* the frame head of viewfile: its length, or None or Refused
  wire,            \* bytes between the manager and the game server
  got,             \* the bytes that the receiver has
  browser, link,   \* the connections to the browser and to the game server
  gs,              \* the game server's thread
  stray,           \* history: acceptFile took the -1 of recv for a length
  answer,          \* what fileUpload or getfile answers
  missed, shrunk   \* a read of the body has failed; the file has become shorter

readVars == <<pos, left>>
loopVars == <<buffer, total, resent, missed>>
peerVars == <<head, wire, link, gs, stray>>
vars == <<job, size, phase, readVars, loopVars, announced, peerVars, got,
          browser, answer, shrunk>>

None    == -1
Refused == -2
Absent  == -1

Sizes == 0..MaxSize
Least(m, n) == IF m < n THEN m ELSE n

\* The bytes of a file from offset a up to b.
File(a, b) == [i \in 1..(b - a) |-> a + i - 1]

\* What fread returns from offset p of a file of length z for a buffer of n bytes.
Fread(p, n, z) == File(p, Least(p + n, z))

\* A byte that no file has at any offset: what acceptFile writes and never received.
Junk == MaxSize

\* What a send may take of n bytes; less than all only as the connection breaks.
\* A connection whose peer stands still takes nothing.
Accepts(link_, n) ==
  IF link_ = "up" THEN 0..n ELSE IF link_ = "down" \/ n = 0 THEN {0} ELSE {}
After(link_, k, n) == IF k = n THEN link_ ELSE "down"

-----------------------------------------------------------------------------
(* Requests.                                                               *)
(* A definition Name_Bug is Name with a bug that its code could have had;  *)
(* it is part of no behaviour and serves to see which property notices.    *)

\* A Range header is absent, or no range, or bytes=first-last, where either may
\* be missing.  http_GET reads one piece of 1023 bytes: a header behind it is absent.
Headers == [range : {"none", "garbage"}, first : {Absent}, last : {Absent}] \cup
           [range : {"bytes"}, first : Sizes \cup {Absent}, last : Sizes \cup {Absent}]

NoRange == [range |-> "none", first |-> Absent, last |-> Absent]

Jobs ==
  [what : {"file"},   header : Headers,   len : {0}] \cup
  [what : {"upload"}, header : {NoRange}, len : Sizes \ {0}] \cup
  [what : {"view"},   header : {NoRange}, len : {0}]

\* atoi makes 0 of a missing number, and what is no range is -2.
getRange(header, part) ==
  IF header.range # "bytes" THEN -2
  ELSE IF header[part] = Absent THEN 0 ELSE header[part]

\* The length of a multipart body with one part, and what parseHeader takes the
\* length of the file to be: record counts the first boundary, the header lines,
\* the empty line and the end of line behind the file.
ContentLength(n) == (BoundaryLen + 2) + PartHead + 2 + n + 2 + (BoundaryLen + 4)
fileLength(n) ==
  LET record == (BoundaryLen + 2) + PartHead + 2 + 2 IN
    ContentLength(n) - record - 4 - BoundaryLen

Init ==
  /\ job \in Jobs /\ size \in Sizes
  /\ phase = "route"
  /\ pos = 0 /\ left = 0
  /\ buffer = <<>> /\ total = 0 /\ resent = 0 /\ missed = FALSE
  /\ announced = None
  /\ head = None /\ wire = <<>> /\ link = "up" /\ gs = "open"
  /\ stray = FALSE /\ got = <<>> /\ browser = "up" /\ answer = "none" /\ shrunk = FALSE

-----------------------------------------------------------------------------
(* Files of web/. *)

RangeFirst == LET first == getRange(job.header, "first") IN
                IF first < 0 THEN 0 ELSE first
RangeLast  == getRange(job.header, "last")

\* The last byte is not counted.
RangeLength_Open ==
  LET asked == IF RangeLast > 0 THEN RangeLast - RangeFirst
                                ELSE size - RangeFirst
  IN Least(asked % SizeT, size)

\* The numbers meet in a size_t, where a negative one is large.
RangeLength ==
  LET asked == IF RangeLast > 0 THEN RangeLast - RangeFirst + 1
                                ELSE size - RangeFirst
  IN Least(asked % SizeT, size)

\* httpRoute and the heads of the two outputFile: a header that cannot be sent
\* ends them.
OutputFile ==
  /\ phase = "route" /\ job.what = "file"
  /\ IF job.header.range = "none"
     THEN announced' = size        /\ pos' = 0          /\ left' = 0
     ELSE announced' = RangeLength /\ pos' = RangeFirst /\ left' = RangeLength
  /\ \/ /\ browser # "down"
        /\ phase' = IF job.header.range = "none" THEN "whole" ELSE "range"
        /\ UNCHANGED browser
     \/ browser' = "down" /\ phase' = "done"
  /\ UNCHANGED <<job, size, loopVars, peerVars, got, answer, shrunk>>

\* One turn of either loop.  A loop ends at a short read, when nothing was read,
\* and when a send fails; after a part was sent it tries the next one.
SendFile ==
  /\ phase \in {"whole", "range"}
  /\ LET asked == IF phase = "whole" THEN Chunk ELSE Least(Chunk, left)
         bytes == Fread(pos, asked, size)
         count == Len(bytes)
     IN \E k \in Accepts(browser, count) :
          /\ pos' = pos + count
          /\ left' = IF phase = "range" THEN left - count ELSE left
          /\ got' = got \o SubSeq(bytes, 1, k)
          /\ browser' = After(browser, k, count)
          /\ phase' = IF count < asked \/ k = 0 THEN "done" ELSE phase
  /\ UNCHANGED <<job, size, loopVars, announced, peerVars, answer, shrunk>>

-----------------------------------------------------------------------------
(* Uploads. *)

Answer(what) == answer' = what /\ phase' = "done"

\* An empty file is refused.
StartUpload ==
  /\ phase = "route" /\ job.what = "upload"
  /\ \/ size = 0 /\ Answer("refused") /\ UNCHANGED <<announced, left>>
     \/ /\ size > 0
        /\ left' = fileLength(size)
        /\ announced' = job.len
        /\ phase' = "read"
        /\ UNCHANGED answer
  /\ UNCHANGED <<job, size, pos, loopVars, peerVars, got, browser, shrunk>>

\* HTTPFileReader::read, which has all it asks for or nothing to show for it;
\* what a read took before it failed, after five seconds or with the browser, is
\* lost.  With no surplus it takes the line of the boundary and returns 0.
ReadUpload ==
  /\ phase = "read" /\ phase' = "send"
  /\ LET n == Least(Chunk, left) IN
       /\ left' = left - n
       /\ \/ /\ n > 0 /\ browser # "down"
             /\ buffer' = File(pos, pos + n) /\ pos' = pos + n
             /\ UNCHANGED missed
          \/ /\ n > 0 /\ missed' = TRUE
             /\ buffer' = <<>> /\ \E k \in 0..(n - 1) : pos' = pos + k
          \/ /\ n = 0 /\ buffer' = <<>>
             /\ UNCHANGED <<pos, missed>>
  /\ total' = total + Len(buffer')
  /\ UNCHANGED <<job, size, resent, announced, peerVars, got, browser, answer, shrunk>>

\* A round of sends is over; the loop goes on until len bytes were read.
EndRound == resent' = 0 /\ phase' = IF total < job.len THEN "read" ELSE "ack"

\* A read that failed goes unnoticed while the connection is up.
SendUpload_Careless ==
  /\ phase = "send" /\ link # "stalled"
  /\ LET n == Len(buffer) IN
       \/ /\ link = "up"
          /\ wire' = wire \o buffer
          /\ EndRound /\ UNCHANGED <<link, answer>>
       \/ /\ link = "up" /\ link' = "down"
          /\ \E k \in 1..(n - 1) : wire' = wire \o SubSeq(buffer, 1, k) /\ resent' = k
          /\ UNCHANGED <<phase, answer>>
       \/ /\ link = "down" \/ n > 0
          /\ link' = "down"
          /\ IF (resent - 1) % SizeT >= n THEN EndRound
             ELSE resent' = (resent - 1) % SizeT /\ UNCHANGED phase
          /\ UNCHANGED <<wire, answer>>
  /\ UNCHANGED <<job, size, readVars, buffer, total, missed, announced, head, gs, stray,
                 got, browser, shrunk>>

\* One call of send for the buffer.  send_len is a size_t: 0 is noticed and -1 is
\* not, it makes total_resend_len go backwards, below zero in the end, where it is
\* large.  A call after a part was sent goes to a broken connection.
SendUpload ==
  /\ phase = "send" /\ link # "stalled"
  /\ LET n == Len(buffer) IN
       \/ /\ link = "up" /\ n > 0
          /\ wire' = wire \o buffer
          /\ EndRound /\ UNCHANGED <<link, answer>>
       \/ /\ link = "up" /\ n = 0
          /\ Answer("lost") /\ UNCHANGED <<wire, link, resent>>
       \/ /\ link = "up" /\ link' = "down"
          /\ \E k \in 1..(n - 1) : wire' = wire \o SubSeq(buffer, 1, k) /\ resent' = k
          /\ UNCHANGED <<phase, answer>>
       \/ /\ link = "down" \/ n > 0
          /\ link' = "down"
          /\ IF (resent - 1) % SizeT >= n THEN EndRound
             ELSE resent' = (resent - 1) % SizeT /\ UNCHANGED phase
          /\ UNCHANGED <<wire, answer>>
  /\ UNCHANGED <<job, size, readVars, buffer, total, missed, announced, head, gs, stray,
                 got, browser, shrunk>>

\* The manager does not wait for the game server.
AwaitOK_Not ==
  /\ phase = "ack"
  /\ Answer("success")
  /\ UNCHANGED <<job, size, readVars, loopVars, announced, peerVars, got, browser, shrunk>>

\* The recv for the two bytes of OK returns with them or without.
AwaitOK ==
  /\ phase = "ack" /\ ((gs = "said" /\ link = "up") \/ link = "down")
  /\ Answer("success")
  /\ UNCHANGED <<job, size, readVars, loopVars, announced, peerVars, got, browser, shrunk>>

\* acceptFile takes what has come, up to the length it was told, and says OK.
Store ==
  /\ job.what = "upload" /\ gs = "open" /\ announced # None
  /\ link # "stalled" /\ ~stray
  /\ \/ /\ Len(got) < announced
        /\ \E k \in 1..Least(Len(wire), announced - Len(got)) :
             /\ got' = got \o SubSeq(wire, 1, k)
             /\ wire' = SubSeq(wire, k + 1, Len(wire))
        /\ UNCHANGED gs
     \/ Len(got) = announced /\ gs' = "said" /\ UNCHANGED <<got, wire>>
  /\ UNCHANGED <<job, size, phase, readVars, loopVars, announced, head, link, stray,
                 browser, answer, shrunk>>

\* A reset, with what it discards.  cnt is a size_t, so that `cnt <= 0' misses the -1
\* of recv: what acceptFile waits for grows by one, and fwrite is given a length that
\* no buffer has; it writes bytes that never came, if any.
StoreReset ==
  /\ job.what = "upload" /\ gs = "open" /\ announced # None
  /\ ~stray /\ Len(got) < announced
  /\ stray' = TRUE /\ link' = "down" /\ wire' = <<>>
  /\ \E junk \in {<<>>, <<Junk>>} : got' = got \o junk
  /\ UNCHANGED <<job, size, phase, readVars, loopVars, announced, head, gs, browser,
                 answer, shrunk>>

\* The next recv returns 0.
StoreFails ==
  /\ stray /\ gs = "open"
  /\ gs' = "gone"
  /\ UNCHANGED <<job, size, phase, readVars, loopVars, announced, head, wire, link, stray,
                 got, browser, answer, shrunk>>

-----------------------------------------------------------------------------
(* Views. *)

\* viewfile sends the length of the file, or that it cannot be opened.
OpenFile ==
  /\ job.what = "view" /\ gs = "open" /\ head = None
  /\ \/ link = "down" /\ gs' = "gone" /\ UNCHANGED <<head, left>>
     \/ link = "up" /\ head' = Refused /\ gs' = "said" /\ UNCHANGED left
     \/ /\ link = "up"
        /\ head' = size /\ left' = size
        /\ gs' = IF size = 0 THEN "said" ELSE "open"
  /\ UNCHANGED <<job, size, phase, pos, loopVars, announced, wire, link, stray, got,
                 browser, answer, shrunk>>

\* One turn of its loop, which ends when the file does, or its length then.
FeedFile ==
  /\ job.what = "view" /\ gs = "open" /\ head >= 0
  /\ LET asked == Least(Chunk, left)
         bytes == Fread(pos, asked, size)
         count == Len(bytes)
     IN \E k \in Accepts(link, count) :
          /\ pos' = pos + count /\ left' = left - count
          /\ wire' = wire \o SubSeq(bytes, 1, k)
          /\ link' = After(link, k, count)
          /\ gs' = IF k < count THEN "gone"
                   ELSE IF count < asked \/ left - count = 0 THEN "said" ELSE "open"
  /\ UNCHANGED <<job, size, phase, loopVars, announced, head, stray, got, browser, answer,
                 shrunk>>

\* The game server writes a file, a log say, while it is viewed.
Resize ==
  /\ job.what = "view" /\ gs = "open" /\ head >= 0
  /\ size' \in Sizes \ {size}
  /\ shrunk' = (shrunk \/ size' < size)
  /\ UNCHANGED <<job, phase, readVars, loopVars, announced, peerVars, got, browser, answer>>

\* getfile up to its loop.  sendHeader never returns less than 0, so a browser
\* that is gone is noticed with the first bytes.
GetHead ==
  /\ phase = "route" /\ job.what = "view"
  /\ \/ /\ head >= 0 /\ announced' = head
        /\ phase' = IF head = 0 THEN "done" ELSE "relay"
        /\ browser' \in {browser, "down"}
        /\ UNCHANGED answer
     \/ /\ head = Refused \/ link = "down"
        /\ Answer("failed") /\ UNCHANGED <<announced, browser>>
  /\ UNCHANGED <<job, size, readVars, loopVars, peerVars, got, shrunk>>

\* What is lost on its way to the browser is taken for sent.
Relay_Careless ==
  /\ phase = "relay"
  /\ \/ \E n \in 1..Least(Chunk, Len(wire)) : \E k \in 0..n :
          /\ got' = got \o SubSeq(wire, 1, k)
          /\ wire' = SubSeq(wire, n + 1, Len(wire))
          /\ total' = total + n
          /\ phase' = IF total' >= announced THEN "done" ELSE phase
     \/ /\ link = "down" \/ (gs # "open" /\ wire = <<>>)
        /\ phase' = "done" /\ UNCHANGED <<got, wire, total>>
  /\ UNCHANGED <<job, size, readVars, buffer, resent, missed, announced, head, link, gs,
                 stray, browser, answer, shrunk>>

\* One turn of its loop.
Relay ==
  /\ phase = "relay"
  /\ \/ \E n \in 1..Least(Chunk, Len(wire)) : \E k \in Accepts(browser, n) :
          /\ got' = got \o SubSeq(wire, 1, k)
          /\ wire' = SubSeq(wire, n + 1, Len(wire))
          /\ browser' = After(browser, k, n)
          /\ total' = total + k
          /\ phase' = IF k < n \/ total' >= announced THEN "done" ELSE phase
     \/ /\ link = "down" \/ (gs # "open" /\ wire = <<>>)
        /\ phase' = "done" /\ UNCHANGED <<got, wire, browser, total>>
  /\ UNCHANGED <<job, size, readVars, buffer, resent, missed, announced, head, link, gs,
                 stray, answer, shrunk>>

-----------------------------------------------------------------------------
(* Connections that break, and the specification. *)

BrowserGone ==
  /\ browser # "down" /\ browser' = "down"
  /\ UNCHANGED <<job, size, phase, readVars, loopVars, announced, peerVars, got, answer,
                 shrunk>>

\* The game server cannot create or write the file, or dies.
GameServerGone ==
  /\ job.what # "file" /\ gs = "open"
  /\ gs' = "gone" /\ link' = "down"
  /\ UNCHANGED <<job, size, phase, readVars, loopVars, announced, head, wire, stray, got,
                 browser, answer, shrunk>>

\* A peer stands still: it reads nothing more, or the machine is gone without a word.
\* What the manager then sends, or waits for, waits until the connection breaks.
Stall ==
  /\ \/ browser = "up" /\ browser' = "stalled" /\ UNCHANGED link
     \/ job.what # "file" /\ link = "up" /\ link' = "stalled" /\ UNCHANGED browser
  /\ UNCHANGED <<job, size, phase, readVars, loopVars, announced, head, wire, gs, stray,
                 got, answer, shrunk>>

Manager    == \/ OutputFile \/ SendFile
              \/ StartUpload \/ ReadUpload \/ SendUpload \/ AwaitOK
              \/ GetHead \/ Relay
GameServer == Store \/ StoreFails \/ OpenFile \/ FeedFile

Next == \/ Manager \/ GameServer \/ Resize
        \/ BrowserGone \/ GameServerGone \/ StoreReset \/ Stall

Spec == Init /\ [][Next]_vars

(***************************************************************************)
(* The threads go on while their peer does: a send to it and a recv wait   *)
(* only for a peer that stands still, the recv for a body gives up after   *)
(* five seconds, and the threads of the game server's client do not wait   *)
(* for each other.  No connection is assumed to break or to be reported.   *)
(***************************************************************************)
FairSpec == Spec /\ WF_vars(Manager) /\ WF_vars(GameServer)

-----------------------------------------------------------------------------
(* Safety. *)

TypeOK ==
  /\ job \in Jobs /\ size \in Sizes
  /\ phase \in {"route", "whole", "range", "read", "send", "ack", "relay", "done"}
  /\ pos \in Nat /\ left \in Nat /\ total \in Nat /\ resent \in Nat
  /\ buffer \in Seq(Nat) /\ wire \in Seq(Nat) /\ got \in Seq(Nat)
  /\ announced \in Nat \cup {None}
  /\ head \in Nat \cup {None, Refused}
  /\ browser \in {"up", "stalled", "down"} /\ link \in {"up", "stalled", "down"}
  /\ gs \in {"open", "said", "gone"}
  /\ answer \in {"none", "refused", "lost", "success", "failed"}
  /\ missed \in BOOLEAN /\ shrunk \in BOOLEAN /\ stray \in BOOLEAN

Start == IF job.what = "file" /\ job.header.range # "none" THEN RangeFirst ELSE 0

\* However reads and sends fall short, connections break and the file changes
\* under its reader, the receiver has bytes of the file without a gap, from the
\* right one on, and never more of them than it was told, unless acceptFile took the
\* -1 of a connection that was reset for a length (file.h:206-227, wsFileUpload.h:73-91,
\* file.h:157-168, webAPI.h:200-211, respone.h:133-141, :204-219).
InOrder ==
  ~stray =>
    /\ got = File(Start, Start + Len(got))
    /\ got # <<>> => Len(got) <= announced

\* A range as the code can serve it: it begins in the file and has a first byte,
\* and its last byte is missing or behind the first one of the file.
Satisfiable ==
  LET h == job.header IN
    /\ h.range = "bytes"
    /\ h.first # Absent /\ h.first < size
    /\ h.last = Absent \/ (h.last >= h.first /\ h.last > 0)

\* A browser whose connection lasts has all it asked for in the end: the file, a
\* range of it, or the file of a game server that did not become shorter and whose
\* connection lasted; and that is what was announced, unless the range goes beyond
\* the end of the file.
Served ==
  phase = "done" /\ browser = "up" =>
    /\ job.what = "file" /\ job.header.range = "none" =>
         Len(got) = size /\ announced = size
    /\ job.what = "file" /\ Satisfiable =>
         LET end == IF job.header.last = Absent THEN size
                    ELSE Least(job.header.last + 1, size)
         IN /\ Len(got) = end - job.header.first
            /\ job.header.last < size => announced = Len(got)
    /\ job.what = "view" /\ announced # None /\ link = "up" /\ ~shrunk =>
         Len(got) = announced

\* An upload over a connection that lasted was stored to its last byte if its
\* sender is told so, and it is told so unless a read of the body failed or the
\* length was not that of the file.
Stored ==
  job.what = "upload" /\ phase = "done" /\ link = "up" =>
    /\ answer = "success" => Len(got) = job.len
    /\ ~missed /\ size > 0 /\ job.len <= size => answer = "success"

-----------------------------------------------------------------------------
(* Progress. *)

\* fileUpload goes round without end when the body has run dry and the game server
\* is gone: it then reads nothing and sends it to nobody.
Dry == phase \in {"read", "send"} /\ link = "down" /\ left = 0 /\ total < job.len

\* The manager waits for a browser that reads nothing more (respone.h:136, :214,
\* webAPI.h:203), or for a game server that neither reads nor sends
\* (wsFileUpload.h:79, :94, webAPI.h:170, :202).
Waits ==
  \/ browser = "stalled" /\ phase \in {"whole", "range", "relay"}
  \/ link = "stalled" /\ phase \in {"route", "send", "ack", "relay"}

\* Every transfer comes to an end, unless it goes round without end or waits for ever
\* for a peer that stands still.
TransferEnds == <>(phase = "done") \/ <>[](Dry \/ Waits)
=============================================================================
