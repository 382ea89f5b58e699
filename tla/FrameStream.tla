------------------------------ MODULE FrameStream ------------------------------
(***************************************************************************)
(* The frames on one connection and the loop that reads them, which is     *)
(* written four times: server_read and controller_read_socket of the       *)
(* manager, ReadRemoteData of the game server's client, and terminalRead   *)
(* with the readHeadFrame and readData of a WebSocket.  A recv without     *)
(* MSG_WAITALL returns any part of what has come and was asked for.        *)
(*                                                                         *)
(* A byte is <<k, i>>: the byte i of the data of frame k, or of its head    *)
(* when i <= 0.                                                            *)
(***************************************************************************)
EXTENDS Integers, SequencesExt

CONSTANTS
  MaxFrames, MaxLen,   \* bounds on what the peer writes
  HeadLen,             \* the length of a head
  Buf                  \* the length of the buffer of every reader

ASSUME StreamAssumption ==
  /\ MaxFrames \in Nat /\ MaxLen \in Nat
  /\ HeadLen \in Nat \ {0}
  /\ Buf \in Nat \ {0, 1}

VARIABLES
  kind,             \* whose loop it is
  written, wire,    \* the frames, and the bytes of them that are under way
  body,             \* the data of a line whose head ReadData has sent
  inside,           \* whether a status was sent between a head and its data
  link,             \* the connection
  phase, head,      \* where the loop stands, and the head it has parsed
  total,            \* the bytes of data that it has counted
  call,             \* what readData has put into its buffer
  handed, history,  \* what was handed on, and put into the history
  handing,          \* whether the loop is in the call that hands on
  together, cut     \* what has happened to the bytes on their way

streamVars == <<written, wire, body, inside>>
readerVars == <<phase, head, total, call>>
outVars    == <<handed, history, handing>>
vars       == <<kind, streamVars, link, readerVars, outVars, together, cut>>

Kinds   == {"server", "controller", "client", "terminal"}
Lengths == 0..MaxLen
Least(m, n) == IF m < n THEN m ELSE n

Garbled == <<0, 0>>

HeadOf(k)      == [i \in 1..HeadLen |-> <<k, i - HeadLen>>]
DataOf(k, len) == [i \in 1..len |-> <<k, i>>]
IsData(b)      == b[2] > 0

\* Console text starts with a T.
IsT(b) == b[2] = 1 /\ written[b[1]].op = "text"

\* What the peer of a reader sends besides text: status frames without data,
\* and commands.
Sent(who) ==
  [op : {"text"}, len : Lengths] \cup
  CASE who = "server" -> [op : {"other"}, len : {0}]
    [] who = "client" -> [op : {"other"}, len : Lengths]
    [] OTHER          -> {}

Init ==
  /\ kind \in Kinds
  /\ written = <<>> /\ wire = <<>> /\ link = "open"
  /\ body = <<>> /\ inside = FALSE
  /\ phase = "head" /\ head = [frame |-> 0, op |-> "text", len |-> 0]
  /\ total = 0 /\ call = <<>>
  /\ handed = <<>> /\ history = <<>> /\ handing = FALSE
  /\ together = FALSE /\ cut = FALSE

-----------------------------------------------------------------------------
(* The peer.                                                               *)
(* A definition Name_Bug is Name with a bug that its code could have had;  *)
(* it is part of no behaviour and serves to see which property notices.    *)

\* A frame that no other is written into: for the manager, ConsoleFeed has the
\* mutex that sees to it.
WriteFrame ==
  /\ link = "open" /\ body = <<>> /\ Len(written) < MaxFrames
  /\ \E f \in Sent(kind) :
       LET k == Len(written) + 1 IN
         /\ written' = Append(written, f)
         /\ wire' = wire \o HeadOf(k) \o DataOf(k, f.len)
  /\ UNCHANGED <<kind, body, inside, link, readerVars, outVars, together, cut>>

\* ReadData has SendMutex from the head of a line to its data.  setServerStatus
\* sends without it: what it sends comes between the two.
WriteInside ==
  /\ kind = "server" /\ link = "open" /\ body = <<>>
  /\ Len(written) + 2 <= MaxFrames
  /\ \E len \in Lengths \ {0} :
       LET k == Len(written) + 1 IN
         /\ written' = written \o <<[op |-> "text", len |-> len], [op |-> "other", len |-> 0]>>
         /\ wire' = wire \o HeadOf(k) \o HeadOf(k + 1)
         /\ body' = DataOf(k, len)
  /\ inside' = TRUE
  /\ UNCHANGED <<kind, link, readerVars, outVars, together, cut>>

WriteBody ==
  /\ link = "open" /\ body # <<>>
  /\ wire' = wire \o body /\ body' = <<>>
  /\ UNCHANGED <<kind, written, inside, link, readerVars, outVars, together, cut>>

\* The peer closes, or the connection is reset.
Close ==
  /\ link = "open"
  /\ link' \in {"closed", "reset"}
  /\ UNCHANGED <<kind, streamVars, readerVars, outVars, together, cut>>

-----------------------------------------------------------------------------
(* recv. *)

\* It takes n bytes.
Take(n) ==
  /\ wire' = SubSeq(wire, n + 1, Len(wire))
  /\ UNCHANGED <<kind, written, body, inside, link>>
Piece(n) == SubSeq(wire, 1, n)

\* It takes some of the bytes that are there, at most those asked for; whether
\* it left some that it could have had, and whether there were others behind
\* those of the frame, is noted.
Receive(n, asked) ==
  /\ n \in 1..Least(asked, Len(wire))
  /\ Take(n)
  /\ cut' = (cut \/ n < Least(asked, head.len - total))
  /\ together' = (together \/ Last(wire)[1] # wire[1][1])

-----------------------------------------------------------------------------
(* Heads.                                                                  *)

Quit == phase' = "ended" /\ UNCHANGED <<head, total, call, outVars>>

\* What a loop does when it has parsed the head h.
Begin(h) ==
  IF h.op = "other" /\ kind \in {"controller", "terminal"} THEN Quit
  ELSE /\ head' = h /\ total' = 0
       /\ phase' = IF h.len = 0 \/ (h.op = "other" /\ kind = "server")
                   THEN "head" ELSE "data"
       /\ UNCHANGED <<call, outVars>>

\* Bytes that are no head may look like one, or end the loop.
ReadHead ==
  /\ phase = "head" /\ Len(wire) >= HeadLen
  /\ LET k == wire[1][1] IN
       \/ /\ Piece(HeadLen) = HeadOf(k)
          /\ Begin([frame |-> k, op |-> written[k].op, len |-> written[k].len])
       \/ /\ Piece(HeadLen) # HeadOf(k)
          /\ \/ Quit
             \/ \E op \in {"text", "other"}, len \in Lengths :
                  Begin([frame |-> k, op |-> op, len |-> len])
  /\ Take(HeadLen) /\ UNCHANGED <<together, cut>>

ReadHeadFails ==
  /\ phase = "head" /\ Len(wire) < HeadLen /\ link # "open"
  /\ Quit
  /\ UNCHANGED <<kind, streamVars, link, together, cut>>

-----------------------------------------------------------------------------
(* Data.                                                                   *)

InText(who) == phase = "data" /\ head.op = "text" /\ kind = who

Counted(n) ==
  /\ total' = total + n
  /\ phase' = IF total + n >= head.len THEN "head" ELSE "data"
  /\ UNCHANGED head

\* The text is put into the history with its T.
ServerReceive_WithT ==
  /\ InText("server")
  /\ \E n \in 1..(Buf - 1) :
       /\ Receive(n, Buf - 1)
       /\ \/ n > head.len /\ Quit
          \/ /\ n <= head.len
             /\ Counted(n)
             /\ handed' = handed \o Piece(n)
             /\ history' = history \o (IF IsT(wire[1]) THEN Piece(n) ELSE <<>>)
             /\ UNCHANGED <<call, handing>>

\* A frame that comes in one piece is taken for one that is too long.
ServerReceive_Strict ==
  /\ InText("server")
  /\ \E n \in 1..(Buf - 1) :
       /\ Receive(n, Buf - 1)
       /\ \/ n >= head.len /\ Quit
          \/ /\ n < head.len
             /\ Counted(n)
             /\ handed' = handed \o Piece(n)
             /\ UNCHANGED <<call, history, handing>>

\* Every piece is tested for the T, and broadcast; a piece longer than the frame
\* drops the server.
ServerReceive ==
  /\ InText("server")
  /\ \E n \in 1..(Buf - 1) :
       /\ Receive(n, Buf - 1)
       /\ \/ n > head.len /\ Quit
          \/ /\ n <= head.len
             /\ Counted(n)
             /\ handed' = handed \o Piece(n)
             /\ history' = history \o (IF IsT(wire[1]) THEN Tail(Piece(n)) ELSE <<>>)
             /\ UNCHANGED <<call, handing>>

\* The buffer's length is asked for.
ControllerReceive_Buffer ==
  /\ InText("controller")
  /\ \E n \in 1..Buf :
       /\ Receive(n, Buf)
       /\ Counted(n)
       /\ handed' = handed \o Piece(n) /\ handing' = TRUE
       /\ UNCHANGED <<call, history>>

\* Every piece may be as long as the frame, the last one too.
ControllerReceive ==
  /\ InText("controller")
  /\ \E n \in 1..head.len :
       /\ Receive(n, head.len)
       /\ \/ /\ Counted(n)
             /\ handed' = handed \o Piece(n) /\ handing' = TRUE
             /\ UNCHANGED <<call, history>>
          \/ n > Buf /\ phase' = "crashed" /\ UNCHANGED <<head, total, call, outVars>>

\* Text for the game is received as it comes.
ClientReceive ==
  /\ InText("client")
  /\ \E n \in 1..Buf :
       /\ Receive(n, Buf)
       /\ Counted(n)
       /\ handed' = handed \o Piece(n) /\ handing' = TRUE
       /\ UNCHANGED <<call, history>>

\* The data of a command is received as a whole, of whatever length, with a zero
\* behind it, and handed to a thread of its own.
ClientCommand ==
  /\ phase = "data" /\ head.op = "other" /\ kind = "client"
  /\ Len(wire) >= head.len
  /\ \/ phase' = "head" /\ handed' = handed \o Piece(head.len)
     \/ head.len >= Buf /\ phase' = "crashed" /\ UNCHANGED handed
  /\ Take(head.len) /\ UNCHANGED <<head, total, call, history, handing, together, cut>>

\* Unmasking goes by how many bytes of the frame were unmasked before.
Unmasked(piece) ==
  [j \in DOMAIN piece |->
     IF piece[j] = <<head.frame, total + j>> THEN piece[j] ELSE Garbled]

\* readData asks for the whole of its need in every round, behind what it has,
\* and gives back the length of the last round only.
TerminalReceive ==
  /\ InText("terminal")
  /\ LET need == Least(head.len - total, Buf) IN
     \E n \in 1..need :
       LET got == call \o Piece(n) IN
         /\ Receive(n, need)
         /\ \/ /\ Len(got) >= need
               /\ Counted(n)
               /\ handed' = handed \o Unmasked(SubSeq(got, 1, n)) /\ handing' = TRUE
               /\ call' = <<>> /\ UNCHANGED history
            \/ /\ Len(got) < need
               /\ call' = got
               /\ UNCHANGED <<phase, head, total, outVars>>
            \/ /\ Len(got) > Buf
               /\ phase' = "crashed" /\ UNCHANGED <<head, total, call, outVars>>

\* recv has nothing to return, or not all that MSG_WAITALL waits for.
Starved ==
  phase = "data" /\ IF head.op = "other" THEN Len(wire) < head.len ELSE wire = <<>>

\* server_read goes on when recv fails.
ReceiveFails_Unnoticed ==
  /\ Starved /\ link # "open" /\ kind # "server"
  /\ link' = "closed"
  /\ phase' = "ended" /\ UNCHANGED <<head, total, call, outVars>>
  /\ UNCHANGED <<kind, streamVars, together, cut>>

\* recv returns 0, or -1 once and 0 from then on; unmasking -1 bytes runs wild.
ReceiveFails ==
  /\ Starved /\ link # "open"
  /\ link' = "closed"
  /\ \/ (kind = "server" \/ (kind = "client" /\ head.op = "other")) /\ Quit
     \/ kind = "controller" /\ phase' = "head" /\ UNCHANGED <<head, total, call, outVars>>
     \/ InText("client") /\ link = "reset" /\ UNCHANGED <<readerVars, outVars>>
     \/ kind = "terminal" /\ link = "closed" /\ Quit
     \/ /\ kind = "terminal" /\ link = "reset"
        /\ phase' = IF call = <<>> THEN "crashed" ELSE "data"
        /\ UNCHANGED <<head, total, call, outVars>>
  /\ UNCHANGED <<kind, streamVars, together, cut>>

-----------------------------------------------------------------------------
(* Handing on.                                                             *)

\* The game server has taken the text, or the game has: a controller, a terminal
\* and the client write it before they go on.
HandedOn ==
  /\ handing
  /\ handing' = FALSE
  /\ UNCHANGED <<kind, streamVars, link, readerVars, handed, history, together, cut>>

-----------------------------------------------------------------------------
Read ==
  /\ ~handing
  /\ \/ ReadHead \/ ReadHeadFails
     \/ ServerReceive \/ ControllerReceive \/ ClientReceive \/ ClientCommand
     \/ TerminalReceive \/ ReceiveFails

Next == WriteFrame \/ WriteInside \/ WriteBody \/ Close \/ Read \/ HandedOn

Spec == Init /\ [][Next]_vars

\* The thread of the loop goes on whenever its recv has something to return.  The
\* write that hands on may wait for ever, no socket or pipe has a time-out.
FairSpec == Spec /\ WF_vars(Read)

-----------------------------------------------------------------------------
(* Properties. *)

\* Whether a byte was written before another, and whether all of s are as written.
Before(b, d) == b[1] < d[1] \/ (b[1] = d[1] /\ b[2] < d[2])
InOrder(s)   == \A i, j \in DOMAIN s : i < j => Before(s[i], s[j])

\* All the data that was written.
Data == UNION {{<<k, i>> : i \in 1..written[k].len} : k \in DOMAIN written}

\* What was handed on is data, and it and what is still to be received is the data
\* written, in order: nothing of it lost, doubled, garbled or mixed with heads.
InStep ==
  LET all == handed \o call \o wire IN
    /\ \A b \in ToSet(handed \o call) : IsData(b)
    /\ {b \in ToSet(all) : IsData(b)} = Data
    /\ InOrder(all)

\* Each of the three loops over plain frames keeps in step however TCP cuts what it
\* carries, as long as no status is sent inside a line and no frame comes before the
\* last one was read; and the loops that ask for the length of the frame keep in step
\* however many frames come together, as long as each recv gets all it asks for.
KeepsStep ==
  /\ phase # "crashed" /\ ~inside
  /\ \/ kind # "terminal" /\ ~together
     \/ kind \in {"controller", "terminal"} /\ ~cut
  => InStep

\* When frames come apart, whole, and shorter than the buffer, all their text
\* goes into the history without its T.
HistoryWhole ==
  /\ kind = "server" /\ ~inside /\ ~together /\ ~cut
  /\ \A k \in DOMAIN written : written[k].len < Buf
  => ToSet(history) = {b \in ToSet(handed) : b[2] > 1} /\ InOrder(history)

\* A loop leaves an open connection only for a reason: that frames came together
\* or a status was sent inside a line, and for a loop that asks for the length of the
\* frame, that one was cut; for a terminal, that is enough.  A loop writes past its
\* buffer only for a frame that does not fit, or after such a cut.
EndsForReason ==
  /\ phase = "ended" /\ link = "open" =>
       /\ kind # "terminal" => together \/ inside
       /\ kind \in {"controller", "terminal"} => cut
  /\ phase = "crashed" /\ link = "open" =>
       \/ kind = "controller" /\ head.len > Buf
       \/ kind = "client" /\ head.op = "other" /\ head.len >= Buf
       \/ kind = "terminal" /\ cut

\* A loop in the console input of the game goes round for ever when its
\* connection ended in the middle of a frame, and every loop that hands on waits for
\* as long as that write does (ctl.h:113, remote.h:91, wsTerminal.h:84); every other
\* loop ends with its connection.
EndsWithConnection ==
  link # "open" ~> \/ phase \in {"ended", "crashed"}
                   \/ InText("client") /\ wire = <<>>
                   \/ []handing

\* opcode_document.md:20, the length decides how many bytes are received, of frames
\* that nothing was sent into.
LengthDecides == kind = "server" /\ ~inside => InStep
=============================================================================
