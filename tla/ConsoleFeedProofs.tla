--------------------------- MODULE ConsoleFeedProofs ---------------------------
(* Theorems about ConsoleFeed, for any clients, messages and bound. *)
EXTENDS ConsoleFeed, TLAPS

\* A piece that is to be stored or broadcast has been read.
ReadBefore == reader # "recv" => read \in Pieces

TypeInv == TypeOK /\ ReadBefore

\* The messages of a joining client are messages.
LEMMA OwnMessages ==
  /\ Greeting \in Messages /\ History \in Messages
  /\ \A n \in Pieces : n \in Messages
  /\ \A w \in Terminals : w \in Messages
  /\ \A c \in Controllers : c \in Clients
  /\ \A w \in Terminals : w \in Clients
  BY DEF Messages, Clients

\* The next piece to be read is a piece.
LEMMA NextPiece ==
  ASSUME read \in 0..MaxPieces, read < MaxPieces
  PROVE  read + 1 \in Pieces /\ read + 1 \in 0..MaxPieces
  BY FeedAssumption DEF Pieces

\* Writing a message changes one phase of it.
LEMMA WriteType ==
  ASSUME frame \in [Clients -> [Messages -> FramePhases]],
         NEW c \in Clients, NEW m \in Messages, NEW p \in FramePhases, Write(c, m, p)
  PROVE  frame' \in [Clients -> [Messages -> FramePhases]]
  BY DEF Write

\* At the start every variable has its type.
LEMMA InitType == Init => TypeInv
  BY FeedAssumption, OwnMessages
  DEF Init, TypeInv, ReadBefore, TypeOK, ClientPhases, FramePhases

\* Every action keeps the types.
LEMMA TypeStep ==
  ASSUME TypeInv, [Next]_vars
  PROVE  TypeInv'
  <1> USE DEF TypeInv, ReadBefore, TypeOK, ClientPhases,
        feedVars, clientVars, socketVars, mutexes, Goto
  <1>1. ASSUME ReadPiece PROVE TypeInv'
    BY <1>1, NextPiece DEF ReadPiece
  <1>2. ASSUME AppendPiece PROVE TypeInv'
    BY <1>2 DEF AppendPiece
  <1>3. ASSUME BroadcastPiece PROVE TypeInv'
    <2>1. "begin" \in FramePhases
      BY DEF FramePhases
    <2> QED BY <1>3, <2>1, OwnMessages DEF BroadcastPiece, Broadcast
  <1>4. ASSUME NEW c \in Controllers, ControllerGreet(c) PROVE TypeInv'
    <2>1. frame' \in [Clients -> [Messages -> FramePhases]]
      BY <1>4, OwnMessages, WriteType DEF ControllerGreet, FramePhases
    <2> QED BY <1>4, <2>1, OwnMessages DEF ControllerGreet
  <1>5. ASSUME NEW c \in Controllers, ControllerList(c) PROVE TypeInv'
    BY <1>5, OwnMessages DEF ControllerList
  <1>6. ASSUME NEW c \in Controllers, ControllerCopy(c) PROVE TypeInv'
    <2>1. c \in Clients /\ "begin" \in FramePhases
      BY OwnMessages DEF FramePhases
    <2>2. frame' \in [Clients -> [Messages -> FramePhases]]
      BY <1>6, <2>1, OwnMessages, WriteType DEF ControllerCopy, SendHistory
    <2>3. pc' \in [Clients -> ClientPhases]
      BY <1>6, <2>1 DEF ControllerCopy, SendHistory
    <2>4. \A w \in Clients : w # c => pc'[w] = pc[w]
      BY <1>6 DEF ControllerCopy, SendHistory
    <2>5. pc[c] = "copy"
      BY <1>6 DEF ControllerCopy
    <2> QED BY <1>6, <2>1, <2>2, <2>3, <2>4, <2>5, OwnMessages DEF ControllerCopy
  <1>7. ASSUME NEW c \in Terminals, TerminalTryLock(c) PROVE TypeInv'
    BY <1>7, OwnMessages DEF TerminalTryLock
  <1>8. ASSUME NEW c \in Terminals, TerminalList(c) PROVE TypeInv'
    <2>1. frame' \in [Clients -> [Messages -> FramePhases]]
      BY <1>8, OwnMessages, WriteType DEF TerminalList, FramePhases
    <2> QED BY <1>8, <2>1, OwnMessages DEF TerminalList
  <1>9. ASSUME NEW c \in Terminals, TerminalGreeted(c) PROVE TypeInv'
    BY <1>9, OwnMessages DEF TerminalGreeted
  <1>10. ASSUME NEW c \in Terminals, TerminalCopy(c) PROVE TypeInv'
    BY <1>10, OwnMessages DEF TerminalCopy
  <1>11. ASSUME NEW c \in Terminals, TerminalStatus(c) PROVE TypeInv'
    <2>1. c \in Clients /\ "begin" \in FramePhases
      BY OwnMessages DEF FramePhases
    <2> QED BY <1>11, <2>1, OwnMessages DEF TerminalStatus, SendStatusAndHistory
  <1>12. ASSUME NEW c \in Clients, HistorySent(c) PROVE TypeInv'
    BY <1>12 DEF HistorySent
  <1>13. ASSUME NEW c \in Clients, Attached(c) PROVE TypeInv'
    BY <1>13 DEF Attached
  <1>14. ASSUME NEW c \in Clients, Leave(c) PROVE TypeInv'
    BY <1>14 DEF Leave
  <1>15. ASSUME NEW c \in Clients, Break(c) PROVE TypeInv'
    BY <1>15 DEF Break
  <1>16. ASSUME NEW c \in Clients, ReadEnds(c) PROVE TypeInv'
    BY <1>16 DEF ReadEnds
  <1>17. ASSUME NEW c \in Clients, NEW m \in Messages, WriteHead(c, m) PROVE TypeInv'
    <2>1. frame' \in [Clients -> [Messages -> FramePhases]]
      BY <1>17, WriteType DEF WriteHead, FramePhases
    <2> QED BY <1>17, <2>1 DEF WriteHead
  <1>18. ASSUME NEW c \in Clients, NEW m \in Messages, WriteBody(c, m) PROVE TypeInv'
    <2>1. frame' \in [Clients -> [Messages -> FramePhases]]
      BY <1>18, WriteType DEF WriteBody, FramePhases
    <2> QED BY <1>18, <2>1 DEF WriteBody
  <1>19. ASSUME NEW c \in Clients, NEW m \in Messages, WriteFreed(c, m) PROVE TypeInv'
    BY <1>19 DEF WriteFreed
  <1>20. ASSUME UNCHANGED vars PROVE TypeInv'
    BY <1>20 DEF vars
  <1> QED
    BY <1>1, <1>2, <1>3, <1>4, <1>5, <1>6, <1>7, <1>8, <1>9, <1>10, <1>11, <1>12,
       <1>13, <1>14, <1>15, <1>16, <1>17, <1>18, <1>19, <1>20 DEF Next, ServerRead,
                 ClientStep,
       ControllerStep, TerminalStep

\* Every variable keeps its type.
THEOREM TypeCorrect == Spec => []TypeOK
  <1>1. TypeInv => TypeOK
    BY DEF TypeInv
  <1> QED BY InitType, TypeStep, <1>1, PTL DEF Spec

-----------------------------------------------------------------------------
(* Whole frames. *)

\* A frame whose body is to come is written by the thread that has the lock.
BodyLocked == \A c \in Clients : \A m \in Messages : frame[c][m] = "body" => lock[c] = m

\* Nobody begins a body without the lock, and only its writer gives the lock back.
LEMMA BodyStep ==
  ASSUME TypeInv, BodyLocked, [Next]_vars
  PROVE  BodyLocked'
  <1> USE DEF TypeInv, TypeOK, BodyLocked, FramePhases,
        feedVars, clientVars, socketVars, mutexes, Goto
  <1>1. ASSUME ReadPiece PROVE BodyLocked'
    BY <1>1 DEF ReadPiece
  <1>2. ASSUME AppendPiece PROVE BodyLocked'
    BY <1>2 DEF AppendPiece
  <1>3. ASSUME BroadcastPiece PROVE BodyLocked'
    BY <1>3 DEF BroadcastPiece, Broadcast
  <1>4. ASSUME NEW c \in Controllers, ControllerGreet(c) PROVE BodyLocked'
    BY <1>4, OwnMessages DEF ControllerGreet, Write
  <1>5. ASSUME NEW c \in Controllers, ControllerList(c) PROVE BodyLocked'
    BY <1>5 DEF ControllerList
  <1>6. ASSUME NEW c \in Controllers, ControllerCopy(c) PROVE BodyLocked'
    <2>1. frame' = frame \/ Write(c, History, "begin")
      BY <1>6 DEF ControllerCopy, SendHistory
    <2>2. lock' = lock /\ c \in Clients
      BY <1>6, OwnMessages DEF ControllerCopy
    <2>3. CASE frame' = frame
      BY <2>2, <2>3
    <2>4. CASE Write(c, History, "begin")
      BY <2>2, <2>4, OwnMessages DEF Write
    <2> QED BY <2>1, <2>3, <2>4
  <1>7. ASSUME NEW c \in Terminals, TerminalTryLock(c) PROVE BodyLocked'
    BY <1>7 DEF TerminalTryLock
  <1>8. ASSUME NEW c \in Terminals, TerminalList(c) PROVE BodyLocked'
    BY <1>8, OwnMessages DEF TerminalList, Write
  <1>9. ASSUME NEW c \in Terminals, TerminalGreeted(c) PROVE BodyLocked'
    BY <1>9 DEF TerminalGreeted
  <1>10. ASSUME NEW c \in Terminals, TerminalCopy(c) PROVE BodyLocked'
    BY <1>10 DEF TerminalCopy
  <1>11. ASSUME NEW c \in Terminals, TerminalStatus(c) PROVE BodyLocked'
    BY <1>11 DEF TerminalStatus, SendStatusAndHistory
  <1>12. ASSUME NEW c \in Clients, HistorySent(c) PROVE BodyLocked'
    BY <1>12 DEF HistorySent
  <1>13. ASSUME NEW c \in Clients, Attached(c) PROVE BodyLocked'
    BY <1>13 DEF Attached
  <1>14. ASSUME NEW c \in Clients, Leave(c) PROVE BodyLocked'
    BY <1>14 DEF Leave
  <1>15. ASSUME NEW c \in Clients, Break(c) PROVE BodyLocked'
    BY <1>15 DEF Break
  <1>16. ASSUME NEW c \in Clients, ReadEnds(c) PROVE BodyLocked'
    BY <1>16 DEF ReadEnds
  <1>17. ASSUME NEW c \in Clients, NEW m \in Messages, WriteHead(c, m) PROVE BodyLocked'
    <2>1. \A n \in Messages : frame[c][n] # "body"
      BY <1>17, FeedAssumption DEF WriteHead
    <2>2. CASE Write(c, m, "body") /\ lock' = [lock EXCEPT ![c] = m]
      BY <2>1, <2>2 DEF Write
    <2>3. ASSUME Write(c, m, "lost"), \A d \in Clients : d # c => lock'[d] = lock[d]
          PROVE  BodyLocked'
      BY <2>1, <2>3 DEF Write
    <2> QED BY <1>17, <2>2, <2>3 DEF WriteHead
  <1>18. ASSUME NEW c \in Clients, NEW m \in Messages, WriteBody(c, m) PROVE BodyLocked'
    BY <1>18 DEF WriteBody, Write
  <1>19. ASSUME NEW c \in Clients, NEW m \in Messages, WriteFreed(c,
            m) PROVE BodyLocked'
    BY <1>19 DEF WriteFreed
  <1>20. ASSUME UNCHANGED vars PROVE BodyLocked'
    BY <1>20 DEF vars
  <1> QED
    BY <1>1, <1>2, <1>3, <1>4, <1>5, <1>6, <1>7, <1>8, <1>9, <1>10, <1>11, <1>12,
       <1>13, <1>14, <1>15, <1>16, <1>17, <1>18, <1>19, <1>20 DEF Next, ServerRead,
                 ClientStep,
       ControllerStep, TerminalStep

\* Between the head and the body of a frame nobody else writes to its client.
THEOREM FramesStayWhole == Spec => []FramesWhole
  <1>1. Init => BodyLocked
    BY DEF Init, BodyLocked
  <1>2. BodyLocked => FramesWhole
    BY DEF BodyLocked, FramesWhole
  <1> QED BY InitType, TypeStep, BodyStep, <1>1, <1>2, PTL DEF Spec

-----------------------------------------------------------------------------
(* What the steps of the threads that write do to the frames. *)

\* Broadcast begins a piece of text for every listed client.
LEMMA BroadcastFrames ==
  ASSUME TypeInv, BroadcastPiece
  PROVE  /\ read \in Pieces /\ read \in Messages /\ read # Greeting /\ read # History
         /\ \A c \in Clients : \A m \in Messages :
              frame'[c][m] = IF c \in listed /\ m = read THEN "begin" ELSE frame[c][m]
  <1>1. read \in Pieces
    BY DEF TypeInv, ReadBefore, BroadcastPiece
  <1>2. read \in Messages /\ read # Greeting /\ read # History
    BY <1>1, OwnMessages, FeedAssumption
  <1> QED BY <1>1, <1>2 DEF TypeInv, TypeOK, BroadcastPiece, Broadcast

\* A head leaves a frame with its body to come, or loses it with the connection.
LEMMA HeadFrames ==
  ASSUME TypeInv, NEW c \in Clients, NEW m \in Messages, WriteHead(c, m)
  PROVE  /\ frame[c][m] = "begin"
         /\ frame'[c][m] = IF conn[c] = "open" THEN "body" ELSE "lost"
         /\ \A d \in Clients : \A n \in Messages :
              d # c \/ n # m => frame'[d][n] = frame[d][n]
         /\ UNCHANGED <<feedVars, clientVars, conn, mutexes, fault>>
  <1> USE DEF feedVars, clientVars, mutexes
  <1>1. PICK p \in {"body", "lost"} :
          /\ Write(c, m, p)
          /\ p = "body" => conn[c] = "open"
          /\ p = "lost" => conn[c] # "open"
    BY DEF WriteHead
  <1>2. /\ frame'[c][m] = p
        /\ \A d \in Clients : \A n \in Messages :
             d # c \/ n # m => frame'[d][n] = frame[d][n]
    BY <1>1 DEF TypeInv, TypeOK, Write
  <1>3. frame[c][m] = "begin" /\ UNCHANGED <<feedVars, clientVars, conn, mutexes,
           fault>>
    BY DEF WriteHead
  <1> QED BY <1>1, <1>2, <1>3

-----------------------------------------------------------------------------
(* The greeting. *)

\* A client that has not been greeted, and one that may have been.
Ungreeted(c) == pc[c] = "waiting" \/ (c \in Terminals /\ pc[c] = "list")
Greeted(c) ==
  \/ c \in Controllers /\ pc[c] = "list"
  \/ pc[c] \in {"copy", "status", "history", "start", "reading", "removing"}

\* Where the greeting stands while its client goes from one phase to the next,
\* and that the thread of a terminal keeps cliMutex for it.
GreetingPhases ==
  \A c \in Clients :
    /\ Ungreeted(c) => frame[c][Greeting] = "none"
    /\ pc[c] = "greeting" => cliMutex = c
    /\ Greeted(c) => Finished(frame[c][Greeting])
    /\ c \in listed => pc[c] = "greeting" \/ (Greeted(c) /\ pc[c] # "list")

\* A greeting is only lost together with the connection.
LostBroken == \A c \in Clients : frame[c][Greeting] = "lost" => conn[c] = "broken"

\* Nothing else is begun before the greeting has ended.
NothingBefore ==
  \A c \in Clients : ~Finished(frame[c][Greeting]) =>
    \A m \in Messages \ {Greeting} : frame[c][m] = "none"

GreetingInv == GreetingPhases /\ LostBroken /\ NothingBefore /\ GreetingFirst

\* The phases of a client and of its greeting go together.
LEMMA GreetingPhasesStep ==
  ASSUME TypeInv, GreetingPhases, [Next]_vars
  PROVE  GreetingPhases'
  <1> USE FeedAssumption DEF TypeInv, TypeOK, FramePhases, Finished, Ungreeted, Greeted,
        GreetingPhases, feedVars, clientVars, socketVars, mutexes, Goto
  <1>1. ASSUME ReadPiece PROVE GreetingPhases'
    BY <1>1 DEF ReadPiece
  <1>2. ASSUME AppendPiece PROVE GreetingPhases'
    BY <1>2 DEF AppendPiece
  <1>3. ASSUME BroadcastPiece PROVE GreetingPhases'
    BY <1>3, BroadcastFrames, OwnMessages DEF BroadcastPiece
  <1>4. ASSUME NEW c \in Controllers, ControllerGreet(c) PROVE GreetingPhases'
    BY <1>4, OwnMessages DEF ControllerGreet, Write
  <1>5. ASSUME NEW c \in Controllers, ControllerList(c) PROVE GreetingPhases'
    BY <1>5, OwnMessages DEF ControllerList
  <1>6. ASSUME NEW c \in Controllers, ControllerCopy(c) PROVE GreetingPhases'
    BY <1>6, OwnMessages DEF ControllerCopy, SendHistory, Write
  <1>7. ASSUME NEW c \in Terminals, TerminalTryLock(c) PROVE GreetingPhases'
    BY <1>7, OwnMessages DEF TerminalTryLock
  <1>8. ASSUME NEW c \in Terminals, TerminalList(c) PROVE GreetingPhases'
    BY <1>8, OwnMessages DEF TerminalList, Write
  <1>9. ASSUME NEW c \in Terminals, TerminalGreeted(c) PROVE GreetingPhases'
    BY <1>9, OwnMessages DEF TerminalGreeted
  <1>10. ASSUME NEW c \in Terminals, TerminalCopy(c) PROVE GreetingPhases'
    BY <1>10, OwnMessages DEF TerminalCopy
  <1>11. ASSUME NEW c \in Terminals, TerminalStatus(c) PROVE GreetingPhases'
    BY <1>11, OwnMessages DEF TerminalStatus, SendStatusAndHistory
  <1>12. ASSUME NEW c \in Clients, HistorySent(c) PROVE GreetingPhases'
    BY <1>12 DEF HistorySent
  <1>13. ASSUME NEW c \in Clients, Attached(c) PROVE GreetingPhases'
    BY <1>13 DEF Attached
  <1>14. ASSUME NEW c \in Clients, Leave(c) PROVE GreetingPhases'
    BY <1>14 DEF Leave
  <1>15. ASSUME NEW c \in Clients, Break(c) PROVE GreetingPhases'
    BY <1>15 DEF Break
  <1>16. ASSUME NEW c \in Clients, ReadEnds(c) PROVE GreetingPhases'
    BY <1>16 DEF ReadEnds
  <1>17. ASSUME NEW c \in Clients, NEW m \in Messages, WriteHead(c,
            m) PROVE GreetingPhases'
    BY <1>17, HeadFrames, OwnMessages
  <1>18. ASSUME NEW c \in Clients, NEW m \in Messages, WriteBody(c,
            m) PROVE GreetingPhases'
    BY <1>18 DEF WriteBody, Write
  <1>19. ASSUME NEW c \in Clients, NEW m \in Messages, WriteFreed(c,
            m) PROVE GreetingPhases'
    BY <1>19 DEF WriteFreed
  <1>20. ASSUME UNCHANGED vars PROVE GreetingPhases'
    BY <1>20 DEF vars
  <1> QED
    BY <1>1, <1>2, <1>3, <1>4, <1>5, <1>6, <1>7, <1>8, <1>9, <1>10, <1>11, <1>12,
       <1>13, <1>14, <1>15, <1>16, <1>17, <1>18, <1>19, <1>20 DEF Next, ServerRead,
                 ClientStep,
       ControllerStep, TerminalStep

\* A connection that broke does not come back.
LEMMA LostStep ==
  ASSUME TypeInv, LostBroken, [Next]_vars
  PROVE  LostBroken'
  <1> USE FeedAssumption DEF LostBroken, TypeInv, TypeOK, FramePhases, Finished,
         Ungreeted, Greeted,
        feedVars, clientVars, socketVars, mutexes, Goto
  <1>1. ASSUME ReadPiece PROVE LostBroken'
    BY <1>1 DEF ReadPiece
  <1>2. ASSUME AppendPiece PROVE LostBroken'
    BY <1>2 DEF AppendPiece
  <1>3. ASSUME BroadcastPiece PROVE LostBroken'
    BY <1>3, BroadcastFrames, OwnMessages DEF BroadcastPiece
  <1>4. ASSUME NEW c \in Controllers, ControllerGreet(c) PROVE LostBroken'
    BY <1>4, OwnMessages DEF ControllerGreet, Write
  <1>5. ASSUME NEW c \in Controllers, ControllerList(c) PROVE LostBroken'
    BY <1>5, OwnMessages DEF ControllerList
  <1>6. ASSUME NEW c \in Controllers, ControllerCopy(c) PROVE LostBroken'
    BY <1>6, OwnMessages DEF ControllerCopy, SendHistory, Write
  <1>7. ASSUME NEW c \in Terminals, TerminalTryLock(c) PROVE LostBroken'
    BY <1>7, OwnMessages DEF TerminalTryLock
  <1>8. ASSUME NEW c \in Terminals, TerminalList(c) PROVE LostBroken'
    BY <1>8, OwnMessages DEF TerminalList, Write
  <1>9. ASSUME NEW c \in Terminals, TerminalGreeted(c) PROVE LostBroken'
    BY <1>9, OwnMessages DEF TerminalGreeted
  <1>10. ASSUME NEW c \in Terminals, TerminalCopy(c) PROVE LostBroken'
    BY <1>10, OwnMessages DEF TerminalCopy
  <1>11. ASSUME NEW c \in Terminals, TerminalStatus(c) PROVE LostBroken'
    BY <1>11, OwnMessages DEF TerminalStatus, SendStatusAndHistory
  <1>12. ASSUME NEW c \in Clients, HistorySent(c) PROVE LostBroken'
    BY <1>12 DEF HistorySent
  <1>13. ASSUME NEW c \in Clients, Attached(c) PROVE LostBroken'
    BY <1>13 DEF Attached
  <1>14. ASSUME NEW c \in Clients, Leave(c) PROVE LostBroken'
    BY <1>14 DEF Leave
  <1>15. ASSUME NEW c \in Clients, Break(c) PROVE LostBroken'
    BY <1>15 DEF Break
  <1>16. ASSUME NEW c \in Clients, ReadEnds(c) PROVE LostBroken'
    BY <1>16 DEF ReadEnds
  <1>17. ASSUME NEW c \in Clients, NEW m \in Messages, WriteHead(c, m) PROVE LostBroken'
    BY <1>17, HeadFrames, OwnMessages, SMTT(30)
  <1>18. ASSUME NEW c \in Clients, NEW m \in Messages, WriteBody(c, m) PROVE LostBroken'
    BY <1>18 DEF WriteBody, Write
  <1>19. ASSUME NEW c \in Clients, NEW m \in Messages, WriteFreed(c,
            m) PROVE LostBroken'
    BY <1>19 DEF WriteFreed
  <1>20. ASSUME UNCHANGED vars PROVE LostBroken'
    BY <1>20 DEF vars
  <1> QED
    BY <1>1, <1>2, <1>3, <1>4, <1>5, <1>6, <1>7, <1>8, <1>9, <1>10, <1>11, <1>12,
       <1>13, <1>14, <1>15, <1>16, <1>17, <1>18, <1>19, <1>20 DEF Next, ServerRead,
                 ClientStep,
       ControllerStep, TerminalStep

\* No action begins anything for a client that was not greeted.
LEMMA NothingBeforeStep ==
  ASSUME TypeInv, GreetingPhases, NothingBefore, [Next]_vars
  PROVE  NothingBefore'
  <1> USE FeedAssumption DEF NothingBefore, TypeInv, TypeOK, FramePhases, Finished,
         Ungreeted, Greeted,
        GreetingPhases, feedVars, clientVars, socketVars, mutexes, Goto
  <1>1. ASSUME ReadPiece PROVE NothingBefore'
    BY <1>1 DEF ReadPiece
  <1>2. ASSUME AppendPiece PROVE NothingBefore'
    BY <1>2 DEF AppendPiece
  <1>3. ASSUME BroadcastPiece PROVE NothingBefore'
    BY <1>3, BroadcastFrames, OwnMessages DEF BroadcastPiece
  <1>4. ASSUME NEW c \in Controllers, ControllerGreet(c) PROVE NothingBefore'
    BY <1>4, OwnMessages DEF ControllerGreet, Write
  <1>5. ASSUME NEW c \in Controllers, ControllerList(c) PROVE NothingBefore'
    BY <1>5, OwnMessages DEF ControllerList
  <1>6. ASSUME NEW c \in Controllers, ControllerCopy(c) PROVE NothingBefore'
    BY <1>6, OwnMessages DEF ControllerCopy, SendHistory, Write
  <1>7. ASSUME NEW c \in Terminals, TerminalTryLock(c) PROVE NothingBefore'
    BY <1>7, OwnMessages DEF TerminalTryLock
  <1>8. ASSUME NEW c \in Terminals, TerminalList(c) PROVE NothingBefore'
    BY <1>8, OwnMessages DEF TerminalList, Write
  <1>9. ASSUME NEW c \in Terminals, TerminalGreeted(c) PROVE NothingBefore'
    BY <1>9, OwnMessages DEF TerminalGreeted
  <1>10. ASSUME NEW c \in Terminals, TerminalCopy(c) PROVE NothingBefore'
    BY <1>10, OwnMessages DEF TerminalCopy
  <1>11. ASSUME NEW c \in Terminals, TerminalStatus(c) PROVE NothingBefore'
    BY <1>11, OwnMessages DEF TerminalStatus, SendStatusAndHistory
  <1>12. ASSUME NEW c \in Clients, HistorySent(c) PROVE NothingBefore'
    BY <1>12 DEF HistorySent
  <1>13. ASSUME NEW c \in Clients, Attached(c) PROVE NothingBefore'
    BY <1>13 DEF Attached
  <1>14. ASSUME NEW c \in Clients, Leave(c) PROVE NothingBefore'
    BY <1>14 DEF Leave
  <1>15. ASSUME NEW c \in Clients, Break(c) PROVE NothingBefore'
    BY <1>15 DEF Break
  <1>16. ASSUME NEW c \in Clients, ReadEnds(c) PROVE NothingBefore'
    BY <1>16 DEF ReadEnds
  <1>17. ASSUME NEW c \in Clients, NEW m \in Messages, WriteHead(c,
            m) PROVE NothingBefore'
    <2>1. CASE m = Greeting
      BY <1>17, <2>1, HeadFrames, OwnMessages
    <2>2. CASE m # Greeting
      <3>1. Finished(frame[c][Greeting])
        BY <1>17, <2>2, HeadFrames
      <3> QED BY <1>17, <2>2, <3>1, HeadFrames, OwnMessages
    <2> QED BY <2>1, <2>2
  <1>18. ASSUME NEW c \in Clients, NEW m \in Messages, WriteBody(c,
            m) PROVE NothingBefore'
    BY <1>18 DEF WriteBody, Write
  <1>19. ASSUME NEW c \in Clients, NEW m \in Messages, WriteFreed(c,
            m) PROVE NothingBefore'
    BY <1>19 DEF WriteFreed
  <1>20. ASSUME UNCHANGED vars PROVE NothingBefore'
    BY <1>20 DEF vars
  <1> QED
    BY <1>1, <1>2, <1>3, <1>4, <1>5, <1>6, <1>7, <1>8, <1>9, <1>10, <1>11, <1>12,
       <1>13, <1>14, <1>15, <1>16, <1>17, <1>18, <1>19, <1>20 DEF Next, ServerRead,
                 ClientStep,
       ControllerStep, TerminalStep

\* No action lets a message overtake the greeting.
LEMMA GreetingFirstStep ==
  ASSUME TypeInv, GreetingPhases, LostBroken, NothingBefore, GreetingFirst, [Next]_vars
  PROVE  GreetingFirst'
  <1> USE FeedAssumption DEF LostBroken, NothingBefore, GreetingFirst, TypeInv, TypeOK,
         FramePhases, Finished, Ungreeted, Greeted,
        GreetingPhases, feedVars, clientVars, socketVars, mutexes, Goto
  <1>1. ASSUME ReadPiece PROVE GreetingFirst'
    BY <1>1 DEF ReadPiece
  <1>2. ASSUME AppendPiece PROVE GreetingFirst'
    BY <1>2 DEF AppendPiece
  <1>3. ASSUME BroadcastPiece PROVE GreetingFirst'
    BY <1>3, BroadcastFrames, OwnMessages DEF BroadcastPiece
  <1>4. ASSUME NEW c \in Controllers, ControllerGreet(c) PROVE GreetingFirst'
    BY <1>4, OwnMessages DEF ControllerGreet, Write
  <1>5. ASSUME NEW c \in Controllers, ControllerList(c) PROVE GreetingFirst'
    BY <1>5, OwnMessages DEF ControllerList
  <1>6. ASSUME NEW c \in Controllers, ControllerCopy(c) PROVE GreetingFirst'
    BY <1>6, OwnMessages DEF ControllerCopy, SendHistory, Write
  <1>7. ASSUME NEW c \in Terminals, TerminalTryLock(c) PROVE GreetingFirst'
    BY <1>7, OwnMessages DEF TerminalTryLock
  <1>8. ASSUME NEW c \in Terminals, TerminalList(c) PROVE GreetingFirst'
    BY <1>8, OwnMessages DEF TerminalList, Write
  <1>9. ASSUME NEW c \in Terminals, TerminalGreeted(c) PROVE GreetingFirst'
    BY <1>9, OwnMessages DEF TerminalGreeted
  <1>10. ASSUME NEW c \in Terminals, TerminalCopy(c) PROVE GreetingFirst'
    BY <1>10, OwnMessages DEF TerminalCopy
  <1>11. ASSUME NEW c \in Terminals, TerminalStatus(c) PROVE GreetingFirst'
    BY <1>11, OwnMessages DEF TerminalStatus, SendStatusAndHistory
  <1>12. ASSUME NEW c \in Clients, HistorySent(c) PROVE GreetingFirst'
    BY <1>12 DEF HistorySent
  <1>13. ASSUME NEW c \in Clients, Attached(c) PROVE GreetingFirst'
    BY <1>13 DEF Attached
  <1>14. ASSUME NEW c \in Clients, Leave(c) PROVE GreetingFirst'
    BY <1>14 DEF Leave
  <1>15. ASSUME NEW c \in Clients, Break(c) PROVE GreetingFirst'
    BY <1>15 DEF Break
  <1>16. ASSUME NEW c \in Clients, ReadEnds(c) PROVE GreetingFirst'
    BY <1>16 DEF ReadEnds
  <1>17. ASSUME NEW c \in Clients, NEW m \in Messages, WriteHead(c,
            m) PROVE GreetingFirst'
    BY <1>17, HeadFrames, OwnMessages
  <1>18. ASSUME NEW c \in Clients, NEW m \in Messages, WriteBody(c,
            m) PROVE GreetingFirst'
    BY <1>18 DEF WriteBody, Write
  <1>19. ASSUME NEW c \in Clients, NEW m \in Messages, WriteFreed(c,
            m) PROVE GreetingFirst'
    BY <1>19 DEF WriteFreed
  <1>20. ASSUME UNCHANGED vars PROVE GreetingFirst'
    BY <1>20 DEF vars
  <1> QED
    BY <1>1, <1>2, <1>3, <1>4, <1>5, <1>6, <1>7, <1>8, <1>9, <1>10, <1>11, <1>12,
       <1>13, <1>14, <1>15, <1>16, <1>17, <1>18, <1>19, <1>20 DEF Next, ServerRead,
                 ClientStep,
       ControllerStep, TerminalStep

\* What a client gets first is its greeting.
THEOREM GreetingComesFirst == Spec => []GreetingFirst
  <1>1. Init => GreetingInv
    BY OwnMessages DEF Init, GreetingInv, GreetingPhases, LostBroken, NothingBefore,
       GreetingFirst, Ungreeted, Greeted, Finished
  <1>2. TypeInv /\ GreetingInv /\ [Next]_vars => GreetingInv'
    BY GreetingPhasesStep, LostStep, NothingBeforeStep,
       GreetingFirstStep DEF GreetingInv
  <1>3. GreetingInv => GreetingFirst
    BY DEF GreetingInv
  <1> QED BY InitType, TypeStep, <1>1, <1>2, <1>3, PTL DEF Spec

-----------------------------------------------------------------------------
(* The history and the feed. *)

\* A client that has its copy of the history gets what came after it.
Followed ==
  \A c \in listed : pc[c] \in {"status", "history", "start", "reading"} =>
    \A n \in stored :
      n \in copy[c] \/ frame[c][n] # "none" \/ (n = read /\ reader = "broadcast")

\* A client that has taken a history is sent it.
HistoryBegun ==
  \A c \in listed : pc[c] \in {"history", "start", "reading"} =>
    (copy[c] # {} => frame[c][History] # "none")

\* The writing of a frame, once begun, is never undone.
Kept == \A d \in Clients : \A n \in Messages : frame[d][n] # "none" => frame'[d][n] # "none"

\* No step undoes the beginning of a frame.
LEMMA KeptStep ==
  ASSUME TypeInv, [Next]_vars
  PROVE  Kept
  <1> USE DEF Kept, TypeInv, TypeOK, FramePhases, feedVars, clientVars, socketVars,
         mutexes, Goto
  <1>1. ASSUME ReadPiece PROVE Kept
    BY <1>1 DEF ReadPiece
  <1>2. ASSUME AppendPiece PROVE Kept
    BY <1>2 DEF AppendPiece
  <1>3. ASSUME BroadcastPiece PROVE Kept
    BY <1>3, BroadcastFrames, OwnMessages DEF BroadcastPiece
  <1>4. ASSUME NEW c \in Controllers, ControllerGreet(c) PROVE Kept
    BY <1>4, OwnMessages DEF ControllerGreet, Write
  <1>5. ASSUME NEW c \in Controllers, ControllerList(c) PROVE Kept
    BY <1>5, OwnMessages DEF ControllerList
  <1>6. ASSUME NEW c \in Controllers, ControllerCopy(c) PROVE Kept
    BY <1>6, OwnMessages DEF ControllerCopy, SendHistory, Write
  <1>7. ASSUME NEW c \in Terminals, TerminalTryLock(c) PROVE Kept
    BY <1>7, OwnMessages DEF TerminalTryLock
  <1>8. ASSUME NEW c \in Terminals, TerminalList(c) PROVE Kept
    BY <1>8, OwnMessages DEF TerminalList, Write
  <1>9. ASSUME NEW c \in Terminals, TerminalGreeted(c) PROVE Kept
    BY <1>9, OwnMessages DEF TerminalGreeted
  <1>10. ASSUME NEW c \in Terminals, TerminalCopy(c) PROVE Kept
    BY <1>10, OwnMessages DEF TerminalCopy
  <1>11. ASSUME NEW c \in Terminals, TerminalStatus(c) PROVE Kept
    BY <1>11, OwnMessages DEF TerminalStatus, SendStatusAndHistory
  <1>12. ASSUME NEW c \in Clients, HistorySent(c) PROVE Kept
    BY <1>12 DEF HistorySent
  <1>13. ASSUME NEW c \in Clients, Attached(c) PROVE Kept
    BY <1>13 DEF Attached
  <1>14. ASSUME NEW c \in Clients, Leave(c) PROVE Kept
    BY <1>14 DEF Leave
  <1>15. ASSUME NEW c \in Clients, Break(c) PROVE Kept
    BY <1>15 DEF Break
  <1>16. ASSUME NEW c \in Clients, ReadEnds(c) PROVE Kept
    BY <1>16 DEF ReadEnds
  <1>17. ASSUME NEW c \in Clients, NEW m \in Messages, WriteHead(c, m) PROVE Kept
    BY <1>17, HeadFrames, OwnMessages
  <1>18. ASSUME NEW c \in Clients, NEW m \in Messages, WriteBody(c, m) PROVE Kept
    BY <1>18 DEF WriteBody, Write
  <1>19. ASSUME NEW c \in Clients, NEW m \in Messages, WriteFreed(c, m) PROVE Kept
    BY <1>19 DEF WriteFreed
  <1>20. ASSUME UNCHANGED vars PROVE Kept
    BY <1>20 DEF vars
  <1> QED
    BY <1>1, <1>2, <1>3, <1>4, <1>5, <1>6, <1>7, <1>8, <1>9, <1>10, <1>11, <1>12,
       <1>13, <1>14, <1>15, <1>16, <1>17, <1>18, <1>19, <1>20 DEF Next, ServerRead,
                 ClientStep,
       ControllerStep, TerminalStep

\* No step makes a gap between the history and the feed.
LEMMA FollowedStep ==
  ASSUME TypeInv, Followed, [Next]_vars
  PROVE  Followed'
  <1> USE FeedAssumption, KeptStep, OwnMessages DEF Followed, Kept, TypeInv, TypeOK,
         FramePhases, feedVars, clientVars, socketVars, mutexes, Goto
  <1>1. ASSUME ReadPiece PROVE Followed'
    BY <1>1 DEF ReadPiece
  <1>2. ASSUME AppendPiece PROVE Followed'
    BY <1>2 DEF AppendPiece
  <1>3. ASSUME BroadcastPiece PROVE Followed'
    BY <1>3, BroadcastFrames, OwnMessages DEF BroadcastPiece
  <1>4. ASSUME NEW c \in Controllers, ControllerGreet(c) PROVE Followed'
    BY <1>4, OwnMessages DEF ControllerGreet, Write
  <1>5. ASSUME NEW c \in Controllers, ControllerList(c) PROVE Followed'
    BY <1>5, OwnMessages DEF ControllerList
  <1>6. ASSUME NEW c \in Controllers, ControllerCopy(c) PROVE Followed'
    BY <1>6, OwnMessages DEF ControllerCopy, SendHistory, Write
  <1>7. ASSUME NEW c \in Terminals, TerminalTryLock(c) PROVE Followed'
    BY <1>7, OwnMessages DEF TerminalTryLock
  <1>8. ASSUME NEW c \in Terminals, TerminalList(c) PROVE Followed'
    BY <1>8, OwnMessages DEF TerminalList, Write
  <1>9. ASSUME NEW c \in Terminals, TerminalGreeted(c) PROVE Followed'
    BY <1>9, OwnMessages DEF TerminalGreeted
  <1>10. ASSUME NEW c \in Terminals, TerminalCopy(c) PROVE Followed'
    BY <1>10, OwnMessages DEF TerminalCopy
  <1>11. ASSUME NEW c \in Terminals, TerminalStatus(c) PROVE Followed'
    BY <1>11, OwnMessages DEF TerminalStatus, SendStatusAndHistory
  <1>12. ASSUME NEW c \in Clients, HistorySent(c) PROVE Followed'
    BY <1>12 DEF HistorySent
  <1>13. ASSUME NEW c \in Clients, Attached(c) PROVE Followed'
    BY <1>13 DEF Attached
  <1>14. ASSUME NEW c \in Clients, Leave(c) PROVE Followed'
    BY <1>14 DEF Leave
  <1>15. ASSUME NEW c \in Clients, Break(c) PROVE Followed'
    BY <1>15 DEF Break
  <1>16. ASSUME NEW c \in Clients, ReadEnds(c) PROVE Followed'
    BY <1>16 DEF ReadEnds
  <1>17. ASSUME NEW c \in Clients, NEW m \in Messages, WriteHead(c, m) PROVE Followed'
    BY <1>17, HeadFrames, OwnMessages
  <1>18. ASSUME NEW c \in Clients, NEW m \in Messages, WriteBody(c, m) PROVE Followed'
    BY <1>18 DEF WriteBody, Write
  <1>19. ASSUME NEW c \in Clients, NEW m \in Messages, WriteFreed(c, m) PROVE Followed'
    BY <1>19 DEF WriteFreed
  <1>20. ASSUME UNCHANGED vars PROVE Followed'
    BY <1>20 DEF vars
  <1> QED
    BY <1>1, <1>2, <1>3, <1>4, <1>5, <1>6, <1>7, <1>8, <1>9, <1>10, <1>11, <1>12,
       <1>13, <1>14, <1>15, <1>16, <1>17, <1>18, <1>19, <1>20 DEF Next, ServerRead,
                 ClientStep,
       ControllerStep, TerminalStep

\* No step forgets to send a history.
LEMMA HistoryBegunStep ==
  ASSUME TypeInv, HistoryBegun, [Next]_vars
  PROVE  HistoryBegun'
  <1> USE FeedAssumption, KeptStep, OwnMessages DEF HistoryBegun, Kept, TypeInv,
         TypeOK, FramePhases, feedVars, clientVars, socketVars, mutexes, Goto
  <1>1. ASSUME ReadPiece PROVE HistoryBegun'
    BY <1>1 DEF ReadPiece
  <1>2. ASSUME AppendPiece PROVE HistoryBegun'
    BY <1>2 DEF AppendPiece
  <1>3. ASSUME BroadcastPiece PROVE HistoryBegun'
    BY <1>3, BroadcastFrames, OwnMessages DEF BroadcastPiece
  <1>4. ASSUME NEW c \in Controllers, ControllerGreet(c) PROVE HistoryBegun'
    BY <1>4, OwnMessages DEF ControllerGreet, Write
  <1>5. ASSUME NEW c \in Controllers, ControllerList(c) PROVE HistoryBegun'
    BY <1>5, OwnMessages DEF ControllerList
  <1>6. ASSUME NEW c \in Controllers, ControllerCopy(c) PROVE HistoryBegun'
    BY <1>6, OwnMessages DEF ControllerCopy, SendHistory, Write
  <1>7. ASSUME NEW c \in Terminals, TerminalTryLock(c) PROVE HistoryBegun'
    BY <1>7, OwnMessages DEF TerminalTryLock
  <1>8. ASSUME NEW c \in Terminals, TerminalList(c) PROVE HistoryBegun'
    BY <1>8, OwnMessages DEF TerminalList, Write
  <1>9. ASSUME NEW c \in Terminals, TerminalGreeted(c) PROVE HistoryBegun'
    BY <1>9, OwnMessages DEF TerminalGreeted
  <1>10. ASSUME NEW c \in Terminals, TerminalCopy(c) PROVE HistoryBegun'
    BY <1>10, OwnMessages DEF TerminalCopy
  <1>11. ASSUME NEW c \in Terminals, TerminalStatus(c) PROVE HistoryBegun'
    BY <1>11, OwnMessages DEF TerminalStatus, SendStatusAndHistory
  <1>12. ASSUME NEW c \in Clients, HistorySent(c) PROVE HistoryBegun'
    BY <1>12 DEF HistorySent
  <1>13. ASSUME NEW c \in Clients, Attached(c) PROVE HistoryBegun'
    BY <1>13 DEF Attached
  <1>14. ASSUME NEW c \in Clients, Leave(c) PROVE HistoryBegun'
    BY <1>14 DEF Leave
  <1>15. ASSUME NEW c \in Clients, Break(c) PROVE HistoryBegun'
    BY <1>15 DEF Break
  <1>16. ASSUME NEW c \in Clients, ReadEnds(c) PROVE HistoryBegun'
    BY <1>16 DEF ReadEnds
  <1>17. ASSUME NEW c \in Clients, NEW m \in Messages, WriteHead(c,
            m) PROVE HistoryBegun'
    BY <1>17, HeadFrames, OwnMessages
  <1>18. ASSUME NEW c \in Clients, NEW m \in Messages, WriteBody(c,
            m) PROVE HistoryBegun'
    BY <1>18 DEF WriteBody, Write
  <1>19. ASSUME NEW c \in Clients, NEW m \in Messages, WriteFreed(c,
            m) PROVE HistoryBegun'
    BY <1>19 DEF WriteFreed
  <1>20. ASSUME UNCHANGED vars PROVE HistoryBegun'
    BY <1>20 DEF vars
  <1> QED
    BY <1>1, <1>2, <1>3, <1>4, <1>5, <1>6, <1>7, <1>8, <1>9, <1>10, <1>11, <1>12,
       <1>13, <1>14, <1>15, <1>16, <1>17, <1>18, <1>19, <1>20 DEF Next, ServerRead,
                 ClientStep,
       ControllerStep, TerminalStep

\* There is no gap between the history that a client took and its feed.
THEOREM FeedHasNoGap == Spec => []NoGap
  <1>1. Init => Followed /\ HistoryBegun
    BY DEF Init, Followed, HistoryBegun
  <1>2. TypeInv /\ Followed /\ HistoryBegun => NoGap
    BY DEF Followed, HistoryBegun, NoGap
  <1> QED BY InitType, TypeStep, FollowedStep, HistoryBegunStep, <1>1, <1>2,
             PTL DEF Spec

\* No step begins a frame for a client that is gone.
LEMMA LivingStep ==
  ASSUME TypeInv, GreetingPhases, [Next]_vars
  PROVE  StartedForLiving
  <1> USE FeedAssumption DEF StartedForLiving, Exists, GreetingPhases, Ungreeted,
         Greeted, TypeInv, TypeOK, FramePhases, feedVars, clientVars, socketVars,
         mutexes, Goto
  <1>1. ASSUME ReadPiece PROVE StartedForLiving
    BY <1>1 DEF ReadPiece
  <1>2. ASSUME AppendPiece PROVE StartedForLiving
    BY <1>2 DEF AppendPiece
  <1>3. ASSUME BroadcastPiece PROVE StartedForLiving
    BY <1>3, BroadcastFrames, OwnMessages DEF BroadcastPiece
  <1>4. ASSUME NEW c \in Controllers, ControllerGreet(c) PROVE StartedForLiving
    BY <1>4, OwnMessages DEF ControllerGreet, Write
  <1>5. ASSUME NEW c \in Controllers, ControllerList(c) PROVE StartedForLiving
    BY <1>5, OwnMessages DEF ControllerList
  <1>6. ASSUME NEW c \in Controllers, ControllerCopy(c) PROVE StartedForLiving
    BY <1>6, OwnMessages DEF ControllerCopy, SendHistory, Write
  <1>7. ASSUME NEW c \in Terminals, TerminalTryLock(c) PROVE StartedForLiving
    BY <1>7, OwnMessages DEF TerminalTryLock
  <1>8. ASSUME NEW c \in Terminals, TerminalList(c) PROVE StartedForLiving
    BY <1>8, OwnMessages DEF TerminalList, Write
  <1>9. ASSUME NEW c \in Terminals, TerminalGreeted(c) PROVE StartedForLiving
    BY <1>9, OwnMessages DEF TerminalGreeted
  <1>10. ASSUME NEW c \in Terminals, TerminalCopy(c) PROVE StartedForLiving
    BY <1>10, OwnMessages DEF TerminalCopy
  <1>11. ASSUME NEW c \in Terminals, TerminalStatus(c) PROVE StartedForLiving
    BY <1>11, OwnMessages DEF TerminalStatus, SendStatusAndHistory
  <1>12. ASSUME NEW c \in Clients, HistorySent(c) PROVE StartedForLiving
    BY <1>12 DEF HistorySent
  <1>13. ASSUME NEW c \in Clients, Attached(c) PROVE StartedForLiving
    BY <1>13 DEF Attached
  <1>14. ASSUME NEW c \in Clients, Leave(c) PROVE StartedForLiving
    BY <1>14 DEF Leave
  <1>15. ASSUME NEW c \in Clients, Break(c) PROVE StartedForLiving
    BY <1>15 DEF Break
  <1>16. ASSUME NEW c \in Clients, ReadEnds(c) PROVE StartedForLiving
    BY <1>16 DEF ReadEnds
  <1>17. ASSUME NEW c \in Clients, NEW m \in Messages, WriteHead(c,
            m) PROVE StartedForLiving
    BY <1>17, HeadFrames, OwnMessages
  <1>18. ASSUME NEW c \in Clients, NEW m \in Messages, WriteBody(c,
            m) PROVE StartedForLiving
    BY <1>18 DEF WriteBody, Write
  <1>19. ASSUME NEW c \in Clients, NEW m \in Messages, WriteFreed(c,
            m) PROVE StartedForLiving
    BY <1>19 DEF WriteFreed
  <1>20. ASSUME UNCHANGED vars PROVE StartedForLiving
    BY <1>20 DEF vars
  <1> QED
    BY <1>1, <1>2, <1>3, <1>4, <1>5, <1>6, <1>7, <1>8, <1>9, <1>10, <1>11, <1>12,
       <1>13, <1>14, <1>15, <1>16, <1>17, <1>18, <1>19, <1>20 DEF Next, ServerRead,
                 ClientStep,
       ControllerStep, TerminalStep

\* A thread of a broadcast never starts for a deleted client.
THEOREM WritersStartForTheLiving == Spec => WritersOfLiving
  <1>1. Init => GreetingPhases
    BY OwnMessages, ZenonT(30) DEF Init, GreetingPhases, Ungreeted, Greeted, Finished
  <1>2. TypeInv /\ GreetingPhases /\ [Next]_vars => [StartedForLiving]_vars
    BY LivingStep
  <1> QED
    BY InitType, TypeStep, GreetingPhasesStep, <1>1, <1>2, PTL DEF Spec, WritersOfLiving

-----------------------------------------------------------------------------
(* The promise. *)

\* Only pieces that were read are stored, sent or taken, and nothing is sent to
\* a client before its time.
Numbered ==
  /\ \A n \in stored : n <= read /\ (reader = "append" => n # read)
  /\ \A c \in Clients : \A n \in Pieces :
       frame[c][n] # "none" => n <= read /\ (reader # "recv" => n # read)
  /\ \A c \in Clients : copy[c] \subseteq stored

BeforeAttaching ==
  \A c \in Clients :
    /\ pc[c] \in {"waiting", "list"} =>
         \A m \in Messages \ {Greeting} : frame[c][m] = "none"
    /\ pc[c] \in {"waiting", "list", "greeting", "copy", "status"} =>
         frame[c][History] = "none"

\* A piece of text is no other message.
LEMMA PieceNames ==
  ASSUME NEW n \in Pieces
  PROVE  n \in Messages /\ n # History /\ n # Greeting /\ n \notin Terminals
  BY FeedAssumption DEF Messages

PromiseInv == TypeInv /\ GreetingPhases /\ Numbered /\ BeforeAttaching

\* Every action keeps the numbers of the pieces in order.
LEMMA NumberedStep ==
  ASSUME TypeInv, GreetingPhases, Numbered, [Next]_vars
  PROVE  Numbered'
  <1> USE FeedAssumption, OwnMessages DEF Numbered, Pieces, TypeInv, TypeOK,
         FramePhases, feedVars, clientVars, socketVars, mutexes, Goto
  <1>1. ASSUME ReadPiece PROVE Numbered'
    BY <1>1 DEF ReadPiece
  <1>2. ASSUME AppendPiece PROVE Numbered'
    BY <1>2 DEF AppendPiece
  <1>3. ASSUME BroadcastPiece PROVE Numbered'
    <2>1. reader' = "recv" /\ UNCHANGED <<read, stored, copy>>
      BY <1>3 DEF BroadcastPiece
    <2>2. \A d \in Clients : \A n \in Pieces :
            frame'[d][n] # "none" => n = read \/ frame[d][n] # "none"
      BY <1>3, BroadcastFrames, OwnMessages
    <2>3. Numbered /\ reader = "broadcast" /\ read \in 0..MaxPieces
      BY <1>3 DEF BroadcastPiece
    <2> QED BY ONLY <2>1, <2>2, <2>3, FeedAssumption DEF Numbered, Pieces
  <1>4. ASSUME NEW c \in Controllers, ControllerGreet(c) PROVE Numbered'
    BY <1>4, OwnMessages DEF ControllerGreet, Write
  <1>5. ASSUME NEW c \in Controllers, ControllerList(c) PROVE Numbered'
    BY <1>5, OwnMessages DEF ControllerList
  <1>6. ASSUME NEW c \in Controllers, ControllerCopy(c) PROVE Numbered'
    <2>1. frame' = frame \/ Write(c, History, "begin")
      BY <1>6 DEF ControllerCopy, SendHistory
    <2>2. ASSUME NEW d \in Clients, NEW n \in Pieces PROVE frame'[d][n] = frame[d][n]
      <3>1. n \in Messages /\ n # History /\ History \in Messages /\ c \in Clients
        BY PieceNames, OwnMessages
      <3>2. CASE Write(c, History, "begin")
        BY <3>1, <3>2 DEF Write
      <3> QED BY <2>1, <3>2
    <2>3. UNCHANGED feedVars /\ copy' = [copy EXCEPT ![c] = stored]
      BY <1>6 DEF ControllerCopy
    <2> QED BY <2>2, <2>3
  <1>7. ASSUME NEW c \in Terminals, TerminalTryLock(c) PROVE Numbered'
    BY <1>7, OwnMessages DEF TerminalTryLock
  <1>8. ASSUME NEW c \in Terminals, TerminalList(c) PROVE Numbered'
    BY <1>8, OwnMessages DEF TerminalList, Write
  <1>9. ASSUME NEW c \in Terminals, TerminalGreeted(c) PROVE Numbered'
    BY <1>9, OwnMessages DEF TerminalGreeted
  <1>10. ASSUME NEW c \in Terminals, TerminalCopy(c) PROVE Numbered'
    BY <1>10, OwnMessages DEF TerminalCopy
  <1>11. ASSUME NEW c \in Terminals, TerminalStatus(c) PROVE Numbered'
    BY <1>11, OwnMessages DEF TerminalStatus, SendStatusAndHistory
  <1>12. ASSUME NEW c \in Clients, HistorySent(c) PROVE Numbered'
    BY <1>12 DEF HistorySent
  <1>13. ASSUME NEW c \in Clients, Attached(c) PROVE Numbered'
    BY <1>13 DEF Attached
  <1>14. ASSUME NEW c \in Clients, Leave(c) PROVE Numbered'
    BY <1>14 DEF Leave
  <1>15. ASSUME NEW c \in Clients, Break(c) PROVE Numbered'
    BY <1>15 DEF Break
  <1>16. ASSUME NEW c \in Clients, ReadEnds(c) PROVE Numbered'
    BY <1>16 DEF ReadEnds
  <1>17. ASSUME NEW c \in Clients, NEW m \in Messages, WriteHead(c, m) PROVE Numbered'
    <2>1. \A d \in Clients : \A n \in Pieces :
            frame'[d][n] # "none" => frame[d][n] # "none"
      BY <1>17, HeadFrames, OwnMessages
    <2>2. UNCHANGED <<feedVars, clientVars>>
      BY <1>17, HeadFrames
    <2> QED BY <2>1, <2>2
  <1>18. ASSUME NEW c \in Clients, NEW m \in Messages, WriteBody(c, m) PROVE Numbered'
    BY <1>18 DEF WriteBody, Write
  <1>19. ASSUME NEW c \in Clients, NEW m \in Messages, WriteFreed(c, m) PROVE Numbered'
    BY <1>19 DEF WriteFreed
  <1>20. ASSUME UNCHANGED vars PROVE Numbered'
    BY <1>20 DEF vars
  <1> QED
    BY <1>1, <1>2, <1>3, <1>4, <1>5, <1>6, <1>7, <1>8, <1>9, <1>10, <1>11, <1>12,
       <1>13, <1>14, <1>15, <1>16, <1>17, <1>18, <1>19, <1>20 DEF Next, ServerRead,
                 ClientStep,
       ControllerStep, TerminalStep

\* No action sends anything to a client before its time.
LEMMA BeforeStep ==
  ASSUME TypeInv, GreetingPhases, BeforeAttaching, [Next]_vars
  PROVE  BeforeAttaching'
  <1> USE FeedAssumption, OwnMessages DEF BeforeAttaching, GreetingPhases, Greeted,
         Ungreeted, TypeInv, TypeOK, FramePhases, feedVars, clientVars, socketVars,
         mutexes, Goto
  <1>1. ASSUME ReadPiece PROVE BeforeAttaching'
    BY <1>1 DEF ReadPiece
  <1>2. ASSUME AppendPiece PROVE BeforeAttaching'
    BY <1>2 DEF AppendPiece
  <1>3. ASSUME BroadcastPiece PROVE BeforeAttaching'
    BY <1>3, BroadcastFrames, OwnMessages, SMTT(30) DEF BroadcastPiece
  <1>4. ASSUME NEW c \in Controllers, ControllerGreet(c) PROVE BeforeAttaching'
    BY <1>4, OwnMessages DEF ControllerGreet, Write
  <1>5. ASSUME NEW c \in Controllers, ControllerList(c) PROVE BeforeAttaching'
    BY <1>5, OwnMessages DEF ControllerList
  <1>6. ASSUME NEW c \in Controllers, ControllerCopy(c) PROVE BeforeAttaching'
    BY <1>6, OwnMessages DEF ControllerCopy, SendHistory, Write
  <1>7. ASSUME NEW c \in Terminals, TerminalTryLock(c) PROVE BeforeAttaching'
    BY <1>7, OwnMessages DEF TerminalTryLock
  <1>8. ASSUME NEW c \in Terminals, TerminalList(c) PROVE BeforeAttaching'
    BY <1>8, OwnMessages DEF TerminalList, Write
  <1>9. ASSUME NEW c \in Terminals, TerminalGreeted(c) PROVE BeforeAttaching'
    BY <1>9, OwnMessages DEF TerminalGreeted
  <1>10. ASSUME NEW c \in Terminals, TerminalCopy(c) PROVE BeforeAttaching'
    BY <1>10, OwnMessages DEF TerminalCopy
  <1>11. ASSUME NEW c \in Terminals, TerminalStatus(c) PROVE BeforeAttaching'
    <2>1. UNCHANGED listed /\ cliMutex = None /\ pc[c] = "status"
      BY <1>11 DEF TerminalStatus
    <2>2. \A d \in Clients : pc'[d] = IF d = c THEN pc'[c] ELSE pc[d]
      BY <1>11, OwnMessages DEF TerminalStatus, SendStatusAndHistory
    <2>3. pc'[c] \in {"start", "history"}
      BY <1>11, OwnMessages DEF TerminalStatus, SendStatusAndHistory
    <2>4. \A d \in Clients : \A m \in Messages :
            d \notin listed /\ d # c => frame'[d][m] = frame[d][m]
      BY <1>11, OwnMessages DEF TerminalStatus, SendStatusAndHistory
    <2>5. \A d \in Clients : d # c => frame'[d][History] = frame[d][History]
      BY <1>11, OwnMessages, FeedAssumption DEF TerminalStatus, SendStatusAndHistory
    <2>6. \A d \in Clients : pc[d] \in {"waiting", "list"} => d \notin listed
      BY DEF GreetingPhases, Greeted
    <2> QED BY <2>1, <2>2, <2>3, <2>4, <2>5, <2>6
  <1>12. ASSUME NEW c \in Clients, HistorySent(c) PROVE BeforeAttaching'
    BY <1>12 DEF HistorySent
  <1>13. ASSUME NEW c \in Clients, Attached(c) PROVE BeforeAttaching'
    BY <1>13 DEF Attached
  <1>14. ASSUME NEW c \in Clients, Leave(c) PROVE BeforeAttaching'
    BY <1>14 DEF Leave
  <1>15. ASSUME NEW c \in Clients, Break(c) PROVE BeforeAttaching'
    BY <1>15 DEF Break
  <1>16. ASSUME NEW c \in Clients, ReadEnds(c) PROVE BeforeAttaching'
    BY <1>16 DEF ReadEnds
  <1>17. ASSUME NEW c \in Clients, NEW m \in Messages, WriteHead(c,
            m) PROVE BeforeAttaching'
    BY <1>17, HeadFrames, OwnMessages
  <1>18. ASSUME NEW c \in Clients, NEW m \in Messages, WriteBody(c,
            m) PROVE BeforeAttaching'
    BY <1>18 DEF WriteBody, Write
  <1>19. ASSUME NEW c \in Clients, NEW m \in Messages, WriteFreed(c,
            m) PROVE BeforeAttaching'
    BY <1>19 DEF WriteFreed
  <1>20. ASSUME UNCHANGED vars PROVE BeforeAttaching'
    BY <1>20 DEF vars
  <1> QED
    BY <1>1, <1>2, <1>3, <1>4, <1>5, <1>6, <1>7, <1>8, <1>9, <1>10, <1>11, <1>12,
       <1>13, <1>14, <1>15, <1>16, <1>17, <1>18, <1>19, <1>20 DEF Next, ServerRead,
                 ClientStep,
       ControllerStep, TerminalStep

\* What the steps of the promise rest on holds all the time.
LEMMA PromiseInvariant == Spec => []PromiseInv
  <1>1. Init => PromiseInv
    BY InitType, OwnMessages
    DEF Init, PromiseInv, GreetingPhases, Ungreeted, Greeted, Finished, Numbered,
        BeforeAttaching
  <1>2. PromiseInv /\ [Next]_vars => PromiseInv'
    BY TypeStep, GreetingPhasesStep, NumberedStep, BeforeStep DEF PromiseInv
  <1> QED BY <1>1, <1>2, PTL DEF Spec

\* No frame of text or history begins or is sent, and no copy that was sent changes.
SameFrames ==
  \A c \in Clients :
    /\ \A n \in Pieces :
         /\ frame'[c][n] # "none" <=> frame[c][n] # "none"
         /\ frame'[c][n] = "sent" <=> frame[c][n] = "sent"
    /\ frame'[c][History] = "sent" <=> frame[c][History] = "sent"
    /\ copy'[c] = copy[c] \/ frame[c][History] # "sent"

\* The step is one of the promise, or changes nothing in it.
PromiseStep == [Promise!Next]_(Promise!vars)

\* What a client is owed and has got depends on its frames, its copy, the history
\* and whether it is a member.
LEMMA SameClient ==
  ASSUME SameFrames, NEW c \in Clients, c \in Members' <=> c \in Members
  PROVE  /\ stored' = stored => OwedTo(c)' = OwedTo(c)
         /\ GotBy(c)' = GotBy(c)
  <1>1. (c \in Members)' = (c \in Members)
    OBVIOUS
  <1>2. stored' = stored => OwedTo(c)' = OwedTo(c)
    BY <1>1 DEF SameFrames, OwedTo
  <1>3. GotBy(c)' = GotBy(c)
    BY <1>1 DEF SameFrames, GotBy
  <1> QED BY <1>2, <1>3

\* A step that touches nothing of this is none to the promise.
LEMMA Quiet ==
  ASSUME SameFrames, stored' = stored, Written' = Written, Members' = Members
  PROVE  UNCHANGED Promise!vars
  <1>1. \A c \in Clients : OwedTo(c)' = OwedTo(c) /\ GotBy(c)' = GotBy(c)
    BY SameClient
  <1> QED BY <1>1 DEF Promise!vars

\* When clients cease to be members, the promise lets them leave.
LEMMA Quit ==
  ASSUME SameFrames, stored' = stored, Written' = Written, Members' \subseteq Members,
         TypeInv
  PROVE  PromiseStep
  <1>1. CASE Members' = Members
    BY <1>1, Quiet DEF PromiseStep
  <1>2. CASE Members' # Members
    <2> DEFINE left == Members \ Members'
    <2>1. left \in SUBSET Members /\ left # {} /\ Members' = Members \ left
      BY <1>2
    <2>2. Members \subseteq Clients
      BY DEF Members, TypeInv, TypeOK
    <2>3. \A c \in Clients :
            /\ OwedTo(c)' = IF c \in left THEN {} ELSE OwedTo(c)
            /\ GotBy(c)' = IF c \in left THEN {} ELSE GotBy(c)
      <3> SUFFICES ASSUME NEW c \in Clients
                   PROVE  /\ OwedTo(c)' = IF c \in left THEN {} ELSE OwedTo(c)
                          /\ GotBy(c)' = IF c \in left THEN {} ELSE GotBy(c)
        OBVIOUS
      <3>1. CASE c \in left
        BY <3>1 DEF OwedTo, GotBy
      <3>2. CASE c \notin left
        <4>1. c \in Members' <=> c \in Members
          BY <3>2
        <4> QED BY <3>2, <4>1, SameClient
      <3> QED BY <3>1, <3>2
    <2> DEFINE owed == [c \in Clients |-> OwedTo(c)]
               got  == [c \in Clients |-> GotBy(c)]
    <2>4. /\ owed' = [c \in Clients |-> IF c \in left THEN {} ELSE owed[c]]
          /\ got' = [c \in Clients |-> IF c \in left THEN {} ELSE got[c]]
      BY <2>3
    <2>5. Promise!Leave
      <3> HIDE DEF left, owed, got
      <3> SUFFICES \E gone \in SUBSET Members :
            /\ gone # {}
            /\ Members' = Members \ gone
            /\ owed' = [c \in Clients |-> IF c \in gone THEN {} ELSE owed[c]]
            /\ got' = [c \in Clients |-> IF c \in gone THEN {} ELSE got[c]]
            /\ UNCHANGED <<Written, stored>>
        BY DEF Promise!Leave, owed, got
      <3> QED BY <2>1, <2>4
    <2> QED BY <2>5 DEF PromiseStep, Promise!Next
  <1> QED BY <1>1, <1>2

\* When a client becomes a member before anything was sent to it, the promise
\* lets it join.
LEMMA Joined ==
  ASSUME SameFrames, stored' = stored, Written' = Written, TypeInv,
         NEW c \in Clients, Members' = Members \cup {c},
         \A n \in Pieces : frame[c][n] = "none", frame[c][History] = "none"
  PROVE  PromiseStep
  <1>1. CASE c \in Members
    <2>1. Members' = Members
      BY <1>1
    <2> QED BY <2>1, Quiet DEF PromiseStep
  <1>2. CASE c \notin Members
    <2>1. \A d \in Clients : d # c => OwedTo(d)' = OwedTo(d) /\ GotBy(d)' = GotBy(d)
      <3> SUFFICES ASSUME NEW d \in Clients, d # c
                   PROVE  OwedTo(d)' = OwedTo(d) /\ GotBy(d)' = GotBy(d)
        OBVIOUS
      <3>1. d \in Members' <=> d \in Members
        OBVIOUS
      <3> QED BY <3>1, SameClient
    <2>2. OwedTo(c)' = stored
      BY DEF OwedTo, SameFrames
    <2>3. GotBy(c)' = {} /\ GotBy(c) = {}
      BY <1>2 DEF GotBy, SameFrames
    <2>4. Promise!Join(c)
      BY <1>2, <2>1, <2>2, <2>3 DEF Promise!Join
    <2> QED BY <2>4 DEF PromiseStep, Promise!Next
  <1> QED BY <1>1, <1>2

\* A step that leaves pieces, list, connections and copies alone, and no client
\* begins to leave, is none to the promise when it keeps the frames.
LEMMA QuietClient ==
  ASSUME SameFrames, UNCHANGED <<feedVars, listed, conn, fault>>,
  listed \subseteq Clients,
         \A c \in listed : pc'[c] = "removing" <=> pc[c] = "removing"
  PROVE  PromiseStep
  <1>1. stored' = stored /\ Written' = Written
    BY DEF feedVars, Written
  <1>2. Members' = Members
    BY DEF Members, Running
  <1> QED BY <1>1, <1>2, Quiet DEF PromiseStep

\* Storing a piece is the writing of it.
LEMMA AppendWrites ==
  ASSUME PromiseInv, AppendPiece
  PROVE  PromiseStep
  <1>1. /\ read \in Pieces /\ read \in Nat /\ reader = "append" /\ reader' = "broadcast"
        /\ stored' = stored \cup {read}
        /\ UNCHANGED <<read, clientVars, socketVars, mutexes, fault>>
    BY DEF PromiseInv, TypeInv, ReadBefore, TypeOK, AppendPiece
  <1>2. read \notin Written /\ Written' = Written \cup {read}
    BY <1>1 DEF PromiseInv, Numbered, Written
  <1>3. Members' = Members /\ Members \subseteq Clients
    BY <1>1 DEF Members, Running, clientVars, socketVars, PromiseInv, TypeInv, TypeOK
  <1>4. \A c \in Clients :
          /\ OwedTo(c)' = IF c \in Members THEN OwedTo(c) \cup {read} ELSE {}
          /\ GotBy(c)' = GotBy(c)
    BY <1>1, <1>3 DEF OwedTo, GotBy, clientVars, socketVars
  <1>5. Promise!Write
    BY <1>1, <1>2, <1>3, <1>4 DEF Promise!Write, Promise!Pieces, Pieces
  <1> QED BY <1>5 DEF PromiseStep, Promise!Next

\* Broadcasting a piece is the writing of it, unless it was stored before.
LEMMA BroadcastWrites ==
  ASSUME PromiseInv, BroadcastPiece
  PROVE  PromiseStep
  <1>1. /\ read \in Pieces /\ read \in Nat /\ reader = "broadcast" /\ reader' = "recv"
        /\ UNCHANGED <<read, stored, clientVars, lock, conn, mutexes, fault>>
    BY DEF PromiseInv, TypeInv, ReadBefore, Pieces, BroadcastPiece
  <1>2. Members' = Members /\ Members \subseteq listed /\ listed \subseteq Clients
    BY <1>1 DEF Members, Running, clientVars, PromiseInv, TypeInv, TypeOK
  <1>3. \A c \in Clients : \A n \in Pieces : n \in Messages /\ frame[c][read] = "none" /\
          frame'[c][n] = IF c \in listed /\ n = read THEN "begin" ELSE frame[c][n]
    BY <1>1, BroadcastFrames, PieceNames DEF PromiseInv, Numbered
  <1>4. \A c \in Clients : frame'[c][History] = frame[c][History]
    BY BroadcastFrames, OwnMessages DEF PromiseInv
  <1>5. \A c \in Clients :
          /\ c \in Members => OwedTo(c)' = OwedTo(c) \cup {read}
          /\ c \notin Members => OwedTo(c)' = {} /\ OwedTo(c) = {}
    BY <1>1, <1>2, <1>3 DEF OwedTo
  <1>6. \A c \in Clients : GotBy(c)' = GotBy(c)
    <2> SUFFICES ASSUME NEW c \in Clients PROVE GotBy(c)' = GotBy(c)
      OBVIOUS
    <2>1. copy' = copy
      BY <1>1 DEF clientVars
    <2>2. \A n \in Pieces : frame'[c][n] = "sent" <=> frame[c][n] = "sent"
      BY <1>3
    <2> QED BY <1>2, <1>4, <2>1, <2>2 DEF GotBy
  <1>7. Written' = Written \cup {read}
    <2>1. 1..read = (1..(read - 1)) \cup {read}
      BY <1>1, FeedAssumption DEF Pieces
    <2>2. Written' = stored \cup 1..read /\ Written = stored \cup 1..(read - 1)
      BY <1>1 DEF Written
    <2> QED BY <2>1, <2>2
  <1>8. CASE read \in stored
    <2>1. Written' = Written
      BY <1>7, <1>8 DEF Written
    <2>2. \A c \in Clients : OwedTo(c)' = OwedTo(c)
      BY <1>5, <1>8 DEF OwedTo
    <2> QED BY <1>1, <1>2, <1>6, <2>1, <2>2 DEF PromiseStep, Promise!vars
  <1>9. CASE read \notin stored
    <2>1. read \notin Written
      BY <1>1, <1>9 DEF Written
    <2>2. Promise!Write
      BY <1>1, <1>2, <1>5, <1>6, <1>7, <2>1 DEF Promise!Write, Promise!Pieces, Pieces
    <2> QED BY <2>2 DEF PromiseStep, Promise!Next
  <1> QED BY <1>8, <1>9

\* When the body of a frame has gone out, its client has got what is in it.
LEMMA BodyGives ==
  ASSUME PromiseInv, NEW c \in Clients, NEW m \in Messages, WriteBody(c, m)
  PROVE  PromiseStep
  <1>1. /\ frame[c][m] = "body" /\ UNCHANGED <<feedVars, clientVars, conn, fault>>
        /\ \A d \in Clients : \A n \in Messages : d # c \/ n # m => frame'[d][n] = frame[d][n]
        /\ frame'[c][m] = IF conn[c] = "open" THEN "sent" ELSE "lost"
    BY DEF WriteBody, Write, PromiseInv, TypeInv, TypeOK
  <1>2. stored' = stored /\ Written' = Written /\ Members' = Members
    BY <1>1 DEF feedVars, clientVars, Written, Members, Running
  <1>3. \A n \in Pieces : n \in Messages /\ n # History
    BY PieceNames
  <1>4. \A d \in Clients : OwedTo(d)' = OwedTo(d)
    <2>1. \A d \in Clients : \A n \in Pieces : frame'[d][n] # "none" <=> frame[d][n] # "none"
      BY <1>1, <1>3
    <2> QED BY <1>2, <2>1 DEF OwedTo
  <1>5. \A d \in Clients : d # c => GotBy(d)' = GotBy(d)
    <2>1. copy' = copy
      BY <1>1 DEF clientVars
    <2>2. \A d \in Clients : d # c =>
            /\ \A n \in Pieces : frame'[d][n] = frame[d][n]
            /\ frame'[d][History] = frame[d][History]
      BY <1>1, <1>3, OwnMessages
    <2> QED BY <1>2, <2>1, <2>2 DEF GotBy
  <1>6. CASE GotBy(c)' = GotBy(c)
    BY <1>2, <1>4, <1>5, <1>6 DEF PromiseStep, Promise!vars
  <1>7. CASE GotBy(c)' # GotBy(c)
    <2>1. c \in Members /\ conn[c] = "open"
      BY <1>2, <1>7 DEF GotBy, Members
    <2>2. \A n \in Messages : frame[c][n] = "sent" => frame'[c][n] = "sent"
      BY <1>1
    <2>3. copy' = copy /\ copy[c] \subseteq stored
      BY <1>1 DEF clientVars, PromiseInv, Numbered
    <2>4. GotBy(c) \subseteq GotBy(c)'
      BY <1>2, <1>3, <2>1, <2>2, <2>3, OwnMessages DEF GotBy
    <2>5. GotBy(c)' \subseteq OwedTo(c)
      <3>1. \A n \in Pieces : frame'[c][n] = "sent" => frame[c][n] # "none"
        BY <1>1, <1>3
      <3> QED BY <1>2, <2>1, <2>3, <3>1 DEF GotBy, OwedTo
    <2> DEFINE S == GotBy(c)' \ GotBy(c)
    <2>6. S \in SUBSET (OwedTo(c) \ GotBy(c)) /\ S # {} /\ GotBy(c)' = GotBy(c) \cup S
      BY <1>7, <2>4, <2>5
    <2>7. Promise!Get(c)
      <3> HIDE DEF S
      <3> DEFINE got == [d \in Clients |-> GotBy(d)]
      <3>1. got' = [got EXCEPT ![c] = @ \cup S]
        BY <1>5, <2>6
      <3>2. S \in SUBSET ([d \in Clients |-> OwedTo(d)][c] \ got[c])
        BY <2>6
      <3>3. [d \in Clients |-> OwedTo(d)]' = [d \in Clients |-> OwedTo(d)]
        BY <1>4
      <3> HIDE DEF got
      <3>4. \E T \in SUBSET ([d \in Clients |-> OwedTo(d)][c] \ got[c]) :
              T # {} /\ got' = [got EXCEPT ![c] = @ \cup T]
        BY <2>6, <3>1, <3>2
      <3> QED BY <1>2, <3>3, <3>4 DEF Promise!Get, got
    <2> QED BY <2>7 DEF PromiseStep, Promise!Next
  <1> QED BY <1>6, <1>7

\* Every action is a step of the promise, or none to it.
LEMMA PromiseSteps ==
  ASSUME PromiseInv, [Next]_vars
  PROVE  PromiseStep
  <1> USE DEF PromiseInv, TypeInv, TypeOK, feedVars, clientVars, socketVars, mutexes,
         Goto
  <1>1. ASSUME ReadPiece PROVE PromiseStep
    <2>1. SameFrames
      BY <1>1 DEF SameFrames, ReadPiece
    <2>2. stored' = stored /\ Written' = Written
      <3>1. read \in Nat /\ read' = read + 1 /\ reader = "recv" /\ reader' # "recv"
        BY <1>1 DEF ReadPiece
      <3>2. read' - 1 = read
        BY <3>1
      <3> QED BY <1>1, <3>1, <3>2 DEF ReadPiece, Written
    <2>3. Members' = Members
      BY <1>1 DEF ReadPiece, Members, Running
    <2> QED BY <2>1, <2>2, <2>3, Quiet DEF PromiseStep
  <1>2. ASSUME AppendPiece PROVE PromiseStep
    BY <1>2, AppendWrites
  <1>3. ASSUME BroadcastPiece PROVE PromiseStep
    BY <1>3, BroadcastWrites
  <1>4. ASSUME NEW c \in Controllers, ControllerGreet(c) PROVE PromiseStep
    <2>1. c \in Clients /\ listed \subseteq Clients
      BY OwnMessages
    <2>2. SameFrames
      <3>1. copy' = copy
        BY <1>4 DEF ControllerGreet
      <3>2. \A d \in Clients : \A n \in Messages \ {Greeting} : frame'[d][n] = frame[d][n]
        BY <1>4, <2>1, OwnMessages DEF ControllerGreet, Write
      <3>3. History # Greeting
        BY FeedAssumption
      <3> QED BY <3>1, <3>2, <3>3, OwnMessages, PieceNames DEF SameFrames
    <2>3. UNCHANGED <<feedVars, listed, conn, fault>>
      BY <1>4 DEF ControllerGreet
    <2>4. \A d \in listed : pc'[d] = "removing" <=> pc[d] = "removing"
      BY <1>4, <2>1 DEF ControllerGreet, Write
    <2> QED BY <2>1, <2>2, <2>3, <2>4, QuietClient
  <1>5. ASSUME NEW c \in Controllers, ControllerList(c) PROVE PromiseStep
    <2>1. c \in Clients /\ listed \subseteq Clients
      BY OwnMessages
    <2>2. SameFrames
      BY <1>5, <2>1, OwnMessages, PieceNames DEF SameFrames, ControllerList
    <2>3. stored' = stored /\ Written' = Written
      BY <1>5 DEF ControllerList, Written
    <2>4. /\ \A n \in Pieces : frame[c][n] = "none"
          /\ frame[c][History] = "none"
      BY <1>5, <2>1, OwnMessages, PieceNames, FeedAssumption DEF BeforeAttaching,
         ControllerList
    <2>5. /\ listed' = listed \cup {c} /\ c \notin listed /\ UNCHANGED <<conn, fault>>
          /\ \A d \in Clients : pc'[d] = "removing" <=> pc[d] = "removing"
          /\ pc'[c] # "removing"
      BY <1>5, <2>1 DEF ControllerList, GreetingPhases, Greeted
    <2>6. Members' = IF conn[c] = "open" THEN Members \cup {c} ELSE Members
      BY <1>5, <2>1, <2>5 DEF Members, Running, ControllerList
    <2>7. CASE conn[c] = "open"
      BY <2>1, <2>2, <2>3, <2>4, <2>6, <2>7, Joined
    <2>8. CASE conn[c] # "open"
      BY <2>2, <2>3, <2>6, <2>8, Quiet DEF PromiseStep
    <2> QED BY <2>7, <2>8
  <1>6. ASSUME NEW c \in Controllers, ControllerCopy(c) PROVE PromiseStep
    <2>1. c \in Clients /\ listed \subseteq Clients
      BY OwnMessages
    <2>2. SameFrames
      BY <1>6, <2>1, OwnMessages, PieceNames DEF SameFrames, BeforeAttaching,
         ControllerCopy, SendHistory, Write
    <2>3. UNCHANGED <<feedVars, listed, conn, fault>>
      BY <1>6 DEF ControllerCopy
    <2>4. \A d \in listed : pc'[d] = "removing" <=> pc[d] = "removing"
      BY <1>6, <2>1 DEF ControllerCopy, SendHistory, Write
    <2> QED BY <2>1, <2>2, <2>3, <2>4, QuietClient
  <1>7. ASSUME NEW c \in Terminals, TerminalTryLock(c) PROVE PromiseStep
    <2>1. c \in Clients /\ listed \subseteq Clients
      BY OwnMessages
    <2>2. SameFrames
      BY <1>7, <2>1, OwnMessages, PieceNames DEF SameFrames, BeforeAttaching,
         TerminalTryLock
    <2>3. UNCHANGED <<feedVars, listed, conn, fault>>
      BY <1>7 DEF TerminalTryLock
    <2>4. \A d \in listed : pc'[d] = "removing" <=> pc[d] = "removing"
      BY <1>7, <2>1 DEF TerminalTryLock
    <2> QED BY <2>1, <2>2, <2>3, <2>4, QuietClient
  <1>8. ASSUME NEW c \in Terminals, TerminalList(c) PROVE PromiseStep
    <2>1. c \in Clients /\ listed \subseteq Clients
      BY OwnMessages
    <2>2. SameFrames
      <3>1. copy' = copy
        BY <1>8 DEF TerminalList
      <3>2. \A d \in Clients : \A n \in Messages \ {Greeting} : frame'[d][n] = frame[d][n]
        BY <1>8, <2>1, OwnMessages DEF TerminalList, Write
      <3>3. History # Greeting
        BY FeedAssumption
      <3> QED BY <3>1, <3>2, <3>3, OwnMessages, PieceNames DEF SameFrames
    <2>3. stored' = stored /\ Written' = Written
      BY <1>8 DEF TerminalList, Written
    <2>4. /\ \A n \in Pieces : frame[c][n] = "none"
          /\ frame[c][History] = "none"
      BY <1>8, <2>1, OwnMessages, PieceNames, FeedAssumption DEF BeforeAttaching,
         TerminalList
    <2>5. /\ listed' = listed \cup {c} /\ c \notin listed /\ UNCHANGED <<conn, fault>>
          /\ \A d \in Clients : pc'[d] = "removing" <=> pc[d] = "removing"
          /\ pc'[c] # "removing"
      BY <1>8, <2>1 DEF TerminalList, GreetingPhases, Greeted
    <2>6. Members' = IF conn[c] = "open" THEN Members \cup {c} ELSE Members
      BY <1>8, <2>1, <2>5 DEF Members, Running, TerminalList
    <2>7. CASE conn[c] = "open"
      BY <2>1, <2>2, <2>3, <2>4, <2>6, <2>7, Joined
    <2>8. CASE conn[c] # "open"
      BY <2>2, <2>3, <2>6, <2>8, Quiet DEF PromiseStep
    <2> QED BY <2>7, <2>8
  <1>9. ASSUME NEW c \in Terminals, TerminalGreeted(c) PROVE PromiseStep
    <2>1. c \in Clients /\ listed \subseteq Clients
      BY OwnMessages
    <2>2. SameFrames
      BY <1>9, <2>1, OwnMessages, PieceNames DEF SameFrames, BeforeAttaching,
         TerminalGreeted
    <2>3. UNCHANGED <<feedVars, listed, conn, fault>>
      BY <1>9 DEF TerminalGreeted
    <2>4. \A d \in listed : pc'[d] = "removing" <=> pc[d] = "removing"
      BY <1>9, <2>1 DEF TerminalGreeted
    <2> QED BY <2>1, <2>2, <2>3, <2>4, QuietClient
  <1>10. ASSUME NEW c \in Terminals, TerminalCopy(c) PROVE PromiseStep
    <2>1. c \in Clients /\ listed \subseteq Clients
      BY OwnMessages
    <2>2. SameFrames
      BY <1>10, <2>1, OwnMessages, PieceNames DEF SameFrames, BeforeAttaching,
         TerminalCopy
    <2>3. UNCHANGED <<feedVars, listed, conn, fault>>
      BY <1>10 DEF TerminalCopy
    <2>4. \A d \in listed : pc'[d] = "removing" <=> pc[d] = "removing"
      BY <1>10, <2>1 DEF TerminalCopy
    <2> QED BY <2>1, <2>2, <2>3, <2>4, QuietClient
  <1>11. ASSUME NEW c \in Terminals, TerminalStatus(c) PROVE PromiseStep
    <2>1. c \in Clients /\ listed \subseteq Clients
      BY OwnMessages
    <2>2. SameFrames
      <3>1. copy' = copy /\ pc[c] = "status"
        BY <1>11 DEF TerminalStatus
      <3>2. \A d \in Clients : \A n \in Pieces : frame'[d][n] = frame[d][n]
        BY <1>11, PieceNames DEF TerminalStatus, SendStatusAndHistory
      <3>3. \A d \in Clients :
              frame'[d][History] = frame[d][History] \/ (d = c /\ frame'[d][History] = "begin")
        BY <1>11, OwnMessages, FeedAssumption DEF TerminalStatus, SendStatusAndHistory
      <3>4. frame[c][History] = "none"
        BY <2>1, <3>1 DEF BeforeAttaching
      <3> QED BY <3>1, <3>2, <3>3, <3>4 DEF SameFrames
    <2>3. UNCHANGED <<feedVars, listed, conn, fault>>
      BY <1>11 DEF TerminalStatus
    <2>4. \A d \in listed : pc'[d] = "removing" <=> pc[d] = "removing"
      BY <1>11, <2>1 DEF TerminalStatus, SendStatusAndHistory
    <2> QED BY <2>1, <2>2, <2>3, <2>4, QuietClient
  <1>12. ASSUME NEW c \in Clients, HistorySent(c) PROVE PromiseStep
    <2>1. c \in Clients /\ listed \subseteq Clients
      BY OwnMessages
    <2>2. SameFrames
      BY <1>12, <2>1, OwnMessages, PieceNames DEF SameFrames, BeforeAttaching,
         HistorySent
    <2>3. UNCHANGED <<feedVars, listed, conn, fault>>
      BY <1>12 DEF HistorySent
    <2>4. \A d \in listed : pc'[d] = "removing" <=> pc[d] = "removing"
      BY <1>12, <2>1 DEF HistorySent
    <2> QED BY <2>1, <2>2, <2>3, <2>4, QuietClient
  <1>13. ASSUME NEW c \in Clients, Attached(c) PROVE PromiseStep
    <2>1. c \in Clients /\ listed \subseteq Clients
      BY OwnMessages
    <2>2. SameFrames
      BY <1>13, <2>1, OwnMessages, PieceNames DEF SameFrames, BeforeAttaching, Attached
    <2>3. UNCHANGED <<feedVars, listed, conn, fault>>
      BY <1>13 DEF Attached
    <2>4. \A d \in listed : pc'[d] = "removing" <=> pc[d] = "removing"
      BY <1>13, <2>1 DEF Attached
    <2> QED BY <2>1, <2>2, <2>3, <2>4, QuietClient
  <1>14. ASSUME NEW c \in Clients, Leave(c) PROVE PromiseStep
    <2>1. SameFrames
      BY <1>14 DEF SameFrames, Leave
    <2>2. stored' = stored /\ Written' = Written
      BY <1>14 DEF Leave, Written
    <2>3. Members' \subseteq Members
      BY <1>14 DEF Members, Running, Leave
    <2> QED BY <2>1, <2>2, <2>3, Quit
  <1>15. ASSUME NEW c \in Clients, Break(c) PROVE PromiseStep
    <2>1. SameFrames
      BY <1>15 DEF SameFrames, Break
    <2>2. stored' = stored /\ Written' = Written
      BY <1>15 DEF Break, Written
    <2>3. Members' \subseteq Members
      BY <1>15 DEF Members, Running, Break
    <2> QED BY <2>1, <2>2, <2>3, Quit
  <1>16. ASSUME NEW c \in Clients, ReadEnds(c) PROVE PromiseStep
    <2>1. SameFrames
      BY <1>16 DEF SameFrames, ReadEnds
    <2>2. stored' = stored /\ Written' = Written
      BY <1>16 DEF ReadEnds, Written
    <2>3. Members' \subseteq Members
      BY <1>16 DEF Members, Running, ReadEnds
    <2> QED BY <2>1, <2>2, <2>3, Quit
  <1>17. ASSUME NEW c \in Clients, NEW m \in Messages, WriteHead(c, m) PROVE PromiseStep
    <2>1. SameFrames
      <3>1. /\ \A n \in Pieces : n \in Messages
            /\ UNCHANGED copy
        BY <1>17, HeadFrames, PieceNames
      <3>2. \A d \in Clients : \A n \in Messages :
              \/ frame'[d][n] = frame[d][n]
              \/ frame[d][n] = "begin" /\ frame'[d][n] \in {"body", "lost"}
        BY <1>17, HeadFrames
      <3> QED BY <3>1, <3>2, OwnMessages DEF SameFrames
    <2>2. UNCHANGED <<feedVars, listed, conn, fault, pc>>
      BY <1>17, HeadFrames
    <2> QED BY <2>1, <2>2, QuietClient
  <1>18. ASSUME NEW c \in Clients, NEW m \in Messages, WriteBody(c, m) PROVE PromiseStep
    BY <1>18, BodyGives
  <1>19. ASSUME NEW c \in Clients, NEW m \in Messages, WriteFreed(c,
            m) PROVE PromiseStep
    <2>1. SameFrames
      BY <1>19 DEF SameFrames, WriteFreed
    <2>2. stored' = stored /\ Written' = Written
      BY <1>19 DEF WriteFreed, Written
    <2>3. Members' \subseteq Members
      BY <1>19 DEF Members, Running, WriteFreed
    <2> QED BY <2>1, <2>2, <2>3, Quit
  <1>20. ASSUME UNCHANGED vars PROVE PromiseStep
    <2>1. SameFrames
      BY <1>20 DEF SameFrames, vars
    <2>2. UNCHANGED <<feedVars, listed, conn, fault, pc>>
      BY <1>20 DEF vars
    <2> QED BY <2>1, <2>2, QuietClient
  <1> QED
    BY <1>1, <1>2, <1>3, <1>4, <1>5, <1>6, <1>7, <1>8, <1>9, <1>10, <1>11, <1>12,
       <1>13, <1>14, <1>15, <1>16, <1>17, <1>18, <1>19, <1>20 DEF Next, ServerRead,
                 ClientStep,
       ControllerStep, TerminalStep

\* The feed gives what FeedPromise says: a connected client gets the text from
\* the start of its history on, and nothing else.  (That those who read get all
\* of it is liveness.)
THEOREM FeedKeepsPromise == Spec => Promise!Spec
  <1>1. Init => Promise!Init
    <2> SUFFICES ASSUME Init PROVE Promise!Init
      OBVIOUS
    <2>1. Written = {} /\ Members = {}
      BY DEF Init, Written, Members
    <2>2. \A c \in Clients : OwedTo(c) = {} /\ GotBy(c) = {}
      BY <2>1 DEF OwedTo, GotBy
    <2> QED BY <2>1, <2>2 DEF Init, Promise!Init
  <1>2. PromiseInv /\ [Next]_vars => [Promise!Next]_(Promise!vars)
    BY PromiseSteps DEF PromiseStep
  <1> QED BY PromiseInvariant, <1>1, <1>2, PTL DEF Spec, Promise!Spec

-----------------------------------------------------------------------------
(* Nothing is sent twice, and the locks are taken in order. *)

\* The status that a terminal broadcasts when it joins has not been begun before.
StatusUnsent ==
  \A w \in Terminals :
    pc[w] \in {"waiting", "list", "greeting", "copy", "status"} =>
      \A c \in Clients : frame[c][w] = "none"

\* A frame goes on from one phase to a later one.
OnePhaseOn(p, q) ==
  \/ p = q \/ p = "none"
  \/ p = "begin" /\ q \in {"body", "lost"}
  \/ p = "body" /\ q \in {"sent", "lost"}

\* No client gets a message a second time: a frame that was begun is not begun again.
NothingTwice == \A c \in Clients : \A m \in Messages : OnePhaseOn(frame[c][m], frame'[c][m])

\* A terminal broadcasts its status once.
LEMMA StatusStep ==
  ASSUME TypeInv, StatusUnsent, [Next]_vars
  PROVE  StatusUnsent'
  <1> USE FeedAssumption, OwnMessages DEF StatusUnsent, TypeInv, TypeOK, FramePhases,
        feedVars, clientVars, socketVars, mutexes, Goto
  <1>1. ASSUME ReadPiece PROVE StatusUnsent'
    BY <1>1 DEF ReadPiece
  <1>2. ASSUME AppendPiece PROVE StatusUnsent'
    BY <1>2 DEF AppendPiece
  <1>3. ASSUME BroadcastPiece PROVE StatusUnsent'
    <2>1. read \notin Terminals
      BY <1>3, BroadcastFrames, PieceNames
    <2>2. \A d \in Clients : \A w \in Terminals : frame'[d][w] = frame[d][w]
      BY <1>3, <2>1, BroadcastFrames
    <2> QED BY <1>3, <2>2 DEF BroadcastPiece
  <1>4. ASSUME NEW c \in Controllers, ControllerGreet(c) PROVE StatusUnsent'
    BY <1>4 DEF ControllerGreet, Write
  <1>5. ASSUME NEW c \in Controllers, ControllerList(c) PROVE StatusUnsent'
    BY <1>5 DEF ControllerList
  <1>6. ASSUME NEW c \in Controllers, ControllerCopy(c) PROVE StatusUnsent'
    BY <1>6 DEF ControllerCopy, SendHistory, Write
  <1>7. ASSUME NEW c \in Terminals, TerminalTryLock(c) PROVE StatusUnsent'
    BY <1>7 DEF TerminalTryLock
  <1>8. ASSUME NEW c \in Terminals, TerminalList(c) PROVE StatusUnsent'
    BY <1>8 DEF TerminalList, Write
  <1>9. ASSUME NEW c \in Terminals, TerminalGreeted(c) PROVE StatusUnsent'
    BY <1>9 DEF TerminalGreeted
  <1>10. ASSUME NEW c \in Terminals, TerminalCopy(c) PROVE StatusUnsent'
    BY <1>10 DEF TerminalCopy
  <1>11. ASSUME NEW c \in Terminals, TerminalStatus(c) PROVE StatusUnsent'
    <2>1. \A d \in Clients : \A w \in Terminals \ {c} : frame'[d][w] = frame[d][w]
      BY <1>11 DEF TerminalStatus, SendStatusAndHistory
    <2>2. /\ pc'[c] \in {"start", "history"}
          /\ \A d \in Clients \ {c} : pc'[d] = pc[d]
      BY <1>11 DEF TerminalStatus, SendStatusAndHistory
    <2> QED BY <2>1, <2>2
  <1>12. ASSUME NEW c \in Clients, HistorySent(c) PROVE StatusUnsent'
    BY <1>12 DEF HistorySent
  <1>13. ASSUME NEW c \in Clients, Attached(c) PROVE StatusUnsent'
    BY <1>13 DEF Attached
  <1>14. ASSUME NEW c \in Clients, Leave(c) PROVE StatusUnsent'
    BY <1>14 DEF Leave
  <1>15. ASSUME NEW c \in Clients, Break(c) PROVE StatusUnsent'
    BY <1>15 DEF Break
  <1>16. ASSUME NEW c \in Clients, ReadEnds(c) PROVE StatusUnsent'
    BY <1>16 DEF ReadEnds
  <1>17. ASSUME NEW c \in Clients, NEW m \in Messages, WriteHead(c, m)
        PROVE  StatusUnsent'
    BY <1>17, HeadFrames
  <1>18. ASSUME NEW c \in Clients, NEW m \in Messages, WriteBody(c, m)
        PROVE  StatusUnsent'
    BY <1>18 DEF WriteBody, Write
  <1>19. ASSUME NEW c \in Clients, NEW m \in Messages, WriteFreed(c, m)
        PROVE  StatusUnsent'
    BY <1>19 DEF WriteFreed
  <1>20. ASSUME UNCHANGED vars PROVE StatusUnsent'
    BY <1>20 DEF vars
  <1> QED
    BY <1>1, <1>2, <1>3, <1>4, <1>5, <1>6, <1>7, <1>8, <1>9, <1>10, <1>11, <1>12,
       <1>13, <1>14, <1>15, <1>16, <1>17, <1>18, <1>19, <1>20
    DEF Next, ServerRead, ClientStep, ControllerStep, TerminalStep

\* No action begins a frame again: pieces are numbered, and each phase of a client
\* has its messages.
LEMMA FramesStep ==
  ASSUME PromiseInv, StatusUnsent, [Next]_vars
  PROVE  NothingTwice
  <1> USE FeedAssumption, OwnMessages DEF NothingTwice, OnePhaseOn, PromiseInv, TypeInv,
        TypeOK, socketVars
  <1>1. ASSUME ReadPiece PROVE NothingTwice
    BY <1>1 DEF ReadPiece
  <1>2. ASSUME AppendPiece PROVE NothingTwice
    BY <1>2 DEF AppendPiece
  <1>3. ASSUME BroadcastPiece PROVE NothingTwice
    <2>1. \A d \in Clients : frame[d][read] = "none"
      BY <1>3, BroadcastFrames DEF Numbered, BroadcastPiece
    <2> QED BY <1>3, <2>1, BroadcastFrames
  <1>4. ASSUME NEW c \in Controllers, ControllerGreet(c) PROVE NothingTwice
    <2>1. frame[c][Greeting] = "none"
      BY <1>4 DEF ControllerGreet, GreetingPhases, Ungreeted
    <2> QED BY <1>4, <2>1 DEF ControllerGreet, Write
  <1>5. ASSUME NEW c \in Controllers, ControllerList(c) PROVE NothingTwice
    BY <1>5 DEF ControllerList
  <1>6. ASSUME NEW c \in Controllers, ControllerCopy(c) PROVE NothingTwice
    <2>1. frame[c][History] = "none"
      BY <1>6 DEF ControllerCopy, BeforeAttaching
    <2> QED BY <1>6, <2>1 DEF ControllerCopy, SendHistory, Write
  <1>7. ASSUME NEW c \in Terminals, TerminalTryLock(c) PROVE NothingTwice
    BY <1>7 DEF TerminalTryLock
  <1>8. ASSUME NEW c \in Terminals, TerminalList(c) PROVE NothingTwice
    <2>1. frame[c][Greeting] = "none"
      BY <1>8 DEF TerminalList, GreetingPhases, Ungreeted
    <2> QED BY <1>8, <2>1 DEF TerminalList, Write
  <1>9. ASSUME NEW c \in Terminals, TerminalGreeted(c) PROVE NothingTwice
    BY <1>9 DEF TerminalGreeted
  <1>10. ASSUME NEW c \in Terminals, TerminalCopy(c) PROVE NothingTwice
    BY <1>10 DEF TerminalCopy
  <1>11. ASSUME NEW c \in Terminals, TerminalStatus(c) PROVE NothingTwice
    <2>1. frame[c][History] = "none" /\ \A d \in Clients : frame[d][c] = "none"
      BY <1>11 DEF TerminalStatus, BeforeAttaching, StatusUnsent
    <2> QED BY <1>11, <2>1 DEF TerminalStatus, SendStatusAndHistory
  <1>12. ASSUME NEW c \in Clients, HistorySent(c) PROVE NothingTwice
    BY <1>12 DEF HistorySent
  <1>13. ASSUME NEW c \in Clients, Attached(c) PROVE NothingTwice
    BY <1>13 DEF Attached
  <1>14. ASSUME NEW c \in Clients, Leave(c) PROVE NothingTwice
    BY <1>14 DEF Leave
  <1>15. ASSUME NEW c \in Clients, Break(c) PROVE NothingTwice
    BY <1>15 DEF Break
  <1>16. ASSUME NEW c \in Clients, ReadEnds(c) PROVE NothingTwice
    BY <1>16 DEF ReadEnds
  <1>17. ASSUME NEW c \in Clients, NEW m \in Messages, WriteHead(c, m)
        PROVE  NothingTwice
    BY <1>17, HeadFrames
  <1>18. ASSUME NEW c \in Clients, NEW m \in Messages, WriteBody(c, m)
        PROVE  NothingTwice
    BY <1>18 DEF WriteBody, Write
  <1>19. ASSUME NEW c \in Clients, NEW m \in Messages, WriteFreed(c, m)
        PROVE  NothingTwice
    BY <1>19 DEF WriteFreed
  <1>20. ASSUME UNCHANGED vars PROVE NothingTwice
    BY <1>20 DEF vars
  <1> QED
    BY <1>1, <1>2, <1>3, <1>4, <1>5, <1>6, <1>7, <1>8, <1>9, <1>10, <1>11, <1>12,
       <1>13, <1>14, <1>15, <1>16, <1>17, <1>18, <1>19, <1>20
    DEF Next, ServerRead, ClientStep, ControllerStep, TerminalStep

\* Whatever is sent to a client, text, greeting, history or status, is sent to it at
\* most once, by one thread, though any number of threads broadcast.
THEOREM NothingSentTwice == Spec => [][NothingTwice]_vars
  <1>1. Init => StatusUnsent
    <2>1. \A w \in Terminals : w \in Messages
      BY OwnMessages
    <2> QED BY <2>1 DEF Init, StatusUnsent
  <1>2. PromiseInv /\ StatusUnsent /\ [Next]_vars => StatusUnsent'
    BY StatusStep DEF PromiseInv
  <1> QED BY PromiseInvariant, FramesStep, <1>1, <1>2, PTL DEF Spec

\* A lock of a socket is held by a frame whose head was sent, or could not be; cliMutex
\* by a terminal that is being greeted, and sbMutex by one that waits for cliMutex.
LocksUsed == \A c \in Clients : lock[c] # None => frame[c][lock[c]] \in {"body", "lost"}
MutexesUsed ==
  /\ cliMutex # None => /\ cliMutex \in Terminals /\ pc[cliMutex] = "greeting"
                        /\ frame[cliMutex][Greeting] # "none"
  /\ sbMutex # None => sbMutex \in Terminals /\ pc[sbMutex] = "status"
  /\ \A c \in Clients : pc[c] = "history" => frame[c][History] # "none"

\* Only the writer that has the lock of a socket takes its frame further.
LEMMA LocksStep ==
  ASSUME PromiseInv, StatusUnsent, LocksUsed, [Next]_vars
  PROVE  LocksUsed'
  <1>a. ASSUME UNCHANGED lock,
               \A d \in Clients : \A n \in Messages :
                 frame[d][n] \in {"body", "lost"} => frame'[d][n] = frame[d][n]
        PROVE  LocksUsed'
    BY <1>a DEF LocksUsed, PromiseInv, TypeInv, TypeOK
  <1> USE FeedAssumption, OwnMessages DEF PromiseInv, TypeInv, TypeOK, socketVars
  <1>1. ASSUME ReadPiece PROVE LocksUsed'
    BY <1>1, <1>a DEF ReadPiece
  <1>2. ASSUME AppendPiece PROVE LocksUsed'
    BY <1>2, <1>a DEF AppendPiece
  <1>3. ASSUME BroadcastPiece PROVE LocksUsed'
    <2>1. \A d \in Clients : frame[d][read] = "none"
      BY <1>3, BroadcastFrames DEF Numbered, BroadcastPiece
    <2> QED BY <1>3, <2>1, <1>a, BroadcastFrames DEF BroadcastPiece
  <1>4. ASSUME NEW c \in Controllers, ControllerGreet(c) PROVE LocksUsed'
    <2>1. frame[c][Greeting] = "none"
      BY <1>4 DEF ControllerGreet, GreetingPhases, Ungreeted
    <2> QED BY <1>4, <2>1, <1>a DEF ControllerGreet, Write
  <1>5. ASSUME NEW c \in Controllers, ControllerList(c) PROVE LocksUsed'
    BY <1>5, <1>a DEF ControllerList
  <1>6. ASSUME NEW c \in Controllers, ControllerCopy(c) PROVE LocksUsed'
    <2>1. frame[c][History] = "none"
      BY <1>6 DEF ControllerCopy, BeforeAttaching
    <2> QED BY <1>6, <2>1, <1>a DEF ControllerCopy, SendHistory, Write
  <1>7. ASSUME NEW c \in Terminals, TerminalTryLock(c) PROVE LocksUsed'
    BY <1>7, <1>a DEF TerminalTryLock
  <1>8. ASSUME NEW c \in Terminals, TerminalList(c) PROVE LocksUsed'
    <2>1. frame[c][Greeting] = "none"
      BY <1>8 DEF TerminalList, GreetingPhases, Ungreeted
    <2> QED BY <1>8, <2>1, <1>a DEF TerminalList, Write
  <1>9. ASSUME NEW c \in Terminals, TerminalGreeted(c) PROVE LocksUsed'
    BY <1>9, <1>a DEF TerminalGreeted
  <1>10. ASSUME NEW c \in Terminals, TerminalCopy(c) PROVE LocksUsed'
    BY <1>10, <1>a DEF TerminalCopy
  <1>11. ASSUME NEW c \in Terminals, TerminalStatus(c) PROVE LocksUsed'
    <2>1. frame[c][History] = "none" /\ \A d \in Clients : frame[d][c] = "none"
      BY <1>11 DEF TerminalStatus, BeforeAttaching, StatusUnsent
    <2> QED BY <1>11, <2>1, <1>a DEF TerminalStatus, SendStatusAndHistory
  <1>12. ASSUME NEW c \in Clients, HistorySent(c) PROVE LocksUsed'
    BY <1>12, <1>a DEF HistorySent
  <1>13. ASSUME NEW c \in Clients, Attached(c) PROVE LocksUsed'
    BY <1>13, <1>a DEF Attached
  <1>14. ASSUME NEW c \in Clients, Leave(c) PROVE LocksUsed'
    BY <1>14, <1>a DEF Leave
  <1>15. ASSUME NEW c \in Clients, Break(c) PROVE LocksUsed'
    BY <1>15, <1>a DEF Break
  <1>16. ASSUME NEW c \in Clients, ReadEnds(c) PROVE LocksUsed'
    BY <1>16, <1>a DEF ReadEnds
  <1>17. ASSUME NEW c \in Clients, NEW m \in Messages, WriteHead(c, m)
        PROVE  LocksUsed'
    <2>1. frame'[c][m] \in {"body", "lost"}
      BY <1>17, HeadFrames
    <2>2. lock' = lock \/ lock' = [lock EXCEPT ![c] = m]
      BY <1>17 DEF WriteHead
    <2>3. lock[c] = None
      BY <1>17 DEF WriteHead
    <2>4. \A d \in Clients \ {c} : \A n \in Messages : frame'[d][n] = frame[d][n]
      BY <1>17, HeadFrames
    <2> QED BY <2>1, <2>2, <2>3, <2>4 DEF LocksUsed
  <1>18. ASSUME NEW c \in Clients, NEW m \in Messages, WriteBody(c, m)
        PROVE  LocksUsed'
    <2>1. lock' = [lock EXCEPT ![c] = None]
      BY <1>18 DEF WriteBody
    <2>2. \A d \in Clients \ {c} : \A n \in Messages : frame'[d][n] = frame[d][n]
      BY <1>18 DEF WriteBody, Write
    <2> QED BY <2>1, <2>2 DEF LocksUsed
  <1>19. ASSUME NEW c \in Clients, NEW m \in Messages, WriteFreed(c, m)
        PROVE  LocksUsed'
    BY <1>19, <1>a DEF WriteFreed
  <1>20. ASSUME UNCHANGED vars PROVE LocksUsed'
    BY <1>20, <1>a DEF vars
  <1> QED
    BY <1>1, <1>2, <1>3, <1>4, <1>5, <1>6, <1>7, <1>8, <1>9, <1>10, <1>11, <1>12,
       <1>13, <1>14, <1>15, <1>16, <1>17, <1>18, <1>19, <1>20
    DEF Next, ServerRead, ClientStep, ControllerStep, TerminalStep

\* Each of the two mutexes is given back before its terminal goes on.
LEMMA MutexesStep ==
  ASSUME PromiseInv, StatusUnsent, MutexesUsed, [Next]_vars
  PROVE  MutexesUsed'
  <1>a. \A c \in Clients : \A m \in Messages : frame[c][m] # "none" => frame'[c][m] # "none"
    BY FramesStep DEF NothingTwice, OnePhaseOn
  <1> USE <1>a, FeedAssumption, OwnMessages DEF MutexesUsed, PromiseInv, TypeInv, TypeOK,
        clientVars, socketVars, mutexes, Goto
  <1>1. ASSUME ReadPiece PROVE MutexesUsed'
    BY <1>1 DEF ReadPiece
  <1>2. ASSUME AppendPiece PROVE MutexesUsed'
    BY <1>2 DEF AppendPiece
  <1>3. ASSUME BroadcastPiece PROVE MutexesUsed'
    BY <1>3 DEF BroadcastPiece
  <1>4. ASSUME NEW c \in Controllers, ControllerGreet(c) PROVE MutexesUsed'
    BY <1>4 DEF ControllerGreet
  <1>5. ASSUME NEW c \in Controllers, ControllerList(c) PROVE MutexesUsed'
    BY <1>5 DEF ControllerList
  <1>6. ASSUME NEW c \in Controllers, ControllerCopy(c) PROVE MutexesUsed'
    BY <1>6 DEF ControllerCopy, SendHistory, Write
  <1>7. ASSUME NEW c \in Terminals, TerminalTryLock(c) PROVE MutexesUsed'
    BY <1>7 DEF TerminalTryLock
  <1>8. ASSUME NEW c \in Terminals, TerminalList(c) PROVE MutexesUsed'
    BY <1>8 DEF TerminalList, Write
  <1>9. ASSUME NEW c \in Terminals, TerminalGreeted(c) PROVE MutexesUsed'
    BY <1>9 DEF TerminalGreeted
  <1>10. ASSUME NEW c \in Terminals, TerminalCopy(c) PROVE MutexesUsed'
    BY <1>10 DEF TerminalCopy
  <1>11. ASSUME NEW c \in Terminals, TerminalStatus(c) PROVE MutexesUsed'
    BY <1>11 DEF TerminalStatus, SendStatusAndHistory
  <1>12. ASSUME NEW c \in Clients, HistorySent(c) PROVE MutexesUsed'
    BY <1>12 DEF HistorySent
  <1>13. ASSUME NEW c \in Clients, Attached(c) PROVE MutexesUsed'
    BY <1>13 DEF Attached
  <1>14. ASSUME NEW c \in Clients, Leave(c) PROVE MutexesUsed'
    BY <1>14 DEF Leave
  <1>15. ASSUME NEW c \in Clients, Break(c) PROVE MutexesUsed'
    BY <1>15 DEF Break
  <1>16. ASSUME NEW c \in Clients, ReadEnds(c) PROVE MutexesUsed'
    BY <1>16 DEF ReadEnds
  <1>17. ASSUME NEW c \in Clients, NEW m \in Messages, WriteHead(c, m)
        PROVE  MutexesUsed'
    BY <1>17 DEF WriteHead
  <1>18. ASSUME NEW c \in Clients, NEW m \in Messages, WriteBody(c, m)
        PROVE  MutexesUsed'
    BY <1>18 DEF WriteBody
  <1>19. ASSUME NEW c \in Clients, NEW m \in Messages, WriteFreed(c, m)
        PROVE  MutexesUsed'
    BY <1>19 DEF WriteFreed
  <1>20. ASSUME UNCHANGED vars PROVE MutexesUsed'
    BY <1>20 DEF vars
  <1> QED
    BY <1>1, <1>2, <1>3, <1>4, <1>5, <1>6, <1>7, <1>8, <1>9, <1>10, <1>11, <1>12,
       <1>13, <1>14, <1>15, <1>16, <1>17, <1>18, <1>19, <1>20
    DEF Next, ServerRead, ClientStep, ControllerStep, TerminalStep

\* The thread that writes a frame can make its next step once the send returns.
Writing(c, m) == frame[c][m] = "body" \/ (frame[c][m] = "begin" /\ lock[c] = None)

\* Who has a lock waits at most for one that comes later: sbMutex, cliMutex, the lock
\* of a socket, the send.
LocksOrdered ==
  /\ sbMutex # None => sbMutex \in Terminals /\ pc[sbMutex] = "status"
  /\ cliMutex # None =>
       /\ cliMutex \in Terminals /\ pc[cliMutex] = "greeting"
       /\ Finished(frame[cliMutex][Greeting]) \/ Writing(cliMutex, Greeting)
  /\ \A c \in Clients : lock[c] # None => Writing(c, lock[c]) \/ Stuck(c)
  /\ \A c \in Clients : pc[c] = "history" =>
       \/ Finished(frame[c][History]) \/ Writing(c, History) \/ Stuck(c)
       \/ lock[c] # None /\ Writing(c, lock[c])

\* server_read and the threads of the clients never wait for each other in a circle,
\* for any number of clients: the terminal that has sbMutex waits for cliMutex, whose
\* terminal waits for nothing but the send of its own greeting.  Only a socket whose
\* head failed keeps a lock for good.
THEOREM LocksInOrder == Spec => []LocksOrdered
  <1> DEFINE LockInv == StatusUnsent /\ NothingBefore /\ LocksUsed /\ MutexesUsed
  <1>1. Init => LockInv
    BY OwnMessages DEF Init, StatusUnsent, NothingBefore, LocksUsed, MutexesUsed
  <1>2. PromiseInv /\ LockInv /\ [Next]_vars => LockInv'
    BY StatusStep, NothingBeforeStep, LocksStep, MutexesStep DEF PromiseInv
  <1>3. PromiseInv /\ LockInv => LocksOrdered
    <2> SUFFICES ASSUME PromiseInv, StatusUnsent, NothingBefore, LocksUsed, MutexesUsed
                 PROVE  LocksOrdered
      OBVIOUS
    <2> USE DEF PromiseInv, TypeInv, TypeOK, FramePhases
    <2>1. \A c \in Clients : lock[c] # None =>
            lock[c] \in Messages /\ (Writing(c, lock[c]) \/ Stuck(c))
      BY DEF LocksUsed, Writing, Stuck
    <2>2. ASSUME cliMutex # None
          PROVE  Finished(frame[cliMutex][Greeting]) \/ Writing(cliMutex, Greeting)
      <3>1. cliMutex \in Clients /\ frame[cliMutex][Greeting] \in FramePhases \ {"none"}
        BY <2>2, OwnMessages DEF MutexesUsed
      <3>2. frame[cliMutex][Greeting] = "begin" => lock[cliMutex] = None
        BY <3>1 DEF NothingBefore, LocksUsed, Finished
      <3> QED BY <3>1, <3>2 DEF Finished, Writing
    <2>3. ASSUME NEW c \in Clients, pc[c] = "history"
          PROVE  \/ Finished(frame[c][History]) \/ Writing(c, History)
                 \/ lock[c] # None
      <3>1. frame[c][History] \in FramePhases \ {"none"}
        BY <2>3, OwnMessages DEF MutexesUsed
      <3> QED BY <3>1 DEF Finished, Writing
    <2> QED BY <2>1, <2>2, <2>3 DEF LocksOrdered, MutexesUsed
  <1> QED BY PromiseInvariant, <1>1, <1>2, <1>3, PTL DEF Spec

================================================================================
