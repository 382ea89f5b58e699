-------------------------- MODULE ServerStatusProofs --------------------------
(* Theorems about ServerStatus, for any requests and bounds. *)
EXTENDS ServerStatus, FiniteSetTheorems, TLAPS

\* No frame under way is a sequence of frames.
LEMMA NoFrames == \A S : <<>> \in Seq(S)
  OBVIOUS

\* A sequence with one more element is a sequence.
LEMMA AddedType == ASSUME NEW S, NEW q \in Seq(S), NEW e \in S PROVE Append(q, e) \in Seq(S)
  OBVIOUS

\* At the start every variable has its type.
LEMMA InitType == Init => TypeOK
  <1> SUFFICES ASSUME Init PROVE TypeOK OBVIOUS
  <1>1. phase \in [Requests -> Phases] /\ serAttr \in [Flags -> BOOLEAN]
    BY DEF Init, Phases
  <1>2. toManager \in Seq(Reported \cup {"none"}) /\ toClient \in Seq(Requests)
    BY NoFrames DEF Init
  <1>3. type \in [Requests -> Types] /\ status \in Statuses
    BY DEF Init, Unset, Statuses, Reported
  <1> QED BY <1>1, <1>2, <1>3 DEF Init, TypeOK, Reported

\* Sending appends a report to the frames under way, leaves them alone, or ends them.
LEMMA SendType ==
  ASSUME toManager \in Seq(Reported \cup {"none"}), mixed \in BOOLEAN,
         NEW st \in Reported \cup {"none"}, SendStatus(st)
  PROVE  toManager' \in Seq(Reported \cup {"none"}) /\ mixed' \in BOOLEAN
  <1>1. CASE toManager' = Append(toManager, st) /\ mixed' = mixed
    BY <1>1
  <1>2. CASE TakenForText
    BY <1>2 DEF TakenForText
  <1>3. CASE UNCHANGED <<toManager, mixed>>
    BY <1>3
  <1> QED BY <1>1, <1>2, <1>3 DEF SendStatus

\* The requests under way to the client are requests, and so are those left
\* when the first is taken.
LEMMA TakenType ==
  ASSUME NEW S, NEW q \in Seq(S), q # <<>>
  PROVE  Head(q) \in S /\ Tail(q) \in Seq(S)
  OBVIOUS

\* Spending a flag leaves flags.
LEMMA SpentType ==
  ASSUME serAttr \in [Flags -> BOOLEAN], NEW flag, serAttr' = Spent(flag)
  PROVE  serAttr' \in [Flags -> BOOLEAN]
  BY DEF Spent

\* Moving the requests of some phases to another leaves phases.
LEMMA MovedType ==
  ASSUME phase \in [Requests -> Phases], NEW ps, NEW p \in Phases, GotoAll(ps, p)
  PROVE  phase' \in [Requests -> Phases]
  BY DEF GotoAll

\* Every action keeps the types.
LEMMA TypeStep == ASSUME TypeOK, [Next]_vars PROVE TypeOK'
  <1> USE DEF TypeOK, Phases, InHandler, Types, CloseTypes, Goto, manager, wire, client,
        rejoin, starter, game, count, inClient, unrelated
  <1>1. ASSUME Failure, UNCHANGED type PROVE TypeOK'
    BY <1>1 DEF Failure, UseFreedServer, KillOwnGroup, BrokenPipe, Fail
  <1>2. ASSUME NEW r \in Requests, HandlerStep(r), UNCHANGED <<type, fault>> PROVE TypeOK'
    <2>1. CASE Ask(r)
      BY <1>2, <2>1 DEF Ask
    <2>2. CASE CheckStatus(r)
      <3>1. phase' \in [Requests -> Phases] /\ UNCHANGED <<manager, wire, client>>
        BY <2>2 DEF CheckStatus
      <3> QED BY <1>2, <3>1
    <2>3. CASE CheckStoped(r)
      BY <1>2, <2>3 DEF CheckStoped
    <2>4. CASE MarkStopping(r)
      BY <1>2, <2>4 DEF MarkStopping, Statuses
    <2>5. CASE WriteCommand(r)
      <3>1. toClient' \in Seq(Requests)
        <4>1. toClient' = toClient \/ toClient' = Append(toClient, r)
          BY <1>2, <2>5, Zenon DEF WriteCommand
        <4> QED BY <1>2, <4>1, AddedType, SMTT(30)
      <3>2. phase' \in [Requests -> Phases]
        BY <1>2, <2>5 DEF WriteCommand
      <3>3. UNCHANGED <<manager, linkUp, toManager, breaks, mixed, client>>
        BY <1>2, <2>5 DEF WriteCommand
      <3> QED BY <1>2, <3>1, <3>2, <3>3
    <2> QED BY <1>2, <2>1, <2>2, <2>3, <2>4, <2>5 DEF HandlerStep
  <1>3. ASSUME NEW r \in Requests, CommandStep(r), UNCHANGED <<type, fault>> PROVE TypeOK'
    <2>1. CASE ForceShutdown(r)
      BY <1>3, <2>1 DEF ForceShutdown
    <2>2. CASE SetFlag(r)
      BY <1>3, <2>2 DEF SetFlag, Flags
    <2>3. CASE SendStop(r)
      BY <1>3, <2>3 DEF SendStop
    <2> QED BY <1>3, <2>1, <2>2, <2>3 DEF CommandStep
  <1>4. ASSUME ReadStatus, UNCHANGED <<type, fault>> PROVE TypeOK'
    <2>1. Tail(toManager) \in Seq(Reported \cup {"none"})
      BY <1>4, TakenType DEF ReadStatus
    <2>2. status' \in Statuses
      BY <1>4 DEF ReadStatus, Understood, Statuses
    <2> QED BY <1>4, <2>1, <2>2 DEF ReadStatus
  <1>11. ASSUME Misread, UNCHANGED <<type, fault>> PROVE TypeOK'
    BY <1>11 DEF Misread, Statuses, Reported
  <1>5. ASSUME BreakLink, UNCHANGED <<type, fault>> PROVE TypeOK'
    <2>1. toManager' \in Seq(Reported \cup {"none"}) /\ toClient' \in Seq(Requests)
      BY <1>5, NoFrames DEF BreakLink
    <2>2. phase' \in [Requests -> Phases]
      BY <1>5, MovedType DEF BreakLink
    <2>3. linkUp' \in BOOLEAN /\ mixed' \in BOOLEAN
      BY <1>5, Zenon DEF BreakLink
    <2>4. breaks' = breaks + 1 /\ UNCHANGED <<manager, client>>
      BY <1>5 DEF BreakLink
    <2> QED BY <1>5, <2>1, <2>2, <2>3, <2>4
  <1>6. ASSUME DeleteServer, UNCHANGED <<type, fault>> PROVE TypeOK'
    <2>1. phase' \in [Requests -> Phases]
      BY <1>6, MovedType DEF DeleteServer
    <2>2. listed' \in BOOLEAN
      BY <1>6, Zenon DEF DeleteServer
    <2>3. UNCHANGED <<status, wire, client>>
      BY <1>6 DEF DeleteServer
    <2> QED BY <1>6, <2>1, <2>2, <2>3
  <1>7. ASSUME ReaderStep, UNCHANGED <<type, fault>> PROVE TypeOK'
    <2>1. CASE ReadCommand
      <3>1. Head(toClient) \in Requests /\ Tail(toClient) \in Seq(Requests)
        BY <2>1, TakenType DEF ReadCommand
      <3> QED BY <1>7, <2>1, <3>1 DEF ReadCommand
    <2>2. CASE CloseSocket
      BY <1>7, <2>2 DEF CloseSocket
    <2>3. CASE Dial
      BY <1>7, <2>3 DEF Dial
    <2>4. CASE JoinRefused
      BY <1>7, <2>4 DEF JoinRefused
    <2>5. CASE Join
      BY <1>7, <2>5 DEF Join, AfterJoin, Unset, Statuses, Reported
    <2>6. CASE ReadArgument
      BY <1>7, <2>6 DEF ReadArgument, Beside
    <2>7. CASE RepeatStatus
      <3>1. SendStatus(repeated) /\ repeated \in Reported \cup {"none"}
        BY <2>7 DEF RepeatStatus
      <3>2. toManager' \in Seq(Reported \cup {"none"}) /\ mixed' \in BOOLEAN
        BY <3>1, SendType, Zenon
      <3> QED BY <1>7, <2>7, <3>2 DEF RepeatStatus, Beside
    <2>8. CASE StoreRepeated
      BY <1>7, <2>8 DEF StoreRepeated, Beside
    <2> QED BY <1>7, <2>1, <2>2, <2>3, <2>4, <2>5, <2>6, <2>7, <2>8 DEF ReaderStep
  <1>8. ASSUME LauncherStep, UNCHANGED <<type, fault>> PROVE TypeOK'
    <2>1. CASE Tell
      <3>1. SendStatus(telling) /\ telling \in Reported \cup {"none"}
        BY <2>1 DEF Tell
      <3>2. toManager' \in Seq(Reported \cup {"none"}) /\ mixed' \in BOOLEAN
        BY <3>1, SendType, Zenon
      <3> QED BY <1>8, <2>1, <3>2 DEF Tell
    <2>2. CASE Record
      BY <1>8, <2>2 DEF Record, Reported
    <2>3. CASE Fork
      BY <1>8, <2>3 DEF Fork
    <2>4. CASE Wait
      BY <1>8, <2>4 DEF Wait, Announcing, Reported
    <2>5. CASE Sleep
      BY <1>8, <2>5, SpentType DEF Sleep
    <2>6. CASE Wake
      BY <1>8, <2>6, SpentType DEF Wake, Announcing, Reported
    <2>7. CASE Relaunch
      BY <1>8, <2>7, SpentType DEF Relaunch, Announcing, Reported
    <2> QED BY <1>8, <2>1, <2>2, <2>3, <2>4, <2>5, <2>6, <2>7 DEF LauncherStep
  <1>9. ASSUME GameEnds, UNCHANGED <<type, fault>> PROVE TypeOK'
    BY <1>9 DEF GameEnds
  <1>10. ASSUME UNCHANGED vars PROVE TypeOK'
    BY <1>10 DEF vars
  <1> QED
    BY <1>1, <1>2, <1>3, <1>4, <1>5, <1>6, <1>7, <1>8, <1>9, <1>10,
       <1>11
    DEF Next, Step

\* Every variable keeps the type of what it stands for.
THEOREM TypeCorrect == Spec => []TypeOK
  BY InitType, TypeStep, PTL DEF Spec

-----------------------------------------------------------------------------
(* The two statuses agree. *)

\* Only a request to close is on its way to mark the status.
MarksClose == \A r \in Requests : phase[r] = "mark" => type[r] \in CloseTypes

\* What the manager will know when it has read every frame under way.
LastReport(st) ==
  IF toManager = <<>> THEN status = st \/ (status = "STOPPING" /\ Closing)
                      ELSE toManager[Len(toManager)] = st

\* Unless two calls of setServerStatus overlapped, a status that was told is
\* recorded and repeated, and the last report on its way is that status if none of
\* this connection was taken for text.
Followed ==
  ~overlap /\ launcher # "tell" =>
    /\ launcher # "record" => SERSTATUS = telling
    /\ reader \in {"repeat", "store"} => repeated = telling
    /\ linkUp /\ ~mixed /\ reader \in {"store", "reading"} => LastReport(telling)

AgreeInv == TypeOK /\ MarksClose /\ Followed

\* A request never returns to idle, and only one to close gets to the mark.
LEMMA PhaseStep ==
  ASSUME TypeOK, MarksClose, [Next]_vars
  PROVE  MarksClose' /\ (Closing => Closing')
  <1>1. type' = type
    BY DEF Next, vars
  <1>2. SUFFICES \A r \in Requests :
                   /\ phase[r] # "idle" => phase'[r] # "idle"
                   /\ phase'[r] = "mark" => type[r] \in CloseTypes
    BY <1>1 DEF MarksClose, Closing
  <1> USE DEF TypeOK, MarksClose, Goto
  <1>3. CASE UNCHANGED phase
    BY <1>3
  <1>4. ASSUME NEW r \in Requests, HandlerStep(r)
        PROVE  \A q \in Requests : /\ phase[q] # "idle" => phase'[q] # "idle"
                                   /\ phase'[q] = "mark" => type[q] \in CloseTypes
    BY <1>4 DEF HandlerStep, Ask, CheckStatus, CheckStoped, MarkStopping, WriteCommand
  <1>5. ASSUME NEW r \in Requests, CommandStep(r)
        PROVE  \A q \in Requests : /\ phase[q] # "idle" => phase'[q] # "idle"
                                   /\ phase'[q] = "mark" => type[q] \in CloseTypes
    BY <1>5 DEF CommandStep, ForceShutdown, SetFlag, SendStop
  <1>6. CASE BreakLink
    BY <1>6 DEF BreakLink, GotoAll
  <1>7. CASE DeleteServer
    BY <1>7 DEF DeleteServer, GotoAll
  <1>8. CASE ReadCommand
    <2>1. Head(toClient) \in Requests
      BY <1>8, TakenType DEF ReadCommand
    <2> QED BY <1>8, <2>1 DEF ReadCommand
  <1>9. CASE Failure
    BY <1>3, <1>9 DEF Failure, UseFreedServer, KillOwnGroup, BrokenPipe, Fail
  <1>10. CASE ReaderStep /\ ~ReadCommand
    BY <1>3, <1>10 DEF ReaderStep, CloseSocket, Dial, JoinRefused, Join, ReadArgument,
       RepeatStatus, StoreRepeated
  <1>11. CASE LauncherStep
    BY <1>3, <1>11 DEF LauncherStep, Tell, Record, Fork, Wait, Sleep, Wake, Relaunch,
       unrelated
  <1>12. CASE ReadStatus \/ Misread \/ GameEnds \/ UNCHANGED vars
    BY <1>3, <1>12 DEF ReadStatus, Misread, GameEnds, vars
  <1> QED
    BY <1>4, <1>5, <1>6, <1>7, <1>8, <1>9, <1>10, <1>11, <1>12 DEF Next, Step

\* A step that touches nothing Followed is about keeps it, even if the link breaks.
LEMMA FollowedStays ==
  ASSUME Followed, Closing => Closing',
         linkUp' => linkUp /\ UNCHANGED <<toManager, mixed>>,
         UNCHANGED <<overlap, launcher, telling, SERSTATUS, reader, repeated, status>>
  PROVE  Followed'
  BY DEF Followed, LastReport

\* The end of a sequence is what was appended, and stays when the head is taken.
LEMMA LastOf ==
  ASSUME NEW S, NEW q \in Seq(S)
  PROVE  /\ \A e \in S : Append(q, e) # <<>> /\ Append(q, e)[Len(Append(q, e))] = e
         /\ q # <<>> /\ Tail(q) = <<>> => Head(q) = q[Len(q)]
         /\ q # <<>> /\ Tail(q) # <<>> => Tail(q)[Len(Tail(q))] = q[Len(q)]
  OBVIOUS

\* Every step keeps what is said of the reports under way.
LEMMA FollowedStep == ASSUME AgreeInv, [Next]_vars PROVE Followed'
  <1> USE DEF AgreeInv
  <1>1. Closing => Closing'
    BY PhaseStep
  <1>2. ASSUME NEW r \in Requests, HandlerStep(r) PROVE Followed'
    <2>1. CASE MarkStopping(r)
      <3>1. Closing'
        BY <1>1, <2>1 DEF MarkStopping, MarksClose, Closing
      <3>2. /\ status' = "STOPPING"
            /\ UNCHANGED <<overlap, launcher, telling, SERSTATUS, reader, repeated,
                           toManager, mixed, linkUp>>
        BY <2>1 DEF MarkStopping, client, wire, rejoin, starter
      <3> QED BY <3>1, <3>2 DEF Followed, LastReport
    <2>2. CASE ~MarkStopping(r)
      <3>1. UNCHANGED <<overlap, launcher, telling, SERSTATUS, reader, repeated,
                        toManager, mixed, linkUp, status>>
        BY <1>2, <2>2 DEF HandlerStep, Ask, CheckStatus, CheckStoped, WriteCommand,
           client, wire, rejoin, starter, manager
      <3> QED BY <3>1, <1>1, FollowedStays
    <2> QED BY <2>1, <2>2
  <1>3. ASSUME NEW r \in Requests, CommandStep(r) PROVE Followed'
    <2>1. UNCHANGED <<overlap, launcher, telling, SERSTATUS, reader, repeated,
                      toManager, mixed, linkUp, status>>
      BY <1>3 DEF CommandStep, ForceShutdown, SetFlag, SendStop, client, wire, rejoin,
         starter, manager
    <2> QED BY <2>1, <1>1, FollowedStays
  <1>4. CASE ReadStatus
    <2>1. /\ toManager # <<>> /\ status' = Understood(Head(toManager))
          /\ toManager' = Tail(toManager)
          /\ UNCHANGED <<overlap, launcher, telling, SERSTATUS, reader, repeated, linkUp,
                         mixed>>
      BY <1>4 DEF ReadStatus, client, rejoin, starter
    <2>2. ASSUME LastReport(telling) PROVE LastReport(telling)'
      <3>1. toManager[Len(toManager)] = telling
        BY <2>1, <2>2 DEF LastReport
      <3>2. toManager \in Seq(Reported \cup {"none"}) /\ telling \in Reported
        BY DEF TypeOK
      <3>3. CASE Tail(toManager) = <<>>
        <4>1. Head(toManager) = telling
          BY <2>1, <3>1, <3>2, <3>3, LastOf
        <4> QED BY <2>1, <3>2, <3>3, <4>1 DEF LastReport, Understood
      <3>4. CASE Tail(toManager) # <<>>
        <4>1. Tail(toManager)[Len(Tail(toManager))] = telling
          BY <2>1, <3>1, <3>2, <3>4, LastOf
        <4> QED BY <2>1, <3>4, <4>1 DEF LastReport
      <3> QED BY <3>3, <3>4
    <2> QED BY <2>1, <2>2 DEF Followed
  <1>16. CASE Misread
    <2>1. /\ mixed /\ mixed' = mixed
          /\ UNCHANGED <<overlap, launcher, telling, SERSTATUS, reader, repeated>>
      BY <1>16 DEF Misread, client, wire, rejoin, starter
    <2> QED BY <2>1 DEF Followed
  <1>5. CASE BreakLink \/ DeleteServer \/ ReadCommand \/ GameEnds \/ UNCHANGED vars
    <2>1. /\ linkUp' => linkUp /\ UNCHANGED <<toManager, mixed>>
          /\ UNCHANGED <<overlap, launcher, telling, SERSTATUS, reader, repeated, status>>
      BY <1>5 DEF BreakLink, DeleteServer, ReadCommand, GameEnds, vars, client, wire,
         rejoin, starter, manager
    <2> QED BY <2>1, <1>1, FollowedStays
  <1>6. CASE Failure
    <2>1. UNCHANGED <<overlap, launcher, telling, SERSTATUS, reader, repeated,
                      toManager, mixed, linkUp, status>>
      BY <1>6 DEF Failure, UseFreedServer, KillOwnGroup, BrokenPipe, Fail, client, wire,
         rejoin, starter, manager
    <2> QED BY <2>1, <1>1, FollowedStays
  <1>7. CASE CloseSocket \/ Dial \/ JoinRefused \/ Join
    <2>1. /\ reader' \notin {"repeat", "store", "reading"}
          /\ UNCHANGED <<overlap, launcher, telling, SERSTATUS>>
      BY <1>7 DEF CloseSocket, Dial, JoinRefused, Join, AfterJoin, inClient, starter
    <2> QED BY <2>1 DEF Followed
  <1>8. CASE ReadArgument
    <2>1. /\ reader' = "repeat" /\ repeated' = SERSTATUS
          /\ ~overlap' => ~overlap /\ launcher # "record"
          /\ UNCHANGED <<launcher, telling, SERSTATUS>>
      BY <1>8 DEF ReadArgument, Beside, inClient, starter
    <2> QED BY <2>1 DEF Followed
  <1>9. CASE RepeatStatus
    <2>1. /\ reader = "repeat" /\ reader' = "store" /\ SendStatus(repeated)
          /\ ~overlap' => ~overlap /\ launcher # "record"
          /\ UNCHANGED <<launcher, telling, SERSTATUS, repeated, linkUp, status>>
      BY <1>9 DEF RepeatStatus, Beside, inClient, starter, manager
    <2>2. toManager \in Seq(Reported \cup {"none"}) /\ repeated \in Reported \cup {"none"}
      BY DEF TypeOK
    <2>3. linkUp /\ ~mixed' =>
             toManager' # <<>> /\ toManager'[Len(toManager')] = repeated
      BY <2>1, <2>2, LastOf DEF SendStatus, Carries, TakenForText
    <2> QED BY <2>1, <2>3 DEF Followed, LastReport
  <1>10. CASE StoreRepeated
    <2>1. /\ reader = "store" /\ reader' = "reading" /\ SERSTATUS' = repeated
          /\ ~overlap' => ~overlap /\ launcher # "record"
          /\ UNCHANGED <<launcher, telling, linkUp, mixed, status, toManager>>
      BY <1>10 DEF StoreRepeated, Beside, inClient, starter, manager, wire
    <2> QED BY <2>1, <1>1 DEF Followed, LastReport
  <1>11. CASE Tell
    <2>1. /\ launcher' = "record" /\ SendStatus(telling)
          /\ ~overlap' => reader \notin {"repeat", "store"}
          /\ UNCHANGED <<telling, SERSTATUS, reader, repeated, linkUp, status>>
      BY <1>11 DEF Tell, manager
    <2>2. toManager \in Seq(Reported \cup {"none"}) /\ telling \in Reported \cup {"none"}
      BY DEF TypeOK
    <2>3. linkUp /\ ~mixed' =>
             toManager' # <<>> /\ toManager'[Len(toManager')] = telling
      BY <2>1, <2>2, LastOf DEF SendStatus, Carries, TakenForText
    <2> QED BY <2>1, <2>3 DEF Followed, LastReport
  <1>12. CASE Record
    <2>1. /\ launcher = "record" /\ SERSTATUS' = telling
          /\ ~overlap' => ~overlap /\ reader \notin {"repeat", "store"}
          /\ UNCHANGED <<telling, reader, repeated, linkUp, mixed, status, toManager>>
      BY <1>12 DEF Record, manager, wire, rejoin
    <2> QED BY <2>1, <1>1 DEF Followed, LastReport
  <1>13. CASE Fork \/ Sleep
    <2>1. /\ launcher \notin {"tell", "record"}
          /\ UNCHANGED <<overlap, telling, SERSTATUS, reader, repeated, linkUp, status,
                         toManager, mixed>>
      BY <1>13 DEF Fork, Sleep, unrelated, manager, wire, rejoin
    <2> QED BY <2>1, <1>1 DEF Followed, LastReport
  <1>14. CASE Wait \/ Wake
    BY <1>14 DEF Wait, Wake, Announcing, Followed
  <1>15. CASE Relaunch
    <2>1. \/ launcher' = "tell"
          \/ launcher = "stoped" /\ telling' = telling
      BY <1>15 DEF Relaunch, Announcing
    <2>2. UNCHANGED <<overlap, SERSTATUS, reader, repeated, linkUp, status, toManager,
                      mixed>>
      BY <1>15 DEF Relaunch, unrelated, manager, wire, rejoin
    <2> QED BY <2>1, <2>2, <1>1 DEF Followed, LastReport
  <1> QED
    BY <1>2, <1>3, <1>4, <1>5, <1>6, <1>7, <1>8, <1>9, <1>10, <1>11, <1>12, <1>13,
       <1>14, <1>15, <1>16
    DEF Next, Step, ReaderStep, LauncherStep

\* A quiet manager goes by what the launcher last told, or by STOPPING on behalf
\* of a request to close, unless two calls of setServerStatus overlapped or a status
\* of this connection was taken for a part of a line of the game.
THEOREM StatusesAgree == Spec => []StatusAgrees
  <1>1. Init => AgreeInv
    <2> SUFFICES ASSUME Init PROVE AgreeInv OBVIOUS
    <2>1. MarksClose
      BY DEF Init, MarksClose
    <2>2. Followed
      BY DEF Init, Followed
    <2> QED BY <2>1, <2>2, InitType DEF AgreeInv
  <1>2. AgreeInv /\ [Next]_vars => AgreeInv'
    BY TypeStep, PhaseStep, FollowedStep DEF AgreeInv
  <1>3. AgreeInv => StatusAgrees
    BY DEF AgreeInv, Followed, LastReport, StatusAgrees, Quiet
  <1> QED BY <1>1, <1>2, <1>3, PTL DEF Spec

-----------------------------------------------------------------------------
(* Every suspension and every return from one is paid for. *)

\* What is under way to the client is sent, and each request only once.
InTransit ==
  /\ \A i \in 1..Len(toClient) : phase[toClient[i]] = "sent"
  /\ \A i, j \in 1..Len(toClient) : toClient[i] = toClient[j] => i = j

\* The launcher is about to sleep only while the flag is set.
FlagKept ==
  /\ telling = "SUSPENDED" /\ launcher \in {"tell", "record"} => serAttr["suspend"]
  /\ launcher = "suspended" => serAttr["suspend"]

Launched  == Of("launch", {"done"})
Suspended == Of("suspend", {"flagged", "done"})

PaidInv == TypeOK /\ InTransit /\ FlagKept /\ WakesPaid /\ SuspensionsPaid

\* A sequence without repetition has none after an append of a new element,
\* nor after its head is taken, and the head is not in the rest.
LEMMA TransitKept ==
  ASSUME NEW S, NEW q \in Seq(S),
         \A i, j \in 1..Len(q) : q[i] = q[j] => i = j
  PROVE  /\ \A e \in S : (\A i \in 1..Len(q) : q[i] # e) =>
              \A i, j \in 1..Len(Append(q, e)) :
                Append(q, e)[i] = Append(q, e)[j] => i = j
         /\ q # <<>> => \A i, j \in 1..Len(Tail(q)) :
              Tail(q)[i] = Tail(q)[j] => i = j
         /\ q # <<>> => \A i \in 1..Len(Tail(q)) :
              Tail(q)[i] # Head(q) /\ \E j \in 1..Len(q) : Tail(q)[i] = q[j]
  OBVIOUS

\* What happens to a request that is not under way leaves the others under way.
LEMMA NotInTransit ==
  ASSUME TypeOK, InTransit, NEW r \in Requests, NEW p, phase[r] # "sent", Goto(r, p),
         toClient' = toClient
  PROVE  InTransit'
  BY DEF TypeOK, InTransit, Goto

\* Every step keeps what is said of the frames under way to the client.
LEMMA TransitStep == ASSUME TypeOK, InTransit, [Next]_vars PROVE InTransit'
  <1>1. CASE UNCHANGED <<phase, toClient>>
    BY <1>1 DEF InTransit
  <1>2. ASSUME NEW r \in Requests, HandlerStep(r), ~WriteCommand(r) PROVE InTransit'
    BY <1>2, NotInTransit DEF HandlerStep, Ask, CheckStatus, CheckStoped, MarkStopping, wire
  <1>3. ASSUME NEW r \in Requests, CommandStep(r) PROVE InTransit'
    BY <1>3, NotInTransit DEF CommandStep, ForceShutdown, SetFlag, SendStop, wire
  <1>4. ASSUME NEW r \in Requests, WriteCommand(r) PROVE InTransit'
    <2>1. CASE toClient' = toClient
      BY <1>4, <2>1, NotInTransit DEF WriteCommand
    <2>2. CASE toClient' # toClient
      <3>1. phase[r] = "write" /\ toClient' = Append(toClient, r) /\ Goto(r, "sent")
        BY <1>4, <2>2, Zenon DEF WriteCommand
      <3>2. toClient \in Seq(Requests) /\ \A i \in 1..Len(toClient) : toClient[i] # r
        BY <3>1 DEF TypeOK, InTransit
      <3>3. \A i, j \in 1..Len(toClient') : toClient'[i] = toClient'[j] => i = j
        BY <3>1, <3>2, TransitKept DEF InTransit
      <3>4. \A i \in 1..Len(toClient') : phase'[toClient'[i]] = "sent"
        BY <3>1, <3>2 DEF TypeOK, InTransit, Goto
      <3> QED BY <3>3, <3>4 DEF InTransit
    <2> QED BY <2>1, <2>2
  <1>5. CASE ReadCommand
    <2>1. /\ toClient # <<>> /\ toClient \in Seq(Requests)
          /\ toClient' = Tail(toClient) /\ Goto(Head(toClient), "received")
      BY <1>5 DEF ReadCommand, TypeOK
    <2>2. \A i, j \in 1..Len(toClient') : toClient'[i] = toClient'[j] => i = j
      BY <2>1, TransitKept DEF InTransit
    <2>3. \A i \in 1..Len(toClient') :
            toClient'[i] # Head(toClient) /\ \E j \in 1..Len(toClient) : toClient'[i] = toClient[j]
      BY <2>1, TransitKept DEF InTransit
    <2>4. \A i \in 1..Len(toClient') : phase'[toClient'[i]] = "sent"
      BY <2>1, <2>3 DEF TypeOK, InTransit, Goto
    <2> QED BY <2>2, <2>4 DEF InTransit
  <1>6. CASE BreakLink
    BY <1>6 DEF BreakLink, InTransit
  <1>7. CASE DeleteServer
    <2>1. toClient \in Seq(Requests) /\ toClient' = toClient /\ GotoAll(InHandler, "freed")
      BY <1>7 DEF DeleteServer, wire, TypeOK
    <2> QED BY <2>1 DEF InTransit, GotoAll, InHandler
  <1>8. CASE Failure
    BY <1>1, <1>8 DEF Failure, UseFreedServer, KillOwnGroup, BrokenPipe, Fail, wire
  <1>9. CASE ReaderStep /\ ~ReadCommand
    BY <1>1, <1>9 DEF ReaderStep, CloseSocket, Dial, JoinRefused, Join, ReadArgument,
       RepeatStatus, StoreRepeated, wire
  <1>10. CASE LauncherStep
    BY <1>1, <1>10 DEF LauncherStep, Tell, Record, Fork, Wait, Sleep, Wake, Relaunch,
       unrelated, wire
  <1>11. CASE ReadStatus \/ Misread \/ GameEnds \/ UNCHANGED vars
    BY <1>1, <1>11 DEF ReadStatus, Misread, GameEnds, vars, wire
  <1> QED
    BY <1>2, <1>3, <1>4, <1>5, <1>6, <1>7, <1>8, <1>9, <1>10, <1>11 DEF Next, Step

\* A request that has acted on the client stays so.
LEMMA DoneStays ==
  ASSUME TypeOK, InTransit, [Next]_vars
  PROVE  /\ type' = type
         /\ \A q \in Requests :
              /\ phase[q] = "done" => phase'[q] = "done"
              /\ phase[q] = "flagged" => phase'[q] \in {"flagged", "done"}
  <1>1. type' = type
    BY DEF Next, vars
  <1> DEFINE Stays == \A q \in Requests :
               /\ phase[q] = "done" => phase'[q] = "done"
               /\ phase[q] = "flagged" => phase'[q] \in {"flagged", "done"}
  <1>2. SUFFICES Stays
    BY <1>1
  <1> USE DEF TypeOK, Goto
  <1>3. CASE UNCHANGED phase
    BY <1>3
  <1>4. ASSUME NEW r \in Requests, HandlerStep(r) PROVE Stays
    BY <1>4 DEF HandlerStep, Ask, CheckStatus, CheckStoped, MarkStopping, WriteCommand
  <1>5. ASSUME NEW r \in Requests, CommandStep(r) PROVE Stays
    BY <1>5 DEF CommandStep, ForceShutdown, SetFlag, SendStop
  <1>6. CASE BreakLink
    BY <1>6 DEF BreakLink, GotoAll
  <1>7. CASE DeleteServer
    BY <1>7 DEF DeleteServer, GotoAll, InHandler
  <1>8. CASE ReadCommand
    <2>1. Head(toClient) \in Requests /\ phase[Head(toClient)] = "sent"
      BY <1>8, TakenType DEF ReadCommand, InTransit
    <2> QED BY <1>8, <2>1 DEF ReadCommand
  <1>9. CASE Failure
    BY <1>3, <1>9 DEF Failure, UseFreedServer, KillOwnGroup, BrokenPipe, Fail
  <1>10. CASE ReaderStep /\ ~ReadCommand
    BY <1>3, <1>10 DEF ReaderStep, CloseSocket, Dial, JoinRefused, Join, ReadArgument,
       RepeatStatus, StoreRepeated
  <1>11. CASE LauncherStep
    BY <1>3, <1>11 DEF LauncherStep, Tell, Record, Fork, Wait, Sleep, Wake, Relaunch,
       unrelated
  <1>12. CASE ReadStatus \/ Misread \/ GameEnds \/ UNCHANGED vars
    BY <1>3, <1>12 DEF ReadStatus, Misread, GameEnds, vars
  <1> QED
    BY <1>4, <1>5, <1>6, <1>7, <1>8, <1>9, <1>10, <1>11, <1>12 DEF Next, Step

\* So the payments are never taken back,
LEMMA PaymentsKept ==
  ASSUME TypeOK, InTransit, [Next]_vars
  PROVE  /\ Launched \subseteq Launched' /\ Suspended \subseteq Suspended'
         /\ Cardinality(Launched) \in Nat /\ Cardinality(Launched') \in Nat
         /\ Cardinality(Suspended) \in Nat /\ Cardinality(Suspended') \in Nat
         /\ Cardinality(Launched) <= Cardinality(Launched')
         /\ Cardinality(Suspended) <= Cardinality(Suspended')
  <1>1. Launched \subseteq Launched' /\ Suspended \subseteq Suspended'
    BY DoneStays DEF Launched, Suspended, Of
  <1>2. /\ IsFiniteSet(Launched) /\ IsFiniteSet(Launched')
        /\ IsFiniteSet(Suspended) /\ IsFiniteSet(Suspended')
    BY StatusAssumption, FS_Subset DEF Launched, Suspended, Of
  <1> QED BY <1>1, <1>2, FS_Subset, FS_CardinalityType

\* and a request that sets a flag pays once more.
LEMMA PaidAgain ==
  ASSUME TypeOK, NEW r \in Requests, SetFlag(r), type' = type
  PROVE  /\ type[r] = "launch" => Cardinality(Launched') = Cardinality(Launched) + 1
         /\ type[r] = "suspend" => Cardinality(Suspended') = Cardinality(Suspended) + 1
  <1>1. IsFiniteSet(Launched) /\ IsFiniteSet(Suspended)
    BY StatusAssumption, FS_Subset DEF Launched, Suspended, Of
  <1>2. r \notin Launched /\ r \notin Suspended
    BY DEF SetFlag, Launched, Suspended, Of
  <1>3. type[r] = "launch" => Launched' = Launched \cup {r}
    BY DEF SetFlag, Launched, Of, TypeOK, Goto
  <1>4. type[r] = "suspend" => Suspended' = Suspended \cup {r}
    BY DEF SetFlag, Suspended, Of, TypeOK, Goto
  <1> QED BY <1>1, <1>2, <1>3, <1>4, FS_AddElement

\* Both balances, for a step that neither sets nor spends a flag of theirs.
LEMMA BalanceKept ==
  ASSUME PaidInv, [Next]_vars, UNCHANGED <<sleeps, wakes>>,
         serAttr'["launch"] = serAttr["launch"], serAttr'["suspend"] = serAttr["suspend"]
  PROVE  WakesPaid' /\ SuspensionsPaid'
  <1>1. wakes \in Nat /\ sleeps \in Nat
    BY DEF PaidInv, TypeOK
  <1> QED
    BY <1>1, PaymentsKept DEF PaidInv, WakesPaid, SuspensionsPaid, Launched, Suspended

\* What is left of a balance without the flag.
LEMMA Unflagged ==
  ASSUME PaidInv, [Next]_vars
  PROVE  wakes <= Cardinality(Launched) /\ sleeps <= Cardinality(Suspended)
  <1>1. wakes \in Nat /\ sleeps \in Nat
    BY DEF PaidInv, TypeOK
  <1> QED
    BY <1>1, PaymentsKept DEF PaidInv, WakesPaid, SuspensionsPaid, Launched, Suspended

\* Every step keeps what is covered by commands.
LEMMA BalanceStep == ASSUME PaidInv, [Next]_vars PROVE WakesPaid' /\ SuspensionsPaid'
  <1> DEFINE Balanced == WakesPaid' /\ SuspensionsPaid'
  <1>1. /\ wakes \in Nat /\ sleeps \in Nat /\ serAttr \in [Flags -> BOOLEAN]
        /\ type \in [Requests -> Types] /\ type' = type
    BY DoneStays DEF PaidInv, TypeOK
  <1>2. CASE UNCHANGED <<serAttr, sleeps, wakes>>
    BY <1>2, BalanceKept
  <1>3. ASSUME NEW r \in Requests, SetFlag(r) PROVE Balanced
    <2>1. /\ serAttr' = [serAttr EXCEPT ![type[r]] = TRUE] /\ type[r] \in Flags
          /\ UNCHANGED <<sleeps, wakes>>
      BY <1>3 DEF SetFlag, starter, count
    <2>5. UNCHANGED <<sleeps, wakes>> /\ wakes \in Nat /\ sleeps \in Nat
      BY <1>1, <2>1
    <2>2. CASE type[r] = "reboot"
      BY <1>1, <2>1, <2>2, BalanceKept DEF Flags
    <2>3. CASE type[r] = "launch"
      <3>1. Cardinality(Launched') = Cardinality(Launched) + 1
        BY <1>1, <1>3, <2>3, PaidAgain DEF PaidInv
      <3>2. serAttr'["suspend"] = serAttr["suspend"]
        BY <1>1, <2>1, <2>3 DEF Flags
      <3>3. wakes + 1 <= Cardinality(Launched')
        <4>1. wakes \in Nat /\ Cardinality(Launched) \in Nat /\ wakes <= Cardinality(Launched)
          BY <1>1, PaymentsKept, Unflagged DEF PaidInv
        <4> QED BY <3>1, <4>1
      <3>4. WakesPaid'
        BY <2>5, <3>3, PaymentsKept DEF PaidInv, WakesPaid, Launched
      <3>5. SuspensionsPaid'
        BY <2>5, <3>2, PaymentsKept DEF PaidInv, SuspensionsPaid, Suspended
      <3> QED BY <3>4, <3>5
    <2>4. CASE type[r] = "suspend"
      <3>1. Cardinality(Suspended') = Cardinality(Suspended) + 1
        BY <1>1, <1>3, <2>4, PaidAgain DEF PaidInv
      <3>2. serAttr'["launch"] = serAttr["launch"]
        BY <1>1, <2>1, <2>4 DEF Flags
      <3>3. sleeps + 1 <= Cardinality(Suspended')
        <4>1. sleeps \in Nat /\ Cardinality(Suspended) \in Nat /\ sleeps <= Cardinality(Suspended)
          BY <1>1, PaymentsKept, Unflagged DEF PaidInv
        <4> QED BY <3>1, <4>1
      <3>4. SuspensionsPaid'
        BY <2>5, <3>3, PaymentsKept DEF PaidInv, SuspensionsPaid, Suspended
      <3>5. WakesPaid'
        BY <2>5, <3>2, PaymentsKept DEF PaidInv, WakesPaid, Launched
      <3> QED BY <3>4, <3>5
    <2> QED BY <2>1, <2>2, <2>3, <2>4 DEF Flags
  <1>4. CASE Sleep
    <2>1. /\ serAttr["suspend"] /\ ~serAttr'["suspend"]
          /\ serAttr'["launch"] = serAttr["launch"]
          /\ sleeps' = sleeps + 1 /\ wakes' = wakes
      BY <1>1, <1>4 DEF Sleep, Spent, Flags, PaidInv, FlagKept
    <2> QED
      BY <1>1, <2>1, PaymentsKept
      DEF PaidInv, WakesPaid, SuspensionsPaid, Launched, Suspended
  <1>5. CASE Wake
    <2>1. /\ serAttr["launch"] /\ ~serAttr'["launch"]
          /\ serAttr'["suspend"] = serAttr["suspend"]
          /\ wakes' = wakes + 1 /\ sleeps' = sleeps
      BY <1>1, <1>5 DEF Wake, Spent, Flags
    <2> QED
      BY <1>1, <2>1, PaymentsKept
      DEF PaidInv, WakesPaid, SuspensionsPaid, Launched, Suspended
  <1>6. CASE Relaunch
    <2>1. /\ serAttr'["launch"] = serAttr["launch"] /\ serAttr'["suspend"] = serAttr["suspend"]
          /\ UNCHANGED <<sleeps, wakes>>
      BY <1>1, <1>6 DEF Relaunch, Spent, Flags, count
    <2> QED BY <2>1, BalanceKept
  <1>7. ASSUME NEW r \in Requests, HandlerStep(r) PROVE Balanced
    BY <1>2, <1>7 DEF HandlerStep, Ask, CheckStatus, CheckStoped, MarkStopping,
       WriteCommand, client, starter, count
  <1>8. ASSUME NEW r \in Requests, ForceShutdown(r) \/ SendStop(r) PROVE Balanced
    BY <1>2, <1>8 DEF ForceShutdown, SendStop, starter, count
  <1>9. CASE ReaderStep
    BY <1>2, <1>9 DEF ReaderStep, ReadCommand, CloseSocket, Dial, JoinRefused, Join,
       ReadArgument, RepeatStatus, StoreRepeated, inClient, client, starter, count
  <1>10. CASE Tell \/ Record \/ Fork \/ Wait
    BY <1>2, <1>10 DEF Tell, Record, Fork, Wait, count
  <1>11. CASE ReadStatus \/ Misread \/ BreakLink \/ DeleteServer \/ GameEnds \/ UNCHANGED vars
    BY <1>2, <1>11 DEF ReadStatus, Misread, BreakLink, DeleteServer, GameEnds, vars, client,
       starter, count
  <1>12. CASE Failure
    BY <1>2, <1>12 DEF Failure, UseFreedServer, KillOwnGroup, BrokenPipe, Fail, client,
       starter, count
  <1> QED
    BY <1>3, <1>4, <1>5, <1>6, <1>7, <1>8, <1>9, <1>10, <1>11, <1>12
    DEF Next, Step, CommandStep, LauncherStep

\* The flag is looked at when the game has gone, and spent when the launcher sleeps.
LEMMA FlagStep == ASSUME TypeOK, FlagKept, [Next]_vars PROVE FlagKept'
  <1>1. serAttr \in [Flags -> BOOLEAN]
    BY DEF TypeOK
  <1>2. CASE UNCHANGED <<launcher, telling, serAttr>>
    BY <1>2 DEF FlagKept
  <1>3. ASSUME NEW r \in Requests, SetFlag(r) PROVE FlagKept'
    <2>1. (serAttr["suspend"] => serAttr'["suspend"]) /\ UNCHANGED <<launcher, telling>>
      BY <1>1, <1>3 DEF SetFlag, starter, Flags
    <2> QED BY <2>1 DEF FlagKept
  <1>4. CASE Tell \/ Record \/ Fork
    BY <1>4 DEF FlagKept, Tell, Record, Fork, TypeOK, Reported
  <1>5. CASE Wait \/ Sleep \/ Wake \/ Relaunch
    BY <1>1, <1>5 DEF FlagKept, Wait, Sleep, Wake, Relaunch, Announcing
  <1>6. ASSUME NEW r \in Requests, HandlerStep(r) PROVE FlagKept'
    BY <1>2, <1>6 DEF HandlerStep, Ask, CheckStatus, CheckStoped, MarkStopping,
       WriteCommand, client, starter
  <1>7. ASSUME NEW r \in Requests, ForceShutdown(r) \/ SendStop(r) PROVE FlagKept'
    BY <1>2, <1>7 DEF ForceShutdown, SendStop, starter
  <1>8. CASE ReaderStep
    BY <1>2, <1>8 DEF ReaderStep, ReadCommand, CloseSocket, Dial, JoinRefused, Join,
       ReadArgument, RepeatStatus, StoreRepeated, inClient, client, starter
  <1>9. CASE ReadStatus \/ Misread \/ BreakLink \/ DeleteServer \/ GameEnds \/ UNCHANGED vars
    BY <1>2, <1>9 DEF ReadStatus, Misread, BreakLink, DeleteServer, GameEnds, vars, client, starter
  <1>10. CASE Failure
    BY <1>2, <1>10 DEF Failure, UseFreedServer, KillOwnGroup, BrokenPipe, Fail, client,
       starter
  <1> QED
    BY <1>3, <1>4, <1>5, <1>6, <1>7, <1>8, <1>9, <1>10
    DEF Next, Step, CommandStep, LauncherStep

\* At the start nothing is under way, no flag is set and nobody has slept.
LEMMA InitPaid == Init => PaidInv
  <1> SUFFICES ASSUME Init PROVE PaidInv OBVIOUS
  <1>1. InTransit
    BY DEF Init, InTransit
  <1>2. FlagKept
    BY DEF Init, FlagKept
  <1>3. Of("launch", {"done"}) = {} /\ Of("suspend", {"flagged", "done"}) = {}
    BY DEF Init, Of
  <1>4. WakesPaid /\ SuspensionsPaid
    <2>1. sleeps = 0 /\ wakes = 0 /\ ~serAttr["launch"] /\ ~serAttr["suspend"]
      BY DEF Init, Flags
    <2> QED BY <1>3, <2>1, FS_EmptySet DEF WakesPaid, SuspensionsPaid
  <1> QED BY <1>1, <1>2, <1>4, InitType DEF PaidInv

\* Every step keeps the invariant of the flags.
LEMMA PaidStep == ASSUME PaidInv, [Next]_vars PROVE PaidInv'
  BY TypeStep, TransitStep, FlagStep, BalanceStep DEF PaidInv

\* No more returns from a suspension than launch commands carried out.
THEOREM WakesArePaid == Spec => []WakesPaid
  <1>1. PaidInv => WakesPaid BY DEF PaidInv
  <1> QED BY InitPaid, PaidStep, <1>1, PTL DEF Spec

\* No more suspensions than suspend commands carried out.
THEOREM SuspensionsArePaid == Spec => []SuspensionsPaid
  <1>1. PaidInv => SuspensionsPaid BY DEF PaidInv
  <1> QED BY InitPaid, PaidStep, <1>1, PTL DEF Spec

-----------------------------------------------------------------------------
(* A suspend is held until the first suspension: the flag is set as long as the    *)
(* launcher has not slept, and a line "stop" is in the pipe unless the game that   *)
(* read it is gone and the launcher is on its way to the suspension.               *)

Sent  == Of("suspend", {"done"}) # {}
Asked == Of("suspend", {"flagged", "done"}) # {}

GoingToSleep ==
  \/ launcher \in {"wait", "suspended"}
  \/ launcher \in {"tell", "record"} /\ telling = "SUSPENDED"

FlagHeld == Asked /\ sleeps = 0 => serAttr["suspend"]
StopHeld == Sent /\ sleeps = 0 /\ pipe = 0 => child = "gone" /\ GoingToSleep
OneGame  == child = "up" => launcher = "wait"

HeldInv == TypeOK /\ InTransit /\ FlagHeld /\ StopHeld /\ OneGame

\* What a step leaves alone that touches neither the game nor the launcher.
Apart ==
  /\ UNCHANGED <<launcher, telling, sleeps, child, pipe>>
  /\ serAttr'["suspend"] = serAttr["suspend"]
  /\ (Sent' => Sent) /\ (Asked' => Asked)

\* A step that has nothing to do with a suspension keeps it.
LEMMA ApartHolds == ASSUME HeldInv, Apart PROVE FlagHeld' /\ StopHeld' /\ OneGame'
  BY DEF HeldInv, Apart, FlagHeld, StopHeld, OneGame, GoingToSleep

\* Which commands are carried out depends on the requests only.
LEMMA SameRequests ==
  ASSUME UNCHANGED <<phase, type>>
  PROVE  Sent' = Sent /\ Asked' = Asked
  BY DEF Sent, Asked, Of

\* Only the frames of other requests and of other kinds of commands move.
LEMMA StepsApart ==
  ASSUME TypeOK, InTransit, [Next]_vars,
         ~LauncherStep, ~GameEnds, \A r \in Requests : ~CommandStep(r)
  PROVE  Apart
  <1>1. type' = type
    BY DoneStays
  <1>2. UNCHANGED <<launcher, telling, sleeps, child, pipe, serAttr>>
    <2>1. ASSUME NEW r \in Requests, HandlerStep(r)
          PROVE UNCHANGED <<launcher, telling, sleeps, child, pipe, serAttr>>
      BY <2>1 DEF HandlerStep, Ask, CheckStatus, CheckStoped, MarkStopping, WriteCommand,
         client, starter, count, game
    <2>2. CASE ReaderStep
      BY <2>2 DEF ReaderStep, ReadCommand, CloseSocket, Dial, JoinRefused, Join,
         ReadArgument, RepeatStatus, StoreRepeated, inClient, client, starter, count, game
    <2>3. CASE ReadStatus \/ Misread \/ BreakLink \/ DeleteServer \/ UNCHANGED vars
      BY <2>3 DEF ReadStatus, Misread, BreakLink, DeleteServer, vars, client, starter, count, game
    <2>4. CASE Failure
      BY <2>4 DEF Failure, UseFreedServer, KillOwnGroup, BrokenPipe, Fail, client, starter,
         count, game
    <2> QED BY <2>1, <2>2, <2>3, <2>4 DEF Next, Step
  <1> DEFINE Same == \A q \in Requests :
               phase'[q] \in {"flagged", "done"} => phase'[q] = phase[q]
  <1>3. Same
    <2> USE DEF TypeOK, Goto
    <2>1. CASE UNCHANGED phase
      BY <2>1
    <2>2. ASSUME NEW r \in Requests, HandlerStep(r) PROVE Same
      BY <2>2 DEF HandlerStep, Ask, CheckStatus, CheckStoped, MarkStopping, WriteCommand
    <2>3. CASE BreakLink
      BY <2>3 DEF BreakLink, GotoAll
    <2>4. CASE DeleteServer
      BY <2>4 DEF DeleteServer, GotoAll
    <2>5. CASE ReadCommand
      BY <2>5 DEF ReadCommand
    <2>6. CASE Failure
      BY <2>1, <2>6 DEF Failure, UseFreedServer, KillOwnGroup, BrokenPipe, Fail
    <2>7. CASE ReaderStep /\ ~ReadCommand
      BY <2>1, <2>7 DEF ReaderStep, CloseSocket, Dial, JoinRefused, Join, ReadArgument,
         RepeatStatus, StoreRepeated
    <2>8. CASE ReadStatus \/ Misread \/ UNCHANGED vars
      BY <2>1, <2>8 DEF ReadStatus, Misread, vars
    <2> QED BY <2>2, <2>3, <2>4, <2>5, <2>6, <2>7, <2>8 DEF Next, Step
  <1>4. (Sent' => Sent) /\ (Asked' => Asked)
    BY <1>1, <1>3 DEF Sent, Asked, Of
  <1> QED BY <1>2, <1>4 DEF Apart

\* Every step keeps what holds a suspension.
LEMMA HeldStep == ASSUME HeldInv, [Next]_vars PROVE FlagHeld' /\ StopHeld' /\ OneGame'
  <1> DEFINE Held == FlagHeld' /\ StopHeld' /\ OneGame'
  <1>1. TypeOK /\ InTransit /\ type' = type /\ pipe \in Nat /\ sleeps \in Nat
    BY DoneStays DEF HeldInv, TypeOK
  <1>2. serAttr \in [Flags -> BOOLEAN] /\ phase \in [Requests -> Phases]
    BY <1>1 DEF TypeOK
  <1>3. ASSUME NEW r \in Requests, ForceShutdown(r) PROVE Held
    <2>1. (Sent' => Sent) /\ (Asked' => Asked)
      BY <1>1, <1>2, <1>3 DEF ForceShutdown, Goto, Sent, Asked, Of
    <2>2. child' = "gone" /\ UNCHANGED <<launcher, telling, sleeps, pipe, serAttr>>
      BY <1>3 DEF ForceShutdown, starter, count
    <2> QED BY <2>1, <2>2 DEF HeldInv, FlagHeld, StopHeld, OneGame, GoingToSleep
  <1>4. ASSUME NEW r \in Requests, SetFlag(r) PROVE Held
    <2>1. UNCHANGED <<launcher, telling, sleeps, pipe, child>>
      BY <1>4 DEF SetFlag, starter, count, game
    <2>2. Sent' => Sent
      BY <1>1, <1>2, <1>4 DEF SetFlag, Goto, Sent, Of
    <2>3. CASE type[r] = "suspend"
      <3>1. serAttr'["suspend"]
        BY <1>2, <1>4, <2>3 DEF SetFlag, Flags
      <3> QED BY <2>1, <2>2, <3>1 DEF HeldInv, FlagHeld, StopHeld, OneGame, GoingToSleep
    <2>4. CASE type[r] # "suspend"
      <3>1. serAttr'["suspend"] = serAttr["suspend"]
        BY <1>2, <1>4, <2>4 DEF SetFlag, Flags
      <3>2. Asked' => Asked
        BY <1>1, <1>2, <1>4, <2>4 DEF SetFlag, Goto, Asked, Of
      <3> QED BY <2>1, <2>2, <3>1, <3>2, ApartHolds DEF Apart
    <2> QED BY <2>3, <2>4
  <1>5. ASSUME NEW r \in Requests, SendStop(r) PROVE Held
    <2>1. /\ UNCHANGED <<launcher, telling, sleeps, child, serAttr>>
          /\ pipe' = pipe + 1
      BY <1>5 DEF SendStop, starter, count
    <2>2. Asked' => Asked
      BY <1>1, <1>2, <1>5 DEF SendStop, Goto, Asked, Of
    <2>3. pipe' # 0
      BY <1>1, <2>1
    <2> QED BY <2>1, <2>2, <2>3 DEF HeldInv, FlagHeld, StopHeld, OneGame
  <1>6. CASE GameEnds
    <2>1. Sent' = Sent /\ Asked' = Asked
      BY <1>1, <1>6, SameRequests DEF GameEnds
    <2>2. /\ child = "up" /\ child' = "gone"
          /\ UNCHANGED <<launcher, telling, sleeps, serAttr>>
      BY <1>6 DEF GameEnds, starter, count
    <2> QED BY <2>1, <2>2 DEF HeldInv, FlagHeld, StopHeld, OneGame, GoingToSleep
  <1>7. CASE LauncherStep
    <2>1. Sent' = Sent /\ Asked' = Asked /\ UNCHANGED pipe
      BY <1>1, <1>7, SameRequests DEF LauncherStep, Tell, Record, Fork, Wait, Sleep, Wake,
         Relaunch, unrelated, game
    <2>2. CASE Tell \/ Record \/ Fork
      BY <2>1, <2>2 DEF HeldInv, FlagHeld, StopHeld, OneGame, GoingToSleep, Tell, Record,
         Fork, count, game
    <2>3. CASE Wait
      <3>1. /\ UNCHANGED <<sleeps, child, serAttr>> /\ child = "gone" /\ launcher' = "tell"
            /\ serAttr["suspend"] => telling' = "SUSPENDED"
        BY <2>3 DEF Wait, Announcing, count, game
      <3>2. Sent => Asked
        BY DEF Sent, Asked, Of
      <3> QED BY <2>1, <3>1, <3>2 DEF HeldInv, FlagHeld, StopHeld, OneGame, GoingToSleep
    <2>4. CASE Sleep
      <3>1. sleeps' # 0 /\ UNCHANGED child /\ launcher = "suspended"
        BY <1>1, <2>4 DEF Sleep, game
      <3> QED BY <3>1 DEF HeldInv, FlagHeld, StopHeld, OneGame
    <2>5. CASE Wake \/ Relaunch
      <3>1. serAttr'["suspend"] = serAttr["suspend"]
        BY <1>2, <2>5 DEF Wake, Relaunch, Spent, Flags
      <3>2. UNCHANGED <<sleeps, child>> /\ launcher \in {"asleep", "stoped", "pause"}
        BY <2>5 DEF Wake, Relaunch, count, game
      <3> QED BY <2>1, <3>1, <3>2 DEF HeldInv, FlagHeld, StopHeld, OneGame, GoingToSleep
    <2> QED BY <1>7, <2>2, <2>3, <2>4, <2>5 DEF LauncherStep
  <1>8. CASE ~LauncherStep /\ ~GameEnds /\ \A r \in Requests : ~CommandStep(r)
    BY <1>1, <1>8, StepsApart, ApartHolds
  <1> QED BY <1>3, <1>4, <1>5, <1>6, <1>7, <1>8 DEF CommandStep

\* At the start nothing was suspended.
LEMMA InitHeld == Init => HeldInv
  <1> SUFFICES ASSUME Init PROVE HeldInv OBVIOUS
  <1>1. InTransit
    BY DEF Init, InTransit
  <1>2. ~Sent /\ ~Asked /\ child = "none"
    BY DEF Init, Sent, Asked, Of
  <1> QED BY <1>1, <1>2, InitType DEF HeldInv, FlagHeld, StopHeld, OneGame

\* Until the first suspension no game outlives a suspend: the stop is before it in
\* the pipe, and the flag is set.
THEOREM SuspendIsHeld == Spec => []SuspendHeld
  <1>1. ASSUME HeldInv PROVE SuspendHeld
    <2>1. pipe \in Nat
      BY <1>1 DEF HeldInv, TypeOK
    <2>2. Sent => Asked
      BY DEF Sent, Asked, Of
    <2> QED BY <1>1, <2>1, <2>2 DEF HeldInv, FlagHeld, StopHeld, SuspendHeld, Sent
  <1>2. HeldInv /\ [Next]_vars => HeldInv'
    BY TypeStep, TransitStep, HeldStep DEF HeldInv
  <1> QED BY InitHeld, <1>1, <1>2, PTL DEF Spec

================================================================================
