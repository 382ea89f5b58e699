-------------------------- MODULE TaskSessionsProofs --------------------------
(* Theorems about TaskSessions, for any requests, kinds, ids and limit. *)
EXTENDS TaskSessions, FiniteSetTheorems, TLAPS

\* A request that registers, asks, polls, timed out or got its socket has drawn an id, and
\* so has one whose connection exists: createTask keeps it in a local.
IdDrawn ==
  \A r \in Requests :
    phase[r] \in {"register", "ask", "poll", "expire", "use"} \/ conn[r] # "none"
      => id[r] \in TaskIDs

\* The handler leaves only after createTask or the exchange has ended.
EndKnown ==
  \A r \in Requests :
    phase[r] \in {"leave", "last"} => end[r] \in {"refused", "failed", "done", "broken"}

TypeInv == TypeOK /\ IdDrawn /\ EndKnown

\* redTaskCount leaves the counter a natural number.
LEMMA LowerType == ASSUME cur \in Nat PROVE Lower \in Nat
  BY DEF Lower

\* The handlers end an exchange well or badly.
LEMMA OutcomesType ==
  ASSUME NEW k, NEW p, NEW e \in Outcomes(k, p)
  PROVE  e \in {"done", "broken"}
  BY DEF Outcomes

\* At the start every variable has its type, and nobody has drawn or ended.
LEMMA InitType == Init => TypeInv
  BY TaskAssumption DEF Init, TypeInv, TypeOK, IdDrawn, EndKnown, Phases, Creating, Endless,
     ConnPhases, Ends

\* Every action keeps the types; the ids that index the tables are drawn ones.
LEMMA TypeStep == ASSUME TypeInv, [Next]_vars PROVE TypeInv'
  <1> USE TaskAssumption DEF TypeInv, TypeOK, IdDrawn, EndKnown, Phases, Creating, Endless,
        ConnPhases, Ends, requestVars, connVars, tables, Running, Goto
  <1>1. ASSUME NEW r \in Requests, Start(r) PROVE TypeInv'
    BY <1>1 DEF Start
  <1>2. ASSUME NEW r \in Requests, IncTaskCount(r) PROVE TypeInv'
    BY <1>2 DEF IncTaskCount, Give
  <1>3. ASSUME NEW r \in Requests, TooLong(r) PROVE TypeInv'
    BY <1>3, LowerType DEF TooLong, Give
  <1>4. ASSUME NEW r \in Requests, DrawID(r) PROVE TypeInv'
    BY <1>4 DEF DrawID
  <1>5. ASSUME NEW r \in Requests, RegisterTask(r) PROVE TypeInv'
    BY <1>5 DEF RegisterTask
  <1>6. ASSUME NEW r \in Requests, AskGameServer(r) PROVE TypeInv'
    BY <1>6 DEF AskGameServer
  <1>7. ASSUME NEW r \in Requests, PollHit(r) PROVE TypeInv'
    BY <1>7 DEF PollHit, Registered
  <1>8. ASSUME NEW r \in Requests, PollTimeout(r) PROVE TypeInv'
    BY <1>8 DEF PollTimeout
  <1>9. ASSUME NEW r \in Requests, Expire(r) PROVE TypeInv'
    BY <1>9, LowerType DEF Expire, Give
  <1>10. ASSUME NEW r \in Requests, Use(r) PROVE TypeInv'
    <2>1. PICK e \in {"done", "broken"} : Give(r, e)
      BY <1>10, OutcomesType DEF Use
    <2> QED BY <1>10, <2>1 DEF Use, Give
  <1>11. ASSUME NEW r \in Requests, Spin(r) \/ AskStalls(r) \/ UseStalls(r) PROVE TypeInv'
    BY <1>11 DEF Spin, AskStalls, UseStalls
  <1>12. ASSUME NEW r \in Requests, ReleaseSlot(r) PROVE TypeInv'
    <2>1. cur' \in {cur, Lower}
      BY <1>12 DEF ReleaseSlot
    <2> QED BY <1>12, <2>1, LowerType DEF ReleaseSlot
  <1>13. ASSUME NEW r \in Requests, UnlockTask(r) PROVE TypeInv'
    BY <1>13 DEF UnlockTask
  <1>14. ASSUME NEW c \in Requests, Connect(c) PROVE TypeInv'
    BY <1>14 DEF Connect
  <1>15. ASSUME NEW c \in Requests, JoinRefused(c) PROVE TypeInv'
    BY <1>15 DEF JoinRefused
  <1>16. ASSUME NEW c \in Requests, Join(c) PROVE TypeInv'
    BY <1>16 DEF Join, Registered
  <1>17. ASSUME NEW c \in Requests, Unpark(c) PROVE TypeInv'
    BY <1>17 DEF Unpark
  <1>18. ASSUME NEW c \in Requests, ForgetMutex(c) PROVE TypeInv'
    BY <1>18 DEF ForgetMutex
  <1>19. ASSUME NEW c \in Requests, PeerDone(c) PROVE TypeInv'
    BY <1>19 DEF PeerDone
  <1>20. ASSUME NEW c \in Requests, PeerGone(c) PROVE TypeInv'
    BY <1>20 DEF PeerGone
  <1>21. CASE ServerReplaced
    BY <1>21 DEF ServerReplaced
  <1>22. CASE Restart
    BY <1>22 DEF Restart
  <1>23. CASE UNCHANGED vars
    BY <1>23 DEF vars
  <1> QED
    BY <1>1, <1>2, <1>3, <1>4, <1>5, <1>6, <1>7, <1>8, <1>9, <1>10, <1>11, <1>12,
       <1>13, <1>14, <1>15, <1>16, <1>17, <1>18, <1>19, <1>20, <1>21, <1>22, <1>23
    DEF Next, Handler, Connection

\* Every variable keeps the type of what it stands for.
THEOREM TypeCorrect == Spec => []TypeOK
  <1>1. TypeInv => TypeOK BY DEF TypeInv
  <1> QED BY InitType, TypeStep, <1>1, PTL DEF Spec

-----------------------------------------------------------------------------
(* The counter of task sessions. *)

\* Only requests for ls and upload have been made.
Balanced == \A r \in Requests : kind[r] \in {"none", "ls", "upload"}

\* A request that has not come yet has no kind.
IdleKind == \A r \in Requests : phase[r] = "idle" => kind[r] = "none"

SlotInv == TypeInv /\ IdleKind /\ SlotsExact

\* When a request without a slot gets one, there is one holder more.
LEMMA OneMore ==
  ASSUME NEW r \in Requests, r \notin Holders, Holders' = Holders \cup {r},
         cur = Cardinality(Holders), cur < MaxTasks, cur' = cur + 1
  PROVE  cur' = Cardinality(Holders') /\ cur' <= MaxTasks
  <1>1. IsFiniteSet(Holders)
    BY TaskAssumption, FS_Subset DEF Holders
  <1>2. Cardinality(Holders') = Cardinality(Holders) + 1
    BY <1>1, FS_AddElement
  <1>3. Cardinality(Holders) \in Nat
    BY <1>1, FS_CardinalityType
  <1> QED BY <1>2, <1>3, TaskAssumption

\* When redTaskCount takes the slot of a holder, there is one holder less.
LEMMA OneLess ==
  ASSUME NEW r \in Holders, Holders' = Holders \ {r},
         cur = Cardinality(Holders), cur <= MaxTasks, cur' = Lower
  PROVE  cur' = Cardinality(Holders') /\ cur' <= MaxTasks
  <1>1. IsFiniteSet(Holders)
    BY TaskAssumption, FS_Subset DEF Holders
  <1>2. Cardinality(Holders') = Cardinality(Holders) - 1
    BY <1>1, FS_RemoveElement
  <1>3. Cardinality(Holders) \in Nat /\ Cardinality(Holders') \in Nat
    BY <1>1, FS_CardinalityType, FS_RemoveElement
  <1> QED BY <1>2, <1>3, TaskAssumption DEF Lower

\* With no change to the request fields that say who has a slot, nor to the
\* counter, nothing changes.
LEMMA SlotFrame ==
  ASSUME SlotsExact, Holders' = Holders, cur' = cur, Balanced
  PROVE  cur' = Cardinality(Holders') /\ cur' <= MaxTasks
  BY DEF SlotsExact, Balanced

\* At the start nobody has a slot.
LEMMA InitSlots == Init => IdleKind /\ SlotsExact
  <1> SUFFICES ASSUME Init PROVE IdleKind /\ SlotsExact OBVIOUS
  <1>1. Holders = {}
    BY DEF Init, Holders, HasSlot, Endless
  <1> QED BY <1>1, FS_EmptySet, TaskAssumption DEF Init, IdleKind, SlotsExact

\* Every action changes the counter and the holders together.
LEMMA SlotStep == ASSUME SlotInv, [Next]_vars PROVE IdleKind' /\ SlotsExact'
  <1> USE DEF requestVars, connVars, tables, Goto
  <1>1. TypeOK /\ EndKnown /\ IdleKind /\ SlotsExact
    BY DEF SlotInv, TypeInv
  <1>2. IdleKind'
    BY <1>1 DEF IdleKind, TypeOK, Next, Handler, Connection, vars, Start, IncTaskCount,
       Give, TooLong, DrawID, RegisterTask, AskGameServer, PollHit, PollTimeout, Expire,
       Use, Spin, AskStalls, UseStalls, ReleaseSlot, UnlockTask, Connect, JoinRefused,
       Join, Unpark,
       ForgetMutex, PeerDone, PeerGone, ServerReplaced, Restart
  <1>3. SUFFICES ASSUME Balanced' PROVE cur' = Cardinality(Holders') /\ cur' <= MaxTasks
    BY <1>2 DEF SlotsExact, Balanced
  <1>4. CASE Restart
    <2>1. Holders' = {}
      BY <1>4 DEF Restart, Holders, HasSlot, Endless
    <2> QED BY <2>1, <1>4, FS_EmptySet, TaskAssumption DEF Restart
  <1>5. SUFFICES ASSUME ~Restart PROVE cur' = Cardinality(Holders') /\ cur' <= MaxTasks
    BY <1>4
  <1>6. Balanced
    BY <1>1, <1>3, <1>5 DEF Balanced, IdleKind, TypeOK, Next, Handler, Connection, vars,
       Start, IncTaskCount, TooLong, DrawID, RegisterTask, AskGameServer, PollHit,
       PollTimeout, Expire, Use, Spin, AskStalls, UseStalls, ReleaseSlot, UnlockTask,
       Connect, JoinRefused,
       Join, Unpark, ForgetMutex, PeerDone, PeerGone, ServerReplaced
  <1>7. cur = Cardinality(Holders) /\ cur <= MaxTasks
    BY <1>1, <1>6 DEF SlotsExact, Balanced
  <1>8. ASSUME NEW r \in Requests, Start(r) \/ DrawID(r) \/ RegisterTask(r)
                 \/ AskGameServer(r) \/ PollHit(r) \/ PollTimeout(r)
                 \/ Spin(r) \/ AskStalls(r) \/ UseStalls(r)
        PROVE  Holders' = Holders /\ cur' = cur
    BY <1>1, <1>6, <1>8 DEF Start, DrawID, RegisterTask, AskGameServer, PollHit,
       PollTimeout, Spin, AskStalls, UseStalls, Balanced, Holders, HasSlot, Endless,
       UnlocksFirst, TypeOK
  <1>9. ASSUME NEW r \in Requests, IncTaskCount(r)
        PROVE  cur' = Cardinality(Holders') /\ cur' <= MaxTasks
    <2>1. CASE cur < MaxTasks /\ cur' = cur + 1 /\ Goto(r, "draw") /\ UNCHANGED end
      <3>1. r \notin Holders /\ Holders' = Holders \cup {r}
        BY <2>1, <1>1, <1>9 DEF IncTaskCount, Holders, HasSlot, Endless, UnlocksFirst,
           TypeOK
      <3> QED BY <2>1, <3>1, <1>7, OneMore
    <2>2. CASE cur >= MaxTasks /\ Give(r, "refused") /\ UNCHANGED cur
      <3>1. Holders' = Holders
        BY <2>2, <1>1, <1>9 DEF IncTaskCount, Give, Holders, HasSlot, Endless,
           UnlocksFirst, TypeOK
      <3> QED BY <2>2, <3>1, <1>7
    <2> QED BY <2>1, <2>2, <1>9 DEF IncTaskCount
  <1>10. ASSUME NEW r \in Requests, TooLong(r) \/ Expire(r)
         PROVE  cur' = Cardinality(Holders') /\ cur' <= MaxTasks
    <2>1. r \in Holders /\ Holders' = Holders \ {r} /\ cur' = Lower
      BY <1>1, <1>10 DEF TooLong, Expire, Give, Holders, HasSlot, Endless, UnlocksFirst,
         TypeOK
    <2> QED BY <2>1, <1>7, OneLess
  <1>11. ASSUME NEW r \in Requests, Use(r)
         PROVE  Holders' = Holders /\ cur' = cur
    <2>1. PICK e \in {"done", "broken"} : Give(r, e)
      BY <1>11, OutcomesType DEF Use
    <2> QED BY <1>1, <1>11, <2>1 DEF Use, Give, Holders, HasSlot, Endless, UnlocksFirst,
        TypeOK
  <1>12. ASSUME NEW r \in Requests, ReleaseSlot(r)
         PROVE  cur' = Cardinality(Holders') /\ cur' <= MaxTasks
    <2>1. kind[r] \in {"none", "ls", "upload"}
      BY <1>6 DEF Balanced
    <2>2. end[r] \in {"refused", "failed", "done", "broken"}
      BY <1>1, <1>12 DEF ReleaseSlot, EndKnown
    <2>3. CASE end[r] \in {"done", "broken"}
      <3>1. Releases(kind[r], end[r]) = {TRUE}
        BY <2>1, <2>3 DEF Releases
      <3>2. cur' = Lower
        BY <3>1, <1>12 DEF ReleaseSlot
      <3>3. r \in Holders /\ Holders' = Holders \ {r}
        BY <2>3, <1>1, <1>12 DEF ReleaseSlot, Holders, HasSlot, Endless, UnlocksFirst,
           TypeOK
      <3> QED BY <3>2, <3>3, <1>7, OneLess
    <2>4. CASE end[r] \in {"refused", "failed"}
      <3>1. Releases(kind[r], end[r]) = {FALSE}
        BY <2>1, <2>4 DEF Releases
      <3>2. cur' = cur
        BY <3>1, <1>12 DEF ReleaseSlot
      <3>3. Holders' = Holders
        BY <2>4, <1>1, <1>12 DEF ReleaseSlot, Holders, HasSlot, Endless, UnlocksFirst,
           TypeOK
      <3> QED BY <3>2, <3>3, <1>7
    <2> QED BY <2>2, <2>3, <2>4
  <1>13. ASSUME NEW r \in Requests, UnlockTask(r)
         PROVE  Holders' = Holders /\ cur' = cur
    BY <1>1, <1>13 DEF UnlockTask, Holders, HasSlot, Endless, UnlocksFirst, TypeOK
  <1>14. ASSUME NEW c \in Requests, Connection(c)
         PROVE  Holders' = Holders /\ cur' = cur
    BY <1>14 DEF Connection, Connect, JoinRefused, Join, Unpark, ForgetMutex, PeerDone,
       PeerGone, Holders, HasSlot, Endless, UnlocksFirst
  <1>15. CASE ServerReplaced \/ UNCHANGED vars
    <2>1. Holders' = Holders /\ cur' = cur
      BY <1>15 DEF ServerReplaced, vars, Holders, HasSlot, Endless, UnlocksFirst
    <2> QED BY <2>1, <1>7
  <1> QED
    BY <1>5, <1>7, <1>8, <1>9, <1>10, <1>11, <1>12, <1>13, <1>14, <1>15
    DEF Next, Handler

\* As long as only ls and upload are asked for, the counter is the number of
\* requests that have a slot and never above max_task_count.
THEOREM SlotsCorrect == Spec => []SlotsExact
  <1>1. Init => SlotInv
    BY InitType, InitSlots DEF SlotInv
  <1>2. SlotInv /\ [Next]_vars => SlotInv'
    BY TypeStep, SlotStep DEF SlotInv
  <1>3. SlotInv => SlotsExact
    BY DEF SlotInv
  <1> QED BY <1>1, <1>2, <1>3, PTL DEF Spec

-----------------------------------------------------------------------------
(* Whose connection and whose mutex. *)

\* What a request has not come to yet: an id, a connection, an end.
Fresh ==
  \A r \in Requests :
    /\ phase[r] \in {"idle", "slot", "draw"} => id[r] = None
    /\ phase[r] \in {"idle", "slot", "draw", "register", "ask"} => conn[r] = "none"
    /\ phase[r] \in Creating \cup Endless \cup {"idle", "use"} => end[r] = "none"
    /\ end[r] = "refused" => conn[r] = "none"

\* A request keeps its mutex locked until its handler's last unlock.
MutexHeld ==
  \A r \in Requests :
    /\ phase[r] \in Creating \cup Endless \cup {"use", "leave"} => mutex[r] = "held"
    /\ phase[r] = "last" /\ ~UnlocksFirst(r) => mutex[r] = "held"
    /\ phase[r] = "idle" => mutex[r] = "none"

PhaseInv == TypeInv /\ Fresh /\ MutexHeld

\* At the start nobody has an id, a connection, an end or a mutex.
LEMMA InitPhase == Init => Fresh /\ MutexHeld
  BY DEF Init, Fresh, MutexHeld, Creating, Endless

\* Every action keeps Fresh and MutexHeld.
LEMMA PhaseStep == ASSUME PhaseInv, [Next]_vars PROVE Fresh' /\ MutexHeld'
  <1> USE TaskAssumption DEF PhaseInv, TypeInv, TypeOK, IdDrawn, EndKnown, Fresh,
        MutexHeld, Phases, Creating, Endless, ConnPhases, Ends, requestVars, connVars,
        tables,
        Goto, UnlocksFirst
  <1>1. ASSUME NEW q \in Requests, Start(q) PROVE Fresh' /\ MutexHeld'
    BY <1>1 DEF Start
  <1>2. ASSUME NEW q \in Requests, IncTaskCount(q) PROVE Fresh' /\ MutexHeld'
    BY <1>2 DEF IncTaskCount, Give
  <1>3. ASSUME NEW q \in Requests, TooLong(q) PROVE Fresh' /\ MutexHeld'
    BY <1>3 DEF TooLong, Give
  <1>4. ASSUME NEW q \in Requests, DrawID(q) PROVE Fresh' /\ MutexHeld'
    BY <1>4 DEF DrawID
  <1>5. ASSUME NEW q \in Requests, RegisterTask(q) PROVE Fresh' /\ MutexHeld'
    BY <1>5 DEF RegisterTask
  <1>6. ASSUME NEW q \in Requests, AskGameServer(q) PROVE Fresh' /\ MutexHeld'
    BY <1>6 DEF AskGameServer
  <1>7. ASSUME NEW q \in Requests, PollHit(q) PROVE Fresh' /\ MutexHeld'
    BY <1>7 DEF PollHit
  <1>8. ASSUME NEW q \in Requests, PollTimeout(q) PROVE Fresh' /\ MutexHeld'
    BY <1>8 DEF PollTimeout
  <1>9. ASSUME NEW q \in Requests, Expire(q) PROVE Fresh' /\ MutexHeld'
    BY <1>9 DEF Expire, Give
  <1>10. ASSUME NEW q \in Requests, Use(q) PROVE Fresh' /\ MutexHeld'
    <2>1. PICK e \in {"done", "broken"} : Give(q, e)
      BY <1>10, OutcomesType DEF Use
    <2> QED BY <1>10, <2>1 DEF Use, Give
  <1>11. ASSUME NEW q \in Requests, Spin(q) \/ AskStalls(q) \/ UseStalls(q)
        PROVE  Fresh' /\ MutexHeld'
    BY <1>11 DEF Spin, AskStalls, UseStalls
  <1>12. ASSUME NEW q \in Requests, ReleaseSlot(q) PROVE Fresh' /\ MutexHeld'
    BY <1>12 DEF ReleaseSlot
  <1>13. ASSUME NEW q \in Requests, UnlockTask(q) PROVE Fresh' /\ MutexHeld'
    BY <1>13 DEF UnlockTask
  <1>14. ASSUME NEW q \in Requests, Connect(q) PROVE Fresh' /\ MutexHeld'
    BY <1>14 DEF Connect
  <1>15. ASSUME NEW q \in Requests, JoinRefused(q) PROVE Fresh' /\ MutexHeld'
    BY <1>15 DEF JoinRefused
  <1>16. ASSUME NEW q \in Requests, Join(q) PROVE Fresh' /\ MutexHeld'
    BY <1>16 DEF Join
  <1>17. ASSUME NEW q \in Requests, Unpark(q) PROVE Fresh' /\ MutexHeld'
    BY <1>17 DEF Unpark
  <1>18. ASSUME NEW q \in Requests, ForgetMutex(q) PROVE Fresh' /\ MutexHeld'
    BY <1>18 DEF ForgetMutex
  <1>19. ASSUME NEW q \in Requests, PeerDone(q) PROVE Fresh' /\ MutexHeld'
    BY <1>19 DEF PeerDone
  <1>20. ASSUME NEW q \in Requests, PeerGone(q) PROVE Fresh' /\ MutexHeld'
    BY <1>20 DEF PeerGone
  <1>21. CASE ServerReplaced
    BY <1>21 DEF ServerReplaced
  <1>22. CASE Restart
    BY <1>22 DEF Restart
  <1>23. CASE UNCHANGED vars
    BY <1>23 DEF vars
  <1> QED
    BY <1>1, <1>2, <1>3, <1>4, <1>5, <1>6, <1>7, <1>8, <1>9, <1>10, <1>11, <1>12,
       <1>13, <1>14, <1>15, <1>16, <1>17, <1>18, <1>19, <1>20, <1>21, <1>22, <1>23
    DEF Next, Handler, Connection

\* A mutex goes only after its request has unlocked it for good.
THEOREM MutexesLast == Spec => []MutexDeletedLast
  <1>1. Init => PhaseInv
    BY InitType, InitPhase DEF PhaseInv
  <1>2. PhaseInv /\ [Next]_vars => PhaseInv'
    BY TypeStep, PhaseStep DEF PhaseInv
  <1>3. PhaseInv => MutexDeletedLast
    BY DEF PhaseInv, TypeInv, TypeOK, Phases, Creating, Endless, MutexHeld, MutexDeletedLast
  <1> QED BY <1>1, <1>2, <1>3, PTL DEF Spec

\* The mutexes that taskMutex and the parked threads lead to belong to requests
\* that drew the id in question.
MutexNamed ==
  /\ \A i \in TaskIDs : taskMutex[i] # None => id[taskMutex[i]] = i
  /\ \A c \in Requests :
       conn[c] = "waiting" /\ parked[c] # None => id[parked[c]] = id[c]

\* The only request with its id.
Sole(r) == id[r] # None /\ ~Clash(r)

\* What a request that shares its id with nobody can rely on.
Owned(r) ==
  /\ phase[r] \in {"ask", "poll", "expire"} =>
       /\ taskMutex[id[r]] = r
       /\ \/ taskList[id[r]] = Pending /\ conn[r] \notin {"waiting", "forget"}
          \/ taskList[id[r]] = r /\ conn[r] = "waiting"
  /\ phase[r] \in {"use", "spin", "stuckUse"} => sock[r] = r /\ conn[r] = "waiting"
  /\ conn[r] = "waiting" => parked[r] = r
  /\ conn[r] \in {"asked", "connected"} /\ taskList[id[r]] # None => taskMutex[id[r]] = r
  /\ conn[r] \in {"asked", "connected", "waiting"} => mutex[r] # "deleted"

SoleOwned == \A r \in Requests : Sole(r) => Owned(r)

SessionInv == PhaseInv /\ MutexNamed /\ SoleOwned /\ MutexAliveUnlessClash

\* At the start there are no names of mutexes and no sole ids.
LEMMA InitSession == Init => MutexNamed /\ SoleOwned /\ MutexAliveUnlessClash
  BY TaskAssumption DEF Init, MutexNamed, SoleOwned, Sole, MutexAliveUnlessClash

\* The names of mutexes stay right: a drawn id is never changed.
LEMMA NamedStep == ASSUME PhaseInv, MutexNamed, [Next]_vars PROVE MutexNamed'
  <1> USE TaskAssumption DEF PhaseInv, TypeInv, TypeOK, IdDrawn, Fresh, MutexNamed,
        requestVars, connVars, tables, Goto
  <1>1. ASSUME NEW q \in Requests, Start(q) PROVE MutexNamed'
    BY <1>1 DEF Start
  <1>2. ASSUME NEW q \in Requests, IncTaskCount(q) PROVE MutexNamed'
    BY <1>2 DEF IncTaskCount, Give
  <1>3. ASSUME NEW q \in Requests, TooLong(q) PROVE MutexNamed'
    BY <1>3 DEF TooLong, Give
  <1>4. ASSUME NEW q \in Requests, DrawID(q) PROVE MutexNamed'
    BY <1>4 DEF DrawID
  <1>5. ASSUME NEW q \in Requests, RegisterTask(q) PROVE MutexNamed'
    BY <1>5 DEF RegisterTask
  <1>6. ASSUME NEW q \in Requests, AskGameServer(q) PROVE MutexNamed'
    BY <1>6 DEF AskGameServer
  <1>7. ASSUME NEW q \in Requests, PollHit(q) PROVE MutexNamed'
    BY <1>7 DEF PollHit
  <1>8. ASSUME NEW q \in Requests, PollTimeout(q) PROVE MutexNamed'
    BY <1>8 DEF PollTimeout
  <1>9. ASSUME NEW q \in Requests, Expire(q) PROVE MutexNamed'
    BY <1>9 DEF Expire, Give
  <1>10. ASSUME NEW q \in Requests, Use(q) PROVE MutexNamed'
    <2>1. PICK e \in {"done", "broken"} : Give(q, e)
      BY <1>10, OutcomesType DEF Use
    <2> QED BY <1>10, <2>1 DEF Use, Give
  <1>11. ASSUME NEW q \in Requests,
      Spin(q) \/ AskStalls(q) \/ UseStalls(q) PROVE MutexNamed'
    BY <1>11 DEF Spin, AskStalls, UseStalls
  <1>12. ASSUME NEW q \in Requests, ReleaseSlot(q) PROVE MutexNamed'
    BY <1>12 DEF ReleaseSlot
  <1>13. ASSUME NEW q \in Requests, UnlockTask(q) PROVE MutexNamed'
    BY <1>13 DEF UnlockTask
  <1>14. ASSUME NEW q \in Requests, Connect(q) PROVE MutexNamed'
    BY <1>14 DEF Connect
  <1>15. ASSUME NEW q \in Requests, JoinRefused(q) PROVE MutexNamed'
    BY <1>15 DEF JoinRefused
  <1>16. ASSUME NEW q \in Requests, Join(q) PROVE MutexNamed'
    BY <1>16 DEF Join
  <1>17. ASSUME NEW q \in Requests, Unpark(q) PROVE MutexNamed'
    BY <1>17 DEF Unpark
  <1>18. ASSUME NEW q \in Requests, ForgetMutex(q) PROVE MutexNamed'
    BY <1>18 DEF ForgetMutex
  <1>19. ASSUME NEW q \in Requests, PeerDone(q) PROVE MutexNamed'
    BY <1>19 DEF PeerDone
  <1>20. ASSUME NEW q \in Requests, PeerGone(q) PROVE MutexNamed'
    BY <1>20 DEF PeerGone
  <1>21. CASE ServerReplaced
    BY <1>21 DEF ServerReplaced
  <1>22. CASE Restart
    BY <1>22 DEF Restart
  <1>23. CASE UNCHANGED vars
    BY <1>23 DEF vars
  <1> QED
    BY <1>1, <1>2, <1>3, <1>4, <1>5, <1>6, <1>7, <1>8, <1>9, <1>10, <1>11, <1>12,
       <1>13, <1>14, <1>15, <1>16, <1>17, <1>18, <1>19, <1>20, <1>21, <1>22, <1>23
    DEF Next, Handler, Connection

\* An id that has no rival now had none before.
LEMMA SoleBefore ==
  ASSUME PhaseInv, [Next]_vars, ~Restart, NEW r \in Requests, id[r] # None, Sole(r)'
  PROVE  Sole(r) /\ id'[r] = id[r]
  <1> USE DEF PhaseInv, TypeInv, TypeOK, Fresh, Sole, Clash, requestVars
  <1>1. CASE id' = id
    BY <1>1
  <1>2. ASSUME NEW q \in Requests, DrawID(q) PROVE Sole(r) /\ id'[r] = id[r]
    BY <1>2 DEF DrawID
  <1> QED
    BY <1>1, <1>2 DEF Next, Handler, Connection, vars, Start, IncTaskCount, TooLong,
       RegisterTask, AskGameServer, PollHit, PollTimeout, Expire, Use, Spin, AskStalls,
       UseStalls, ReleaseSlot,
       UnlockTask, Connect, JoinRefused, Join, Unpark, ForgetMutex, PeerDone, PeerGone,
       ServerReplaced

\* Nobody without the id of r touches what r relies on.
LEMMA OwnedStep ==
  ASSUME PhaseInv, MutexNamed, [Next]_vars, ~Restart, NEW r \in Requests,
         Sole(r), Owned(r), id'[r] = id[r]
  PROVE  Owned(r)'
  <1> USE TaskAssumption DEF PhaseInv, TypeInv, TypeOK, IdDrawn, Fresh, MutexHeld,
        MutexNamed, Owned, Sole, Clash, Creating, Endless, UnlocksFirst,
        requestVars, connVars, tables, Goto
  <1>1. ASSUME NEW q \in Requests, Start(q) PROVE Owned(r)'
    BY <1>1 DEF Start
  <1>2. ASSUME NEW q \in Requests, IncTaskCount(q) PROVE Owned(r)'
    BY <1>2 DEF IncTaskCount, Give
  <1>3. ASSUME NEW q \in Requests, TooLong(q) PROVE Owned(r)'
    BY <1>3 DEF TooLong, Give
  <1>4. ASSUME NEW q \in Requests, DrawID(q) PROVE Owned(r)'
    BY <1>4 DEF DrawID
  <1>5. ASSUME NEW q \in Requests, RegisterTask(q) PROVE Owned(r)'
    BY <1>5 DEF RegisterTask
  <1>6. ASSUME NEW q \in Requests, AskGameServer(q) PROVE Owned(r)'
    BY <1>6 DEF AskGameServer
  <1>7. ASSUME NEW q \in Requests, PollHit(q) PROVE Owned(r)'
    BY <1>7 DEF PollHit, Registered
  <1>8. ASSUME NEW q \in Requests, PollTimeout(q) PROVE Owned(r)'
    BY <1>8 DEF PollTimeout
  <1>9. ASSUME NEW q \in Requests, Expire(q) PROVE Owned(r)'
    BY <1>9 DEF Expire, Give
  <1>10. ASSUME NEW q \in Requests, Use(q) PROVE Owned(r)'
    <2>1. PICK e \in {"done", "broken"} : Give(q, e)
      BY <1>10, OutcomesType DEF Use
    <2> QED BY <1>10, <2>1 DEF Use, Give
  <1>11. ASSUME NEW q \in Requests, Spin(q) \/ AskStalls(q) \/ UseStalls(q) PROVE Owned(r)'
    BY <1>11 DEF Spin, AskStalls, UseStalls
  <1>12. ASSUME NEW q \in Requests, ReleaseSlot(q) PROVE Owned(r)'
    BY <1>12 DEF ReleaseSlot
  <1>13. ASSUME NEW q \in Requests, UnlockTask(q) PROVE Owned(r)'
    <2>1. CASE q = r
      <3>1. mutex'[r] = "deleted" => conn[r] = "none"
        BY <1>13, <2>1 DEF UnlockTask
      <3>2. phase[r] \in {"leave", "last"} /\ phase'[r] \in {"last", "done"}
        BY <1>13, <2>1 DEF UnlockTask
      <3> QED BY <1>13, <3>1, <3>2 DEF UnlockTask
    <2>2. CASE q # r
      <3>1. mutex'[r] = mutex[r] /\ phase'[r] = phase[r]
        BY <1>13, <2>2 DEF UnlockTask
      <3> QED BY <1>13, <3>1 DEF UnlockTask
    <2> QED BY <2>1, <2>2
  <1>14. ASSUME NEW q \in Requests, Connect(q) PROVE Owned(r)'
    BY <1>14 DEF Connect
  <1>15. ASSUME NEW q \in Requests, JoinRefused(q) PROVE Owned(r)'
    BY <1>15 DEF JoinRefused
  <1>16. ASSUME NEW q \in Requests, Join(q) PROVE Owned(r)'
    <2>1. CASE q = r
      <3>1. taskList[id[r]] # None /\ taskMutex[id[r]] = r
        BY <1>16, <2>1 DEF Join, Registered
      <3>2. /\ phase' = phase /\ sock' = sock /\ mutex' = mutex /\ taskMutex' = taskMutex
            /\ taskList'[id[r]] = r /\ conn'[r] = "waiting" /\ parked'[r] = r
        BY <1>16, <2>1, <3>1 DEF Join
      <3> QED BY <1>16, <2>1, <3>1, <3>2 DEF Join
    <2>2. CASE q # r
      <3>1. id[q] # id[r]
        BY <2>2
      <3>2. /\ phase' = phase /\ sock' = sock /\ mutex' = mutex /\ taskMutex' = taskMutex
            /\ taskList'[id[r]] = taskList[id[r]] /\ conn'[r] = conn[r]
            /\ parked'[r] = parked[r]
        BY <1>16, <2>2, <3>1 DEF Join
      <3> QED BY <3>2
    <2> QED BY <2>1, <2>2
  <1>17. ASSUME NEW q \in Requests, Unpark(q) PROVE Owned(r)'
    <2>1. CASE q = r
      <3>1. (parked[r] = r /\ mutex[r] # "held") \/ UNCHANGED <<mutex, conn>>
        BY <1>17, <2>1 DEF Unpark
      <3>2. phase[r] \notin {"ask", "poll", "expire", "use", "spin", "stuckUse"}
              \/ UNCHANGED <<mutex, conn>>
        BY <3>1
      <3> QED BY <1>17, <2>1, <3>1, <3>2 DEF Unpark
    <2>2. CASE q # r
      <3>1. parked[q] # r
        BY <1>17, <2>2 DEF Unpark
      <3>2. mutex'[r] = mutex[r] /\ conn'[r] = conn[r]
        BY <1>17, <2>2, <3>1 DEF Unpark
      <3> QED BY <1>17, <3>2 DEF Unpark
    <2> QED BY <2>1, <2>2
  <1>18. ASSUME NEW q \in Requests, ForgetMutex(q) PROVE Owned(r)'
    BY <1>18 DEF ForgetMutex
  <1>19. ASSUME NEW q \in Requests, PeerDone(q) PROVE Owned(r)'
    BY <1>19 DEF PeerDone
  <1>20. ASSUME NEW q \in Requests, PeerGone(q) PROVE Owned(r)'
    BY <1>20 DEF PeerGone
  <1>21. CASE ServerReplaced
    BY <1>21 DEF ServerReplaced, UsesServer
  <1>22. CASE UNCHANGED vars
    BY <1>22 DEF vars
  <1> QED
    BY <1>1, <1>2, <1>3, <1>4, <1>5, <1>6, <1>7, <1>8, <1>9, <1>10, <1>11, <1>12,
       <1>13, <1>14, <1>15, <1>16, <1>17, <1>18, <1>19, <1>20, <1>21, <1>22
    DEF Next, Handler, Connection

\* A request that draws an id has nothing yet to rely on.
LEMMA SoleOwnedStep ==
  ASSUME PhaseInv, MutexNamed, SoleOwned, [Next]_vars PROVE SoleOwned'
  <1>1. CASE Restart
    BY <1>1 DEF Restart, SoleOwned, Sole
  <1>2. ASSUME ~Restart, NEW r \in Requests, Sole(r)' PROVE Owned(r)'
    <2>1. CASE id[r] # None
      BY <1>2, <2>1, SoleBefore, OwnedStep DEF SoleOwned
    <2>2. CASE id[r] = None
      <3>1. PICK q \in Requests : DrawID(q) /\ q = r
        BY <1>2, <2>2 DEF PhaseInv, TypeInv, TypeOK, Fresh, Sole, Next, Handler, Connection,
           vars, requestVars, Start, IncTaskCount, TooLong, DrawID, RegisterTask,
           AskGameServer, PollHit, PollTimeout, Expire, Use, Spin, AskStalls, UseStalls,
           ReleaseSlot,
           UnlockTask, Connect, JoinRefused, Join, Unpark, ForgetMutex, PeerDone,
           PeerGone, ServerReplaced
      <3> QED
        BY <1>2, <2>2, <3>1 DEF PhaseInv, TypeInv, TypeOK, Fresh, Owned, Sole, DrawID, Goto,
           connVars
    <2> QED BY <2>1, <2>2
  <1> QED BY <1>1, <1>2 DEF SoleOwned

\* A step that finds a mutex deleted or forgotten is one of a connection whose
\* request shares its id with another.
LEMMA AliveStep ==
  ASSUME PhaseInv, SoleOwned, MutexAliveUnlessClash, [Next]_vars
  PROVE  MutexAliveUnlessClash'
  <1> USE TaskAssumption DEF PhaseInv, TypeInv, TypeOK, IdDrawn, SoleOwned, Sole, Owned,
        requestVars, connVars, tables
  <1>1. CASE Restart
    BY <1>1 DEF Restart, MutexAliveUnlessClash
  <1>2. CASE UNCHANGED vars
    BY <1>2 DEF vars, MutexAliveUnlessClash, Clash
  <1>3. ASSUME NEW c \in Requests, Join(c) PROVE MutexAliveUnlessClash'
    <2>1. id' = id /\ id[c] \in TaskIDs
      BY <1>3 DEF Join
    <2>2. CASE Clash(c)
      BY <2>1, <2>2 DEF MutexAliveUnlessClash, Clash
    <2>3. CASE ~Clash(c)
      <3>1. taskMutex[id[c]] = c
        BY <1>3, <2>1, <2>3 DEF Join, Registered
      <3> QED BY <1>3, <3>1 DEF Join, Running, MutexAliveUnlessClash
    <2> QED BY <2>2, <2>3
  <1>4. ASSUME NEW c \in Requests, Unpark(c) PROVE MutexAliveUnlessClash'
    <2>1. id' = id /\ id[c] \in TaskIDs
      BY <1>4 DEF Unpark
    <2>2. CASE Clash(c)
      BY <2>1, <2>2 DEF MutexAliveUnlessClash, Clash
    <2>3. CASE ~Clash(c)
      <3>1. parked[c] = c /\ mutex[c] # "deleted"
        BY <1>4, <2>1, <2>3 DEF Unpark
      <3> QED BY <1>4, <3>1 DEF Unpark, Running, MutexAliveUnlessClash
    <2> QED BY <2>2, <2>3
  <1>5. CASE ServerReplaced
    BY <1>5 DEF ServerReplaced, Running, MutexAliveUnlessClash
  <1>6. CASE fault' = fault /\ fault = "none"
    BY <1>6 DEF MutexAliveUnlessClash
  <1> QED
    BY <1>1, <1>2, <1>3, <1>4, <1>5, <1>6 DEF Next, Handler, Connection, Running, Start,
       IncTaskCount, TooLong, DrawID, RegisterTask, AskGameServer, PollHit, PollTimeout,
       Expire, Use, Spin, AskStalls, UseStalls, ReleaseSlot, UnlockTask, Connect,
       JoinRefused, ForgetMutex,
       PeerDone, PeerGone

\* All of it together holds in every state.
LEMMA SessionInvariance == Spec => []SessionInv
  <1>1. Init => SessionInv
    BY InitType, InitPhase, InitSession DEF SessionInv, PhaseInv
  <1>2. SessionInv /\ [Next]_vars => SessionInv'
    BY TypeStep, PhaseStep, NamedStep, SoleOwnedStep, AliveStep DEF SessionInv, PhaseInv
  <1> QED BY <1>1, <1>2, PTL DEF Spec

\* A handler that shares its id with nobody talks over its own connection,
\* which stays parked on the handler's locked mutex.
THEOREM SessionsOwned == Spec => []OwnSession
  <1>1. SessionInv => OwnSession
    <2> SUFFICES ASSUME SessionInv, NEW r \in Requests, phase[r] = "use", ~Clash(r)
                 PROVE  sock[r] = r /\ conn[r] = "waiting" /\ parked[r] = r
                          /\ mutex[r] = "held"
      BY DEF OwnSession
    <2>1. mutex[r] = "held"
      BY DEF SessionInv, PhaseInv, MutexHeld
    <2>2. id[r] # None
      BY TaskAssumption DEF SessionInv, PhaseInv, TypeInv, IdDrawn
    <2>3. Owned(r)
      BY <2>2 DEF SessionInv, SoleOwned, Sole
    <2> QED BY <2>1, <2>3 DEF Owned
  <1> QED BY <1>1, SessionInvariance, PTL

\* A deleted or forgotten mutex is used only after an id was drawn twice.
THEOREM MutexesAlive == Spec => []MutexAliveUnlessClash
  <1>1. SessionInv => MutexAliveUnlessClash
    BY DEF SessionInv
  <1> QED BY <1>1, SessionInvariance, PTL

-----------------------------------------------------------------------------
(* Why sessions end. *)

\* The phases in which a handler has its mutex locked.
Locks(r) ==
  \/ phase[r] \in Creating \cup Endless \cup {"use", "leave"}
  \/ phase[r] = "last" /\ ~UnlocksFirst(r)

\* A mutex is locked for a handler that is under way, and a parked thread found one.
ReleaseInv ==
  /\ \A r \in Requests : mutex[r] = "held" => Locks(r)
  /\ \A r \in Requests : mutex[r] = "none" => phase[r] = "idle"
  /\ Running => \A c \in Requests : conn[c] = "waiting" => parked[c] # None

\* At the start no mutex is locked and nobody is parked.
LEMMA InitRelease == Init => ReleaseInv
  BY DEF Init, ReleaseInv

\* Every action keeps ReleaseInv.
LEMMA ReleaseStep == ASSUME PhaseInv, ReleaseInv, [Next]_vars PROVE ReleaseInv'
  <1> USE TaskAssumption DEF PhaseInv, TypeInv, TypeOK, IdDrawn, EndKnown, MutexHeld,
        ReleaseInv, Locks, Phases, Creating, Endless, ConnPhases, Ends, requestVars,
        connVars,
        tables, Goto, UnlocksFirst, Running
  <1>1. ASSUME NEW q \in Requests, Start(q) PROVE ReleaseInv'
    BY <1>1 DEF Start
  <1>2. ASSUME NEW q \in Requests, IncTaskCount(q) PROVE ReleaseInv'
    BY <1>2 DEF IncTaskCount, Give
  <1>3. ASSUME NEW q \in Requests, TooLong(q) PROVE ReleaseInv'
    BY <1>3 DEF TooLong, Give
  <1>4. ASSUME NEW q \in Requests, DrawID(q) PROVE ReleaseInv'
    BY <1>4 DEF DrawID
  <1>5. ASSUME NEW q \in Requests, RegisterTask(q) PROVE ReleaseInv'
    BY <1>5 DEF RegisterTask
  <1>6. ASSUME NEW q \in Requests, AskGameServer(q) PROVE ReleaseInv'
    BY <1>6 DEF AskGameServer
  <1>7. ASSUME NEW q \in Requests, PollHit(q) PROVE ReleaseInv'
    BY <1>7 DEF PollHit
  <1>8. ASSUME NEW q \in Requests, PollTimeout(q) PROVE ReleaseInv'
    BY <1>8 DEF PollTimeout
  <1>9. ASSUME NEW q \in Requests, Expire(q) PROVE ReleaseInv'
    BY <1>9 DEF Expire, Give
  <1>10. ASSUME NEW q \in Requests, Use(q) PROVE ReleaseInv'
    <2>1. PICK e \in {"done", "broken"} : Give(q, e)
      BY <1>10, OutcomesType DEF Use
    <2> QED BY <1>10, <2>1 DEF Use, Give
  <1>11. ASSUME NEW q \in Requests,
      Spin(q) \/ AskStalls(q) \/ UseStalls(q) PROVE ReleaseInv'
    BY <1>11 DEF Spin, AskStalls, UseStalls
  <1>12. ASSUME NEW q \in Requests, ReleaseSlot(q) PROVE ReleaseInv'
    BY <1>12 DEF ReleaseSlot
  <1>13. ASSUME NEW q \in Requests, UnlockTask(q) PROVE ReleaseInv'
    BY <1>13 DEF UnlockTask
  <1>14. ASSUME NEW q \in Requests, Connect(q) PROVE ReleaseInv'
    BY <1>14 DEF Connect
  <1>15. ASSUME NEW q \in Requests, JoinRefused(q) PROVE ReleaseInv'
    BY <1>15 DEF JoinRefused
  <1>16. ASSUME NEW q \in Requests, Join(q) PROVE ReleaseInv'
    BY <1>16 DEF Join
  <1>17. ASSUME NEW q \in Requests, Unpark(q) PROVE ReleaseInv'
    BY <1>17 DEF Unpark
  <1>18. ASSUME NEW q \in Requests, ForgetMutex(q) PROVE ReleaseInv'
    BY <1>18 DEF ForgetMutex
  <1>19. ASSUME NEW q \in Requests, PeerDone(q) PROVE ReleaseInv'
    BY <1>19 DEF PeerDone
  <1>20. ASSUME NEW q \in Requests, PeerGone(q) PROVE ReleaseInv'
    BY <1>20 DEF PeerGone
  <1>21. CASE ServerReplaced
    BY <1>21 DEF ServerReplaced
  <1>22. CASE Restart
    BY <1>22 DEF Restart
  <1>23. CASE UNCHANGED vars
    BY <1>23 DEF vars
  <1> QED
    BY <1>1, <1>2, <1>3, <1>4, <1>5, <1>6, <1>7, <1>8, <1>9, <1>10, <1>11, <1>12,
       <1>13, <1>14, <1>15, <1>16, <1>17, <1>18, <1>19, <1>20, <1>21, <1>22, <1>23
    DEF Next, Handler, Connection

\* A parked thread can go on, or the handler is under way whose mutex it waits for.
NobodyForgotten ==
  Running => \A c \in Requests :
    conn[c] = "waiting" =>
      /\ parked[c] \in Requests
      /\ mutex[parked[c]] \in {"free", "deleted"} \/ Locks(parked[c])

\* No handler goes, by any of its returns, without having unlocked its mutex for the
\* threads of taskStart that are parked on it, or are yet to be.
THEOREM ParkedReleased == Spec => []NobodyForgotten
  <1>1. Init => SessionInv /\ ReleaseInv
    BY InitType, InitPhase, InitSession, InitRelease DEF SessionInv, PhaseInv
  <1>2. SessionInv /\ ReleaseInv /\ [Next]_vars => (SessionInv /\ ReleaseInv)'
    BY TypeStep, PhaseStep, NamedStep, SoleOwnedStep, AliveStep, ReleaseStep
    DEF SessionInv, PhaseInv
  <1>3. SessionInv /\ ReleaseInv => NobodyForgotten
    <2> SUFFICES ASSUME SessionInv, ReleaseInv, Running,
                        NEW c \in Requests, conn[c] = "waiting"
                 PROVE  /\ parked[c] \in Requests
                        /\ mutex[parked[c]] \in {"free", "deleted"} \/ Locks(parked[c])
      BY DEF NobodyForgotten
    <2>1. parked[c] \in Requests
      BY DEF SessionInv, PhaseInv, TypeInv, TypeOK, ReleaseInv
    <2>2. id[parked[c]] = id[c]
      BY <2>1, TaskAssumption DEF SessionInv, MutexNamed
    <2>3. id[c] # None
      BY TaskAssumption DEF SessionInv, PhaseInv, TypeInv, IdDrawn
    <2>4. mutex[parked[c]] # "none"
      BY <2>1, <2>2, <2>3 DEF ReleaseInv, SessionInv, PhaseInv, Fresh
    <2> QED BY <2>1, <2>4 DEF SessionInv, PhaseInv, TypeInv, TypeOK, ReleaseInv
  <1> QED BY <1>1, <1>2, <1>3, PTL DEF Spec

\* How far it is from a phase of a handler, and of a task connection, to the last one.
HandlerLeft ==
  [idle |-> 9, slot |-> 8, draw |-> 7, register |-> 6, ask |-> 5, poll |-> 4,
   expire |-> 3, use |-> 3, leave |-> 2, last |-> 1, done |-> 0,
   spin |-> 0, stuckAsk |-> 0, stuckUse |-> 0]
ConnLeft == [none |-> 5, asked |-> 4, connected |-> 3, waiting |-> 2, forget |-> 1,
   closed |-> 0]
PeerLeft == [open |-> 1, done |-> 0, gone |-> 0]

\* How many steps a request, its connection and its peer can still make.
StepsLeft(r) == HandlerLeft[phase[r]] + ConnLeft[conn[r]] + PeerLeft[peer[r]]

\* The numbers above.
LEMMA LeftFacts ==
  /\ HandlerLeft["idle"] = 9 /\ HandlerLeft["slot"] = 8 /\ HandlerLeft["draw"] = 7
  /\ HandlerLeft["register"] = 6 /\ HandlerLeft["ask"] = 5 /\ HandlerLeft["poll"] = 4
  /\ HandlerLeft["expire"] = 3 /\ HandlerLeft["use"] = 3 /\ HandlerLeft["leave"] = 2
  /\ HandlerLeft["last"] = 1 /\ HandlerLeft["done"] = 0
  /\ HandlerLeft["spin"] = 0 /\ HandlerLeft["stuckAsk"] = 0 /\ HandlerLeft["stuckUse"] = 0
  /\ ConnLeft["none"] = 5 /\ ConnLeft["asked"] = 4 /\ ConnLeft["connected"] = 3
  /\ ConnLeft["waiting"] = 2 /\ ConnLeft["forget"] = 1 /\ ConnLeft["closed"] = 0
  /\ PeerLeft["open"] = 1 /\ PeerLeft["done"] = 0 /\ PeerLeft["gone"] = 0
  BY DEF HandlerLeft, ConnLeft, PeerLeft

\* What is left of a request are natural numbers.
LEMMA LeftTypes ==
  ASSUME TypeOK, NEW r \in Requests
  PROVE  /\ HandlerLeft[phase[r]] \in Nat
         /\ ConnLeft[conn[r]] \in Nat /\ PeerLeft[peer[r]] \in Nat
  <1>1. /\ phase[r] \in Phases /\ conn[r] \in ConnPhases
        /\ peer[r] \in {"open", "done", "gone"}
    BY DEF TypeOK
  <1> QED BY <1>1, LeftFacts DEF Phases, Creating, Endless, ConnPhases

\* What a step leaves of a request as it was, and a step forward of it.
Still(r) == phase'[r] = phase[r] /\ conn'[r] = conn[r] /\ peer'[r] = peer[r]
Ahead(r) ==
  /\ HandlerLeft[phase'[r]] <= HandlerLeft[phase[r]]
  /\ ConnLeft[conn'[r]] <= ConnLeft[conn[r]]
  /\ PeerLeft[peer'[r]] <= PeerLeft[peer[r]]
  /\ \/ HandlerLeft[phase'[r]] < HandlerLeft[phase[r]]
     \/ ConnLeft[conn'[r]] < ConnLeft[conn[r]]
     \/ PeerLeft[peer'[r]] < PeerLeft[peer[r]]

\* Each action of a request is a step forward of it and of no other.  Drawing again
\* changes nothing, and a thread that finds its mutex deleted ends with the process.
LEMMA OneAhead ==
  ASSUME PhaseInv, NEW q \in Requests, Start(q) \/ Handler(q) \/ Connection(q), vars' # vars
  PROVE  /\ \A r \in Requests \ {q} : Still(r)
         /\ Ahead(q) \/ (Unpark(q) /\ fault' # "none" /\ Still(q))
  <1> DEFINE Moves == (\A r \in Requests \ {q} : Still(r)) /\ Ahead(q)
  <1>0. /\ TypeOK /\ \A x \in Nat : x <= x
        /\ phase[q] = "ask" => conn[q] = "none"
    BY DEF PhaseInv, TypeInv, Fresh
  <1>a. /\ HandlerLeft[phase[q]] \in Nat /\ ConnLeft[conn[q]] \in Nat
        /\ PeerLeft[peer[q]] \in Nat
    BY <1>0, LeftTypes
  <1> USE <1>0, <1>a, LeftFacts DEF TypeOK, Still, Ahead, Goto, requestVars, connVars
  <1>1. CASE Start(q)
    BY <1>1 DEF Start
  <1>2. CASE IncTaskCount(q)
    BY <1>2 DEF IncTaskCount, Give
  <1>3. CASE TooLong(q)
    BY <1>3 DEF TooLong, Give
  <1>4. CASE RegisterTask(q)
    BY <1>4 DEF RegisterTask
  <1>5. CASE AskGameServer(q)
    BY <1>5 DEF AskGameServer
  <1>6. CASE PollHit(q)
    BY <1>6 DEF PollHit
  <1>7. CASE PollTimeout(q)
    BY <1>7 DEF PollTimeout
  <1>8. CASE Expire(q)
    BY <1>8 DEF Expire, Give
  <1>9. CASE Spin(q) \/ AskStalls(q) \/ UseStalls(q)
    BY <1>9 DEF Spin, AskStalls, UseStalls
  <1>10. CASE Connect(q)
    BY <1>10 DEF Connect
  <1>11. CASE JoinRefused(q)
    BY <1>11 DEF JoinRefused
  <1>12. CASE Join(q)
    BY <1>12 DEF Join
  <1>13. CASE ForgetMutex(q)
    BY <1>13 DEF ForgetMutex
  <1>14. CASE PeerDone(q)
    BY <1>14 DEF PeerDone
  <1>15. CASE PeerGone(q)
    BY <1>15 DEF PeerGone
  <1>16. CASE DrawID(q)
    <2>1. phase[q] = "draw" /\ phase' = [phase EXCEPT ![q] = "register"]
          /\ UNCHANGED <<conn, peer>>
      BY <1>16 DEF DrawID, vars, tables
    <2> QED BY <2>1
  <1>17. CASE Use(q)
    <2>1. PICK e \in {"done", "broken"} : Give(q, e)
      BY <1>17, OutcomesType DEF Use
    <2> QED BY <1>17, <2>1 DEF Use, Give
  <1>18. CASE ReleaseSlot(q)
    BY <1>18 DEF ReleaseSlot
  <1>19. CASE UnlockTask(q)
    BY <1>19 DEF UnlockTask
  <1>20. CASE Unpark(q)
    BY <1>20 DEF Unpark
  <1> QED
    BY <1>1, <1>2, <1>3, <1>4, <1>5, <1>6, <1>7, <1>8, <1>9, <1>10, <1>11, <1>12, <1>13,
       <1>14, <1>15, <1>16, <1>17, <1>18, <1>19, <1>20
    DEF Handler, Connection

\* The session of a request runs out of steps, whatever others do: each step of its
\* handler, of its connection and of its peer leaves fewer that can follow, and no other
\* step more, until the manager is started again.  A handler that has none left has
\* returned, or is for ever in a call to a peer that waits too, or in one of the two
\* loops that a game server which is gone leaves without an end.
THEOREM SessionsRunOut ==
  Spec => [][~Restart => \A r \in Requests :
               /\ HandlerLeft[phase[r]] = 0 <=> phase[r] \in Endless \cup {"done"}
               /\ StepsLeft(r) \in Nat /\ StepsLeft(r)' \in Nat
               /\ StepsLeft(r)' <= StepsLeft(r)
               /\ Start(r) \/ Handler(r) \/ (Connection(r) /\ fault' = "none")
                    => StepsLeft(r)' < StepsLeft(r)]_vars
  <1> DEFINE Fewer == \A r \in Requests :
               /\ HandlerLeft[phase[r]] = 0 <=> phase[r] \in Endless \cup {"done"}
               /\ StepsLeft(r) \in Nat /\ StepsLeft(r)' \in Nat
               /\ StepsLeft(r)' <= StepsLeft(r)
               /\ Start(r) \/ Handler(r) \/ (Connection(r) /\ fault' = "none")
                    => StepsLeft(r)' < StepsLeft(r)
  <1>1. Init => PhaseInv
    BY InitType, InitPhase DEF PhaseInv
  <1>2. PhaseInv /\ [Next]_vars => PhaseInv'
    BY TypeStep, PhaseStep DEF PhaseInv
  <1>3. PhaseInv /\ [Next]_vars => [~Restart => Fewer]_vars
    <2> SUFFICES ASSUME PhaseInv, Next, ~Restart, vars' # vars, NEW r \in Requests
                 PROVE  /\ HandlerLeft[phase[r]] = 0
                             <=> phase[r] \in Endless \cup {"done"}
                        /\ StepsLeft(r) \in Nat /\ StepsLeft(r)' \in Nat
                        /\ StepsLeft(r)' <= StepsLeft(r)
                        /\ Start(r) \/ Handler(r) \/ (Connection(r) /\ fault' = "none")
                             => StepsLeft(r)' < StepsLeft(r)
      OBVIOUS
    <2>0. HandlerLeft[phase[r]] = 0 <=> phase[r] \in Endless \cup {"done"}
      <3>1. phase[r] \in Phases
        BY DEF PhaseInv, TypeInv, TypeOK
      <3> QED BY <3>1, LeftFacts DEF Phases, Creating, Endless
    <2> DEFINE h == HandlerLeft[phase[r]]
               c == ConnLeft[conn[r]]
               p == PeerLeft[peer[r]]
               i == HandlerLeft[phase'[r]]
               d == ConnLeft[conn'[r]]
               o == PeerLeft[peer'[r]]
    <2>1. StepsLeft(r) = h + c + p /\ StepsLeft(r)' = i + d + o
      BY DEF StepsLeft
    <2>2. h \in Nat /\ c \in Nat /\ p \in Nat
      BY LeftTypes DEF PhaseInv, TypeInv
    <2>3. i \in Nat /\ d \in Nat /\ o \in Nat
      <3>1. TypeOK'
        BY <1>2 DEF PhaseInv, TypeInv
      <3>2. /\ phase'[r] \in Phases /\ conn'[r] \in ConnPhases
            /\ peer'[r] \in {"open", "done", "gone"}
        BY <3>1 DEF TypeOK
      <3> QED BY <3>2, LeftFacts DEF Phases, Creating, Endless, ConnPhases
    <2>4. Still(r) => i = h /\ d = c /\ o = p
      BY DEF Still
    <2>5. Ahead(r) => i <= h /\ d <= c /\ o <= p /\ (i < h \/ d < c \/ o < p)
      BY DEF Ahead
    <2>6. Still(r) \/ Ahead(r)
      <3>1. CASE ServerReplaced
        BY <3>1 DEF ServerReplaced, requestVars, connVars, Still
      <3>2. ASSUME NEW q \in Requests, Start(q) \/ Handler(q) \/ Connection(q)
            PROVE  Still(r) \/ Ahead(r)
        BY <3>2, OneAhead
      <3> QED BY <3>1, <3>2 DEF Next
    <2>7. Start(r) \/ Handler(r) \/ (Connection(r) /\ fault' = "none") => Ahead(r)
      <3>1. Start(r) \/ Handler(r) => fault' = "none"
        BY DEF Handler, Running, Start, IncTaskCount, TooLong, DrawID, RegisterTask,
           AskGameServer, PollHit, PollTimeout, Expire, Use, Spin, AskStalls, UseStalls,
           ReleaseSlot, UnlockTask
      <3> QED BY <3>1, OneAhead
    <2> HIDE DEF h, c, p, i, d, o
    <2>8. Ahead(r) => i + d + o < h + c + p
      BY <2>2, <2>3, <2>5
    <2>9. Still(r) \/ Ahead(r) => i + d + o <= h + c + p
      BY <2>2, <2>3, <2>4, <2>5
    <2>10. i + d + o \in Nat /\ h + c + p \in Nat
      BY <2>2, <2>3
    <2> QED BY <2>0, <2>1, <2>6, <2>7, <2>8, <2>9, <2>10
  <1> QED BY <1>1, <1>2, <1>3, PTL DEF Spec

================================================================================
