------------------------- MODULE ServerRegistryProofs -------------------------
(***************************************************************************)
(* Theorems about ServerRegistry that hold for any number of game servers, *)
(* controllers, terminals, ids and users.                                  *)
(***************************************************************************)
EXTENDS ServerRegistry, TLAPS

\* A client that goes leaves a free slot, no pointer and no mark behind.
LEMMA DetachType ==
  ASSUME TypeOK, NEW c \in Clients, Detach(c)
  PROVE  /\ pc' \in [Conns -> ServerPhases \cup ClientPhases]
         /\ \A s \in ServerConns : pc'[s] \in ServerPhases
         /\ \A d \in Clients : pc'[d] \in ClientPhases
         /\ sid' \in [Conns -> SerIDs \cup {None}]
         /\ uid' \in [Conns -> UsrIDs \cup {None}]
         /\ ser' \in [Clients -> ServerConns \cup {None}]
         /\ shut' \in [Clients -> BOOLEAN]
<1> USE ConnAssumption DEF TypeOK, Detach, HangUp, Goto, Conns, Clients
<1>1. "idle" \in ServerPhases \cap ClientPhases BY DEF ServerPhases, ClientPhases
<1>2. pc' \in [Conns -> ServerPhases \cup ClientPhases] BY <1>1
<1>3. \A s \in ServerConns : pc'[s] \in ServerPhases BY <1>1
<1>4. \A d \in Clients : pc'[d] \in ClientPhases BY <1>1
<1>5. sid' \in [Conns -> SerIDs \cup {None}] OBVIOUS
<1>6. uid' \in [Conns -> UsrIDs \cup {None}] OBVIOUS
<1>7. ser' \in [Clients -> ServerConns \cup {None}] OBVIOUS
<1>8. shut' \in [Clients -> BOOLEAN] OBVIOUS
<1> QED BY <1>2, <1>3, <1>4, <1>5, <1>6, <1>7, <1>8

\* Every step of the system keeps the types: each field and global of the
\* manager keeps holding a value of its kind, whatever the threads do.
LEMMA TypeStep == TypeOK /\ Announced /\ [Next]_vars => TypeOK'
<1> SUFFICES ASSUME TypeOK, Announced, [Next]_vars PROVE TypeOK'
  OBVIOUS
<1> USE ConnAssumption DEF TypeOK, Conns, Clients, ServerPhases, ClientPhases,
                           Faults, identity, lists, Goto, HangUp, Detach, Fail
<1>1. ASSUME NEW t \in Conns, Accept(t) PROVE TypeOK'
  BY <1>1 DEF Accept, FirstPhase
<1>2. ASSUME NEW t \in ServerConns \cup ControllerConns,
             CheckSerID(t) \/ ReadUsrID(t)
      PROVE TypeOK'
  <2>1. CASE CheckSerID(t) BY <2>1 DEF CheckSerID
  <2>2. CASE ReadUsrID(t) BY <2>2 DEF ReadUsrID
  <2> QED BY <1>2, <2>1, <2>2
<1>3. ASSUME NEW s \in ServerConns, ServerStep(s) PROVE TypeOK'
  <2>1. CASE ServerConstruct(s)
    <3>1. SerList' \in [SerIDs -> ServerConns \cup {None}]
      BY <2>1 DEF ServerConstruct
    <3> QED BY <2>1, <3>1 DEF ServerConstruct
  <2>2. CASE ServerGreet(s) BY <2>2 DEF ServerGreet
  <2>3. CASE ServerReadEnds(s) BY <2>3 DEF ServerReadEnds
  <2>4. CASE DestroyLock(s) BY <2>4 DEF DestroyLock, Lock
  <2>5. CASE DestroyShutdown(s) BY <2>5 DEF DestroyShutdown
  <2>6. CASE DestroyWait(s) BY <2>6 DEF DestroyWait
  <2>7. CASE DestroyErase(s) BY <2>7 DEF DestroyErase, Unlock
  <2> QED BY <1>3, <2>1, <2>2, <2>3, <2>4, <2>5, <2>6, <2>7 DEF ServerStep
<1>4. ASSUME NEW c \in ControllerConns, ControllerStep(c) PROVE TypeOK'
  <2>1. CASE ControllerConstruct(c)
    <3>1. SerList[sid[c]] \in ServerConns \cup {None}
      BY <2>1 DEF ControllerConstruct, Announced
    <3> QED BY <2>1, <3>1 DEF ControllerConstruct, Lock
  <2>2. CASE ControllerForbidden(c) BY <2>2 DEF ControllerForbidden
  <2>3. CASE ControllerAttach(c)
    <3>1. CTLList' \in [ServerConns -> SUBSET ControllerConns]
      BY <2>3 DEF ControllerAttach
    <3> QED BY <2>3, <3>1 DEF ControllerAttach
  <2>4. CASE ControllerLeave(c)
    <3>1. CTLList' \in [ServerConns -> SUBSET ControllerConns]
      BY <2>4 DEF ControllerLeave
    <3>2. CASE Detach(c) BY <2>4, <3>1, <3>2, DetachType DEF ControllerLeave
    <3> QED BY <2>4, <3>2 DEF ControllerLeave
  <2> QED BY <1>4, <2>1, <2>2, <2>3, <2>4 DEF ControllerStep
<1>5. ASSUME NEW w \in TerminalConns, TerminalStep(w) PROVE TypeOK'
  <2>1. CASE TerminalBusy(w) BY <2>1 DEF TerminalBusy
  <2>2. CASE TerminalUnlock(w) BY <2>2 DEF TerminalUnlock, Unlock
  <2>3. CASE TerminalCheck(w) BY <2>3 DEF TerminalCheck, Lock
  <2>7. CASE TerminalLookup(w)
    <3>1. SerList[sid[w]] \in ServerConns \cup {None}
      BY <2>7 DEF TerminalLookup, Announced
    <3> QED BY <2>7, <3>1 DEF TerminalLookup
  <2>4. CASE TerminalAttach(w)
    <3>1. WSList' \in [ServerConns -> SUBSET TerminalConns]
      BY <2>4 DEF TerminalAttach
    <3> QED BY <2>4, <3>1 DEF TerminalAttach
  <2>5. CASE TerminalLeave(w)
    <3>1. CASE ~shut[w] BY <2>5, <3>1 DEF TerminalLeave
    <3>2. CASE shut[w] BY <2>5, <3>2, DetachType DEF TerminalLeave
    <3> QED BY <3>1, <3>2
  <2>6. CASE TerminalRemove(w)
    <3>1. WSList' \in [ServerConns -> SUBSET TerminalConns]
      BY <2>6 DEF TerminalRemove
    <3>2. CASE Detach(w) BY <2>6, <3>1, <3>2, DetachType DEF TerminalRemove
    <3> QED BY <2>6, <3>2 DEF TerminalRemove
  <2> QED BY <1>5, <2>1, <2>2, <2>3, <2>4, <2>5, <2>6, <2>7 DEF TerminalStep
<1>6. ASSUME NEW c \in Clients,
             ClientStart(c) \/ ClientForward(c) \/ ForwardEnds(c) \/ ClientReadEnds(c)
      PROVE TypeOK'
  <2>1. CASE ClientStart(c) BY <2>1 DEF ClientStart, Unlock
  <2>2. CASE ClientForward(c) BY <2>2 DEF ClientForward
  <2>3. CASE ForwardEnds(c) BY <2>3 DEF ForwardEnds
  <2>4. CASE ClientReadEnds(c) BY <2>4 DEF ClientReadEnds
  <2> QED BY <1>6, <2>1, <2>2, <2>3, <2>4
<1>7. CASE Restart BY <1>7 DEF Restart
<1>8. CASE UNCHANGED vars BY <1>8 DEF vars
<1> QED BY <1>1, <1>2, <1>3, <1>4, <1>5, <1>6, <1>7, <1>8 DEF Next

\* Ids are announced when a slot is taken and forgotten when it is left, and
\* a pointer to a Server comes with the phases that use it.
LEMMA AnnouncedStep ==
  TypeOK /\ Announced /\ [Next]_vars => Announced'
<1> SUFFICES ASSUME TypeOK, Announced, [Next]_vars PROVE Announced'
  OBVIOUS
<1> USE ConnAssumption DEF TypeOK, Conns, Clients, identity, lists, Goto, HangUp, Detach,
           Fail, Announced, Serving
<1>1. ASSUME NEW t \in Conns, Accept(t) PROVE Announced'
  BY <1>1 DEF Accept, FirstPhase
<1>2. ASSUME NEW t \in ServerConns \cup ControllerConns,
             CheckSerID(t) \/ ReadUsrID(t)
      PROVE Announced'
  <2>1. CASE CheckSerID(t) BY <2>1 DEF CheckSerID
  <2>2. CASE ReadUsrID(t) BY <2>2 DEF ReadUsrID
  <2> QED BY <1>2, <2>1, <2>2
<1>3. ASSUME NEW s \in ServerConns, ServerStep(s) PROVE Announced'
  <2>1. CASE ServerConstruct(s) BY <2>1 DEF ServerConstruct
  <2>2. CASE ServerGreet(s) BY <2>2 DEF ServerGreet
  <2>3. CASE ServerReadEnds(s) BY <2>3 DEF ServerReadEnds
  <2>4. CASE DestroyLock(s) BY <2>4 DEF DestroyLock, Lock
  <2>5. CASE DestroyShutdown(s) BY <2>5 DEF DestroyShutdown
  <2>6. CASE DestroyWait(s) BY <2>6 DEF DestroyWait
  <2>7. CASE DestroyErase(s) BY <2>7 DEF DestroyErase, Unlock
  <2> QED BY <1>3, <2>1, <2>2, <2>3, <2>4, <2>5, <2>6, <2>7 DEF ServerStep
<1>4. ASSUME NEW c \in ControllerConns, ControllerStep(c) PROVE Announced'
  <2>1. CASE ControllerConstruct(c) BY <2>1 DEF ControllerConstruct, Lock
  <2>2. CASE ControllerForbidden(c) BY <2>2 DEF ControllerForbidden
  <2>3. CASE ControllerAttach(c) BY <2>3 DEF ControllerAttach
  <2>4. CASE ControllerLeave(c) BY <2>4 DEF ControllerLeave
  <2> QED BY <1>4, <2>1, <2>2, <2>3, <2>4 DEF ControllerStep
<1>5. ASSUME NEW w \in TerminalConns, TerminalStep(w) PROVE Announced'
  <2>1. CASE TerminalBusy(w) BY <2>1 DEF TerminalBusy
  <2>2. CASE TerminalUnlock(w) BY <2>2 DEF TerminalUnlock, Unlock
  <2>3. CASE TerminalCheck(w) BY <2>3 DEF TerminalCheck, Lock, checkID
  <2>7. CASE TerminalLookup(w) BY <2>7 DEF TerminalLookup
  <2>4. CASE TerminalAttach(w) BY <2>4 DEF TerminalAttach
  <2>5. CASE TerminalLeave(w) BY <2>5 DEF TerminalLeave
  <2>6. CASE TerminalRemove(w) BY <2>6 DEF TerminalRemove
  <2> QED BY <1>5, <2>1, <2>2, <2>3, <2>4, <2>5, <2>6, <2>7 DEF TerminalStep
<1>6. ASSUME NEW c \in Clients,
             ClientStart(c) \/ ClientForward(c) \/ ForwardEnds(c) \/ ClientReadEnds(c)
      PROVE Announced'
  <2>1. CASE ClientStart(c) BY <2>1 DEF ClientStart, Unlock
  <2>2. CASE ClientForward(c) BY <2>2 DEF ClientForward
  <2>3. CASE ForwardEnds(c) BY <2>3 DEF ForwardEnds
  <2>4. CASE ClientReadEnds(c) BY <2>4 DEF ClientReadEnds
  <2> QED BY <1>6, <2>1, <2>2, <2>3, <2>4
<1>7. CASE Restart BY <1>7 DEF Restart
<1>8. CASE UNCHANGED vars BY <1>8 DEF vars
<1> QED BY <1>1, <1>2, <1>3, <1>4, <1>5, <1>6, <1>7, <1>8 DEF Next

\* A long section of SerMutex is entered by taking the lock and left by
\* releasing it, and only terminalAccess releases what it does not own.
LEMMA OwnerStep ==
  TypeOK /\ SerMutexOwner /\ [Next]_vars => SerMutexOwner'
<1> SUFFICES ASSUME TypeOK, SerMutexOwner, [Next]_vars PROVE SerMutexOwner'
  OBVIOUS
<1> USE ConnAssumption DEF TypeOK, Conns, Clients, identity, lists, Goto, HangUp, Detach,
           Fail, SerMutexOwner, InSection, Destroying
<1>1. ASSUME NEW t \in Conns, Accept(t) PROVE SerMutexOwner'
  BY <1>1 DEF Accept, FirstPhase
<1>2. ASSUME NEW t \in ServerConns \cup ControllerConns,
             CheckSerID(t) \/ ReadUsrID(t)
      PROVE SerMutexOwner'
  <2>1. CASE CheckSerID(t) BY <2>1 DEF CheckSerID
  <2>2. CASE ReadUsrID(t) BY <2>2 DEF ReadUsrID
  <2> QED BY <1>2, <2>1, <2>2
<1>3. ASSUME NEW s \in ServerConns, ServerStep(s) PROVE SerMutexOwner'
  <2>1. CASE ServerConstruct(s) BY <2>1 DEF ServerConstruct
  <2>2. CASE ServerGreet(s) BY <2>2 DEF ServerGreet
  <2>3. CASE ServerReadEnds(s) BY <2>3 DEF ServerReadEnds
  <2>4. CASE DestroyLock(s) BY <2>4 DEF DestroyLock, Lock
  <2>5. CASE DestroyShutdown(s) BY <2>5 DEF DestroyShutdown
  <2>6. CASE DestroyWait(s) BY <2>6 DEF DestroyWait
  <2>7. CASE DestroyErase(s) BY <2>7 DEF DestroyErase, Unlock
  <2> QED BY <1>3, <2>1, <2>2, <2>3, <2>4, <2>5, <2>6, <2>7 DEF ServerStep
<1>4. ASSUME NEW c \in ControllerConns, ControllerStep(c) PROVE SerMutexOwner'
  <2>1. CASE ControllerConstruct(c) BY <2>1 DEF ControllerConstruct, Lock
  <2>2. CASE ControllerForbidden(c) BY <2>2 DEF ControllerForbidden
  <2>3. CASE ControllerAttach(c) BY <2>3 DEF ControllerAttach
  <2>4. CASE ControllerLeave(c) BY <2>4 DEF ControllerLeave
  <2> QED BY <1>4, <2>1, <2>2, <2>3, <2>4 DEF ControllerStep
<1>5. ASSUME NEW w \in TerminalConns, TerminalStep(w) PROVE SerMutexOwner'
  <2>1. CASE TerminalBusy(w) BY <2>1 DEF TerminalBusy
  <2>2. CASE TerminalUnlock(w) BY <2>2 DEF TerminalUnlock, Unlock
  <2>3. CASE TerminalCheck(w) BY <2>3 DEF TerminalCheck, Lock, checkID
  <2>7. CASE TerminalLookup(w) BY <2>7 DEF TerminalLookup
  <2>4. CASE TerminalAttach(w) BY <2>4 DEF TerminalAttach
  <2>5. CASE TerminalLeave(w) BY <2>5 DEF TerminalLeave
  <2>6. CASE TerminalRemove(w) BY <2>6 DEF TerminalRemove
  <2> QED BY <1>5, <2>1, <2>2, <2>3, <2>4, <2>5, <2>6, <2>7 DEF TerminalStep
<1>6. ASSUME NEW c \in Clients,
             ClientStart(c) \/ ClientForward(c) \/ ForwardEnds(c) \/ ClientReadEnds(c)
      PROVE SerMutexOwner'
  <2>1. CASE ClientStart(c) BY <2>1 DEF ClientStart, Unlock
  <2>2. CASE ClientForward(c) BY <2>2 DEF ClientForward
  <2>3. CASE ForwardEnds(c) BY <2>3 DEF ForwardEnds
  <2>4. CASE ClientReadEnds(c) BY <2>4 DEF ClientReadEnds
  <2> QED BY <1>6, <2>1, <2>2, <2>3, <2>4
<1>7. CASE Restart BY <1>7 DEF Restart
<1>8. CASE UNCHANGED vars BY <1>8 DEF vars
<1> QED BY <1>1, <1>2, <1>3, <1>4, <1>5, <1>6, <1>7, <1>8 DEF Next

\* An entry is made by a constructor and erased, whoever it holds, before the
\* Server it is keyed by ceases to exist.
LEMMA EntryStep ==
  TypeOK /\ Announced /\ NoDanglingEntry /\ [Next]_vars => NoDanglingEntry'
<1> SUFFICES ASSUME TypeOK, Announced, NoDanglingEntry, [Next]_vars PROVE NoDanglingEntry'
  OBVIOUS
<1> USE ConnAssumption DEF TypeOK, Conns, Clients, identity, lists, Goto, HangUp, Detach,
           Fail, Announced, NoDanglingEntry,
           Alive, AlivePhases
<1>1. ASSUME NEW t \in Conns, Accept(t) PROVE NoDanglingEntry'
  BY <1>1 DEF Accept, FirstPhase
<1>2. ASSUME NEW t \in ServerConns \cup ControllerConns,
             CheckSerID(t) \/ ReadUsrID(t)
      PROVE NoDanglingEntry'
  <2>1. CASE CheckSerID(t) BY <2>1 DEF CheckSerID
  <2>2. CASE ReadUsrID(t) BY <2>2 DEF ReadUsrID
  <2> QED BY <1>2, <2>1, <2>2
<1>3. ASSUME NEW s \in ServerConns, ServerStep(s) PROVE NoDanglingEntry'
  <2>1. CASE ServerConstruct(s) BY <2>1 DEF ServerConstruct
  <2>2. CASE ServerGreet(s) BY <2>2 DEF ServerGreet
  <2>3. CASE ServerReadEnds(s) BY <2>3 DEF ServerReadEnds
  <2>4. CASE DestroyLock(s) BY <2>4 DEF DestroyLock, Lock
  <2>5. CASE DestroyShutdown(s) BY <2>5 DEF DestroyShutdown
  <2>6. CASE DestroyWait(s) BY <2>6 DEF DestroyWait
  <2>7. CASE DestroyErase(s) BY <2>7 DEF DestroyErase, Unlock
  <2> QED BY <1>3, <2>1, <2>2, <2>3, <2>4, <2>5, <2>6, <2>7 DEF ServerStep
<1>4. ASSUME NEW c \in ControllerConns, ControllerStep(c) PROVE NoDanglingEntry'
  <2>1. CASE ControllerConstruct(c) BY <2>1 DEF ControllerConstruct, Lock
  <2>2. CASE ControllerForbidden(c) BY <2>2 DEF ControllerForbidden
  <2>3. CASE ControllerAttach(c) BY <2>3 DEF ControllerAttach
  <2>4. CASE ControllerLeave(c) BY <2>4 DEF ControllerLeave
  <2> QED BY <1>4, <2>1, <2>2, <2>3, <2>4 DEF ControllerStep
<1>5. ASSUME NEW w \in TerminalConns, TerminalStep(w) PROVE NoDanglingEntry'
  <2>1. CASE TerminalBusy(w) BY <2>1 DEF TerminalBusy
  <2>2. CASE TerminalUnlock(w) BY <2>2 DEF TerminalUnlock, Unlock
  <2>3. CASE TerminalCheck(w) BY <2>3 DEF TerminalCheck, Lock, checkID
  <2>7. CASE TerminalLookup(w) BY <2>7 DEF TerminalLookup
  <2>4. CASE TerminalAttach(w) BY <2>4 DEF TerminalAttach
  <2>5. CASE TerminalLeave(w) BY <2>5 DEF TerminalLeave
  <2>6. CASE TerminalRemove(w) BY <2>6 DEF TerminalRemove
  <2> QED BY <1>5, <2>1, <2>2, <2>3, <2>4, <2>5, <2>6, <2>7 DEF TerminalStep
<1>6. ASSUME NEW c \in Clients,
             ClientStart(c) \/ ClientForward(c) \/ ForwardEnds(c) \/ ClientReadEnds(c)
      PROVE NoDanglingEntry'
  <2>1. CASE ClientStart(c) BY <2>1 DEF ClientStart, Unlock
  <2>2. CASE ClientForward(c) BY <2>2 DEF ClientForward
  <2>3. CASE ForwardEnds(c) BY <2>3 DEF ForwardEnds
  <2>4. CASE ClientReadEnds(c) BY <2>4 DEF ClientReadEnds
  <2> QED BY <1>6, <2>1, <2>2, <2>3, <2>4
<1>7. CASE Restart BY <1>7 DEF Restart
<1>8. CASE UNCHANGED vars BY <1>8 DEF vars
<1> QED BY <1>1, <1>2, <1>3, <1>4, <1>5, <1>6, <1>7, <1>8 DEF Next

\* A pointer is taken from the registry, so to a Server that exists, and the
\* slot is not taken again before the pointer is gone.
LEMMA SlotStep ==
  TypeOK /\ Announced /\ NoDanglingEntry /\ SlotKept /\ [Next]_vars => SlotKept'
<1> SUFFICES ASSUME TypeOK, Announced, NoDanglingEntry, SlotKept, [Next]_vars
             PROVE  SlotKept'
  OBVIOUS
<1> USE ConnAssumption DEF TypeOK, Conns, Clients, identity, lists, Goto, HangUp, Detach,
           Fail, Announced, NoDanglingEntry,
           SlotKept, Alive, AlivePhases
<1>1. ASSUME NEW t \in Conns, Accept(t) PROVE SlotKept'
  BY <1>1 DEF Accept, FirstPhase
<1>2. ASSUME NEW t \in ServerConns \cup ControllerConns,
             CheckSerID(t) \/ ReadUsrID(t)
      PROVE SlotKept'
  <2>1. CASE CheckSerID(t) BY <2>1 DEF CheckSerID
  <2>2. CASE ReadUsrID(t) BY <2>2 DEF ReadUsrID
  <2> QED BY <1>2, <2>1, <2>2
<1>3. ASSUME NEW s \in ServerConns, ServerStep(s) PROVE SlotKept'
  <2>1. CASE ServerConstruct(s) BY <2>1 DEF ServerConstruct
  <2>2. CASE ServerGreet(s) BY <2>2 DEF ServerGreet
  <2>3. CASE ServerReadEnds(s) BY <2>3 DEF ServerReadEnds
  <2>4. CASE DestroyLock(s) BY <2>4 DEF DestroyLock, Lock
  <2>5. CASE DestroyShutdown(s) BY <2>5 DEF DestroyShutdown
  <2>6. CASE DestroyWait(s) BY <2>6 DEF DestroyWait
  <2>7. CASE DestroyErase(s) BY <2>7 DEF DestroyErase, Unlock
  <2> QED BY <1>3, <2>1, <2>2, <2>3, <2>4, <2>5, <2>6, <2>7 DEF ServerStep
<1>4. ASSUME NEW c \in ControllerConns, ControllerStep(c) PROVE SlotKept'
  <2>1. CASE ControllerConstruct(c) BY <2>1 DEF ControllerConstruct, Lock
  <2>2. CASE ControllerForbidden(c) BY <2>2 DEF ControllerForbidden
  <2>3. CASE ControllerAttach(c) BY <2>3 DEF ControllerAttach
  <2>4. CASE ControllerLeave(c) BY <2>4 DEF ControllerLeave
  <2> QED BY <1>4, <2>1, <2>2, <2>3, <2>4 DEF ControllerStep
<1>5. ASSUME NEW w \in TerminalConns, TerminalStep(w) PROVE SlotKept'
  <2>1. CASE TerminalBusy(w) BY <2>1 DEF TerminalBusy
  <2>2. CASE TerminalUnlock(w) BY <2>2 DEF TerminalUnlock, Unlock
  <2>3. CASE TerminalCheck(w) BY <2>3 DEF TerminalCheck, Lock, checkID
  <2>7. CASE TerminalLookup(w) BY <2>7 DEF TerminalLookup
  <2>4. CASE TerminalAttach(w) BY <2>4 DEF TerminalAttach
  <2>5. CASE TerminalLeave(w) BY <2>5 DEF TerminalLeave
  <2>6. CASE TerminalRemove(w) BY <2>6 DEF TerminalRemove
  <2> QED BY <1>5, <2>1, <2>2, <2>3, <2>4, <2>5, <2>6, <2>7 DEF TerminalStep
<1>6. ASSUME NEW c \in Clients,
             ClientStart(c) \/ ClientForward(c) \/ ForwardEnds(c) \/ ClientReadEnds(c)
      PROVE SlotKept'
  <2>1. CASE ClientStart(c) BY <2>1 DEF ClientStart, Unlock
  <2>2. CASE ClientForward(c) BY <2>2 DEF ClientForward
  <2>3. CASE ForwardEnds(c) BY <2>3 DEF ForwardEnds
  <2>4. CASE ClientReadEnds(c) BY <2>4 DEF ClientReadEnds
  <2> QED BY <1>6, <2>1, <2>2, <2>3, <2>4
<1>7. CASE Restart BY <1>7 DEF Restart
<1>8. CASE UNCHANGED vars BY <1>8 DEF vars
<1> QED BY <1>1, <1>2, <1>3, <1>4, <1>5, <1>6, <1>7, <1>8 DEF Next

\* An action on the identity of a connection that nobody points to and that
\* points nowhere concerns no other pair.
LEMMA SameUserFrame ==
  ASSUME TypeOK, TypeOK', AttachedSameUser, NEW t \in Conns,
         foreignUnlock => foreignUnlock',
         \A o \in Conns : o # t => sid'[o] = sid[o] /\ uid'[o] = uid[o],
         \A c \in Clients : ser'[c] # None => ser'[c] = ser[c] /\ c # t,
         \A s \in ServerConns : Alive(s)' => Alive(s) /\ s # t
  PROVE  AttachedSameUser'
<1> SUFFICES ASSUME NEW c \in Clients, ser'[c] # None, Alive(ser[c])'
             PROVE  /\ sid'[c] = sid'[ser'[c]]
                    /\ c \in ControllerConns \/ ~foreignUnlock' => uid'[c] = uid'[ser'[c]]
  BY DEF AttachedSameUser, Alive
<1>1. ser'[c] = ser[c] /\ ser[c] \in ServerConns /\ c \in Conns /\ c # t
  BY DEF TypeOK, Clients, Conns
<1>2. Alive(ser[c]) /\ ser[c] # t /\ ser[c] \in Conns
  BY <1>1 DEF Alive, Conns
<1> QED BY <1>1, <1>2 DEF AttachedSameUser

\* An entry that was checked stays while the lock is held: an insert leaves it alone,
\* and a destructor that erases holds the lock itself.
LEMMA CheckStandsStep ==
  TypeOK /\ Announced /\ SerMutexOwner /\ NoDanglingEntry /\ CheckStands /\ [Next]_vars
    => CheckStands'
<1> SUFFICES ASSUME TypeOK, Announced, SerMutexOwner, NoDanglingEntry, CheckStands,
                    [Next]_vars
             PROVE  CheckStands'
  OBVIOUS
<1> USE ConnAssumption DEF TypeOK, Conns, Clients, identity, lists, Goto, HangUp, Detach,
           Fail, Announced, SerMutexOwner, NoDanglingEntry, CheckStands, checkID,
           InSection, Destroying, Alive, AlivePhases
<1>1. ASSUME NEW t \in Conns, Accept(t) PROVE CheckStands'
  BY <1>1 DEF Accept, FirstPhase
<1>2. ASSUME NEW t \in ServerConns \cup ControllerConns,
             CheckSerID(t) \/ ReadUsrID(t)
      PROVE CheckStands'
  <2>1. CASE CheckSerID(t) BY <2>1 DEF CheckSerID
  <2>2. CASE ReadUsrID(t) BY <2>2 DEF ReadUsrID
  <2> QED BY <1>2, <2>1, <2>2
<1>3. ASSUME NEW s \in ServerConns, ServerStep(s) PROVE CheckStands'
  <2>1. CASE ServerConstruct(s) BY <2>1 DEF ServerConstruct
  <2>2. CASE ServerGreet(s) BY <2>2 DEF ServerGreet
  <2>3. CASE ServerReadEnds(s) BY <2>3 DEF ServerReadEnds
  <2>4. CASE DestroyLock(s) BY <2>4 DEF DestroyLock, Lock
  <2>5. CASE DestroyShutdown(s) BY <2>5 DEF DestroyShutdown
  <2>6. CASE DestroyWait(s) BY <2>6 DEF DestroyWait
  <2>7. CASE DestroyErase(s) BY <2>7 DEF DestroyErase, Unlock
  <2> QED BY <1>3, <2>1, <2>2, <2>3, <2>4, <2>5, <2>6, <2>7 DEF ServerStep
<1>4. ASSUME NEW c \in ControllerConns, ControllerStep(c) PROVE CheckStands'
  <2>1. CASE ControllerConstruct(c) BY <2>1 DEF ControllerConstruct, Lock
  <2>2. CASE ControllerForbidden(c) BY <2>2 DEF ControllerForbidden
  <2>3. CASE ControllerAttach(c) BY <2>3 DEF ControllerAttach
  <2>4. CASE ControllerLeave(c) BY <2>4 DEF ControllerLeave
  <2> QED BY <1>4, <2>1, <2>2, <2>3, <2>4 DEF ControllerStep
<1>5. ASSUME NEW w \in TerminalConns, TerminalStep(w) PROVE CheckStands'
  <2>1. CASE TerminalBusy(w) BY <2>1 DEF TerminalBusy
  <2>2. CASE TerminalUnlock(w) BY <2>2 DEF TerminalUnlock, Unlock
  <2>3. CASE TerminalCheck(w) BY <2>3 DEF TerminalCheck, Lock, checkID
  <2>7. CASE TerminalLookup(w) BY <2>7 DEF TerminalLookup
  <2>4. CASE TerminalAttach(w) BY <2>4 DEF TerminalAttach
  <2>5. CASE TerminalLeave(w) BY <2>5 DEF TerminalLeave
  <2>6. CASE TerminalRemove(w) BY <2>6 DEF TerminalRemove
  <2> QED BY <1>5, <2>1, <2>2, <2>3, <2>4, <2>5, <2>6, <2>7 DEF TerminalStep
<1>6. ASSUME NEW c \in Clients,
             ClientStart(c) \/ ClientForward(c) \/ ForwardEnds(c) \/ ClientReadEnds(c)
      PROVE CheckStands'
  <2>1. CASE ClientStart(c) BY <2>1 DEF ClientStart, Unlock
  <2>2. CASE ClientForward(c) BY <2>2 DEF ClientForward
  <2>3. CASE ForwardEnds(c) BY <2>3 DEF ForwardEnds
  <2>4. CASE ClientReadEnds(c) BY <2>4 DEF ClientReadEnds
  <2> QED BY <1>6, <2>1, <2>2, <2>3, <2>4
<1>7. CASE Restart BY <1>7 DEF Restart
<1>8. CASE UNCHANGED vars BY <1>8 DEF vars
<1> QED BY <1>1, <1>2, <1>3, <1>4, <1>5, <1>6, <1>7, <1>8 DEF Next

\* A pointer is taken only where the users agree, or have agreed since the lock was
\* taken, and the ids and users of both ends stay the same until one of them is gone.
LEMMA SameUserStep ==
  TypeOK /\ Announced /\ NoDanglingEntry /\ SlotKept /\ CheckStands /\ AttachedSameUser
  /\ [Next]_vars => AttachedSameUser'
<1> SUFFICES ASSUME TypeOK, Announced, NoDanglingEntry, SlotKept, CheckStands,
                    AttachedSameUser, [Next]_vars
             PROVE  AttachedSameUser'
  OBVIOUS
<1> USE ConnAssumption DEF TypeOK, Conns, Clients, identity, lists, Goto, HangUp, Detach,
           Fail, Announced, NoDanglingEntry,
           SlotKept, AttachedSameUser, Alive, AlivePhases, Serving
<1>0. TypeOK' BY TypeStep
<1>1. ASSUME NEW t \in Conns, Accept(t) PROVE AttachedSameUser'
  <2>1. \A o \in Conns : o # t => sid'[o] = sid[o] /\ uid'[o] = uid[o]
    BY <1>1 DEF Accept
  <2>4. foreignUnlock => foreignUnlock' BY <1>1 DEF Accept
  <2>2. \A c \in Clients : ser'[c] # None => ser'[c] = ser[c] /\ c # t
    BY <1>1 DEF Accept
  <2>3. \A s \in ServerConns : Alive(s)' => Alive(s) /\ s # t
    BY <1>1 DEF Accept, FirstPhase
  <2> QED BY <1>0, <2>1, <2>2, <2>3, <2>4, SameUserFrame
<1>2. ASSUME NEW t \in ServerConns \cup ControllerConns,
             CheckSerID(t) \/ ReadUsrID(t)
      PROVE AttachedSameUser'
  <2>1. CASE CheckSerID(t)
    <3>1. \A o \in Conns : o # t => sid'[o] = sid[o] /\ uid'[o] = uid[o]
      BY <2>1 DEF CheckSerID
    <3>2. \A c \in Clients : ser'[c] # None => ser'[c] = ser[c] /\ c # t
      BY <2>1, <1>2 DEF CheckSerID
    <3>3. \A s \in ServerConns : Alive(s)' => Alive(s) /\ s # t
      BY <2>1 DEF CheckSerID
    <3>4. foreignUnlock => foreignUnlock' BY <2>1 DEF CheckSerID
    <3> QED BY <1>0, <3>1, <3>2, <3>3, <3>4, SameUserFrame
  <2>2. CASE ReadUsrID(t)
    <3>1. \A o \in Conns : o # t => sid'[o] = sid[o] /\ uid'[o] = uid[o]
      BY <2>2 DEF ReadUsrID
    <3>2. \A c \in Clients : ser'[c] # None => ser'[c] = ser[c] /\ c # t
      BY <2>2, <1>2 DEF ReadUsrID
    <3>3. \A s \in ServerConns : Alive(s)' => Alive(s) /\ s # t
      BY <2>2 DEF ReadUsrID
    <3>4. foreignUnlock => foreignUnlock' BY <2>2 DEF ReadUsrID
    <3> QED BY <1>0, <3>1, <3>2, <3>3, <3>4, SameUserFrame
  <2> QED BY <1>2, <2>1, <2>2
<1>3. ASSUME NEW s \in ServerConns, ServerStep(s) PROVE AttachedSameUser'
  <2>1. CASE ServerConstruct(s) BY <2>1 DEF ServerConstruct
  <2>2. CASE ServerGreet(s) BY <2>2 DEF ServerGreet
  <2>3. CASE ServerReadEnds(s) BY <2>3 DEF ServerReadEnds
  <2>4. CASE DestroyLock(s) BY <2>4 DEF DestroyLock, Lock
  <2>5. CASE DestroyShutdown(s) BY <2>5 DEF DestroyShutdown
  <2>6. CASE DestroyWait(s) BY <2>6 DEF DestroyWait
  <2>7. CASE DestroyErase(s) BY <2>7 DEF DestroyErase, Unlock
  <2> QED BY <1>3, <2>1, <2>2, <2>3, <2>4, <2>5, <2>6, <2>7 DEF ServerStep
<1>4. ASSUME NEW c \in ControllerConns, ControllerStep(c) PROVE AttachedSameUser'
  <2>1. CASE ControllerConstruct(c) BY <2>1 DEF ControllerConstruct, Lock
  <2>2. CASE ControllerForbidden(c) BY <2>2 DEF ControllerForbidden
  <2>3. CASE ControllerAttach(c) BY <2>3 DEF ControllerAttach
  <2>4. CASE ControllerLeave(c) BY <2>4 DEF ControllerLeave
  <2> QED BY <1>4, <2>1, <2>2, <2>3, <2>4 DEF ControllerStep
<1>5. ASSUME NEW w \in TerminalConns, TerminalStep(w) PROVE AttachedSameUser'
  <2>1. CASE TerminalBusy(w) BY <2>1 DEF TerminalBusy
  <2>2. CASE TerminalUnlock(w)
    <3>1. \A o \in Conns : o # w => sid'[o] = sid[o] /\ uid'[o] = uid[o]
      BY <2>2 DEF TerminalUnlock
    <3>2. \A c \in Clients : ser'[c] # None => ser'[c] = ser[c] /\ c # w
      BY <2>2, <1>2 DEF TerminalUnlock
    <3>3. \A s \in ServerConns : Alive(s)' => Alive(s) /\ s # w
      BY <2>2 DEF TerminalUnlock
    <3>4. foreignUnlock => foreignUnlock' BY <2>2 DEF TerminalUnlock
    <3> QED BY <1>0, <3>1, <3>2, <3>3, <3>4, SameUserFrame
  <2>3. CASE TerminalCheck(w)
    <3>1. CASE checkID(sid[w], uid[w]) BY <2>3, <3>1 DEF TerminalCheck
    <3>2. CASE ~checkID(sid[w], uid[w])
      <4>1. \A o \in Conns : o # w => sid'[o] = sid[o] /\ uid'[o] = uid[o]
        BY <2>3, <3>2 DEF TerminalCheck
      <4>2. \A c \in Clients : ser'[c] # None => ser'[c] = ser[c] /\ c # w
        BY <2>3, <3>2, <1>2 DEF TerminalCheck
      <4>3. \A s \in ServerConns : Alive(s)' => Alive(s) /\ s # w
        BY <2>3, <3>2 DEF TerminalCheck
      <4>4. foreignUnlock => foreignUnlock' BY <2>3 DEF TerminalCheck
      <4> QED BY <1>0, <4>1, <4>2, <4>3, <4>4, SameUserFrame
    <3> QED BY <3>1, <3>2
  <2>7. CASE TerminalLookup(w)
    <3>1. CASE SerList[sid[w]] = None BY <2>7, <3>1 DEF TerminalLookup
    <3>2. CASE SerList[sid[w]] # None
      <4>1. /\ SerList[sid[w]] \in ServerConns /\ sid[SerList[sid[w]]] = sid[w]
            /\ ~foreignUnlock => uid[SerList[sid[w]]] = uid[w]
        BY <2>7, <3>2 DEF TerminalLookup, CheckStands, checkID
      <4>2. /\ ser' = [ser EXCEPT ![w] = SerList[sid[w]]]
            /\ UNCHANGED <<sid, uid, foreignUnlock>>
            /\ \A o \in Conns : o # w => pc'[o] = pc[o]
        BY <2>7, <3>2 DEF TerminalLookup
      <4> QED BY <4>1, <4>2
    <3> QED BY <3>1, <3>2
  <2>4. CASE TerminalAttach(w) BY <2>4 DEF TerminalAttach
  <2>5. CASE TerminalLeave(w) BY <2>5 DEF TerminalLeave
  <2>6. CASE TerminalRemove(w) BY <2>6 DEF TerminalRemove
  <2> QED BY <1>5, <2>1, <2>2, <2>3, <2>4, <2>5, <2>6, <2>7 DEF TerminalStep
<1>6. ASSUME NEW c \in Clients,
             ClientStart(c) \/ ClientForward(c) \/ ForwardEnds(c) \/ ClientReadEnds(c)
      PROVE AttachedSameUser'
  <2>1. CASE ClientStart(c) BY <2>1 DEF ClientStart, Unlock
  <2>2. CASE ClientForward(c) BY <2>2 DEF ClientForward
  <2>3. CASE ForwardEnds(c) BY <2>3 DEF ForwardEnds
  <2>4. CASE ClientReadEnds(c) BY <2>4 DEF ClientReadEnds
  <2> QED BY <1>6, <2>1, <2>2, <2>3, <2>4
<1>7. CASE Restart BY <1>7 DEF Restart
<1>8. CASE UNCHANGED vars BY <1>8 DEF vars
<1> QED BY <1>1, <1>2, <1>3, <1>4, <1>5, <1>6, <1>7, <1>8 DEF Next

\* Controllers leave the list before their object goes; terminals that are shut
\* down stay listed, but only in a Server that will not look at the list again.
LEMMA ListingStep ==
  TypeOK /\ Announced /\ SlotKept /\ Listing /\ [Next]_vars
    => Listing'
<1> SUFFICES ASSUME TypeOK, Announced, SlotKept, Listing,
                    [Next]_vars
             PROVE  Listing'
  OBVIOUS
<1> USE ConnAssumption DEF TypeOK, Conns, Clients, identity, lists, Goto, HangUp,
           Detach, Fail, Announced, SlotKept, Listing, Serving, Alive,
           AlivePhases
<1>1. ASSUME NEW t \in Conns, Accept(t) PROVE Listing'
  BY <1>1 DEF Accept, FirstPhase
<1>2. ASSUME NEW t \in ServerConns \cup ControllerConns,
             CheckSerID(t) \/ ReadUsrID(t)
      PROVE Listing'
  <2>1. CASE CheckSerID(t)
    <3>1. UNCHANGED <<CTLList, WSList, ser, shut>> BY <2>1 DEF CheckSerID
    <3>2. /\ pc[t] = "checkID" /\ pc'[t] \in {"readUsr", "idle"}
          /\ \A o \in Conns : o # t => pc'[o] = pc[o]
      BY <2>1 DEF CheckSerID
    <3>3. \A s \in ServerConns :
            ~Alive(s)' => CTLList'[s] = {} /\ WSList'[s] = {}
      BY <3>1, <3>2
    <3>4. \A s \in ServerConns : \A d \in CTLList'[s] :
            ser'[d] = s /\ pc'[d] \in Serving
      BY <3>1, <3>2
    <3>5. \A s \in ServerConns : pc'[s] \notin {"waiting", "erase"} =>
            \A d \in WSList'[s] : ser'[d] = s /\ pc'[d] \in Serving
      BY <3>1, <3>2
    <3>6. \A d \in Clients : shut'[d] =>
            pc'[d] \in Serving /\ pc'[ser'[d]] \in {"waiting", "erase", "idle"}
      BY <3>1, <3>2
    <3> QED BY ONLY <3>3, <3>4, <3>5, <3>6 DEF Listing
  <2>2. CASE ReadUsrID(t)
    <3>1. UNCHANGED <<CTLList, WSList, ser, shut>> BY <2>2 DEF ReadUsrID
    <3>2. /\ pc[t] = "readUsr" /\ pc'[t] \in {"construct", "idle"}
          /\ \A o \in Conns : o # t => pc'[o] = pc[o]
      BY <2>2 DEF ReadUsrID
    <3>3. \A s \in ServerConns :
            ~Alive(s)' => CTLList'[s] = {} /\ WSList'[s] = {}
      BY <3>1, <3>2
    <3>4. \A s \in ServerConns : \A d \in CTLList'[s] :
            ser'[d] = s /\ pc'[d] \in Serving
      BY <3>1, <3>2
    <3>5. \A s \in ServerConns : pc'[s] \notin {"waiting", "erase"} =>
            \A d \in WSList'[s] : ser'[d] = s /\ pc'[d] \in Serving
      BY <3>1, <3>2
    <3>6. \A d \in Clients : shut'[d] =>
            pc'[d] \in Serving /\ pc'[ser'[d]] \in {"waiting", "erase", "idle"}
      BY <3>1, <3>2
    <3> QED BY ONLY <3>3, <3>4, <3>5, <3>6 DEF Listing
  <2> QED BY <1>2, <2>1, <2>2
<1>3. ASSUME NEW s \in ServerConns, ServerStep(s) PROVE Listing'
  <2>1. CASE ServerConstruct(s) BY <2>1 DEF ServerConstruct
  <2>2. CASE ServerGreet(s) BY <2>2 DEF ServerGreet
  <2>3. CASE ServerReadEnds(s) BY <2>3 DEF ServerReadEnds
  <2>4. CASE DestroyLock(s) BY <2>4 DEF DestroyLock, Lock
  <2>5. CASE DestroyShutdown(s) BY <2>5 DEF DestroyShutdown
  <2>6. CASE DestroyWait(s) BY <2>6 DEF DestroyWait
  <2>7. CASE DestroyErase(s) BY <2>7 DEF DestroyErase, Unlock
  <2> QED BY <1>3, <2>1, <2>2, <2>3, <2>4, <2>5, <2>6, <2>7 DEF ServerStep
<1>4. ASSUME NEW c \in ControllerConns, ControllerStep(c) PROVE Listing'
  <2>1. CASE ControllerConstruct(c) BY <2>1 DEF ControllerConstruct, Lock
  <2>2. CASE ControllerForbidden(c) BY <2>2 DEF ControllerForbidden
  <2>3. CASE ControllerAttach(c)
    <3>1. CASE ~Alive(ser[c]) BY <2>3, <3>1 DEF ControllerAttach
    <3>2. CASE Alive(ser[c])
      <4>0. /\ c \in Clients /\ ser[c] \in ServerConns /\ c \notin ServerConns
            /\ pc[c] = "attach" /\ pc'[c] = "start" /\ UNCHANGED <<ser, shut>>
            /\ \A o \in Conns : o # c => pc'[o] = pc[o]
        BY <2>3, <3>2 DEF ControllerAttach
      <4>1. \A s \in ServerConns :
              ~Alive(s)' => CTLList'[s] = {} /\ WSList'[s] = {}
        BY <2>3, <3>2, <4>0 DEF ControllerAttach
      <4>2. \A s \in ServerConns : \A d \in CTLList'[s] :
              ser'[d] = s /\ pc'[d] \in Serving
        BY <2>3, <3>2, <4>0 DEF ControllerAttach
      <4>3. \A s \in ServerConns : pc'[s] \notin {"waiting", "erase"} =>
              \A d \in WSList'[s] : ser'[d] = s /\ pc'[d] \in Serving
        BY <2>3, <3>2, <4>0 DEF ControllerAttach
      <4>4. \A d \in Clients : shut'[d] =>
              pc'[d] \in Serving /\ pc'[ser'[d]] \in {"waiting", "erase", "idle"}
        BY <4>0
      <4> QED BY ONLY <4>1, <4>2, <4>3, <4>4 DEF Listing
    <3> QED BY <3>1, <3>2
  <2>4. CASE ControllerLeave(c)
    <3>1. CASE ~Alive(ser[c]) BY <2>4, <3>1 DEF ControllerLeave
    <3>2. CASE Alive(ser[c])
      <4>0. c \in Clients /\ ser[c] \in ServerConns /\ c \notin ServerConns
        BY <2>4 DEF ControllerLeave
      <4>1. \A s \in ServerConns :
              ~Alive(s)' => CTLList'[s] = {} /\ WSList'[s] = {}
        BY <2>4, <3>2, <4>0 DEF ControllerLeave
      <4>2. \A s \in ServerConns : \A d \in CTLList'[s] :
              ser'[d] = s /\ pc'[d] \in Serving
        BY <2>4, <3>2, <4>0 DEF ControllerLeave
      <4>3. \A s \in ServerConns : pc'[s] \notin {"waiting", "erase"} =>
              \A d \in WSList'[s] : ser'[d] = s /\ pc'[d] \in Serving
        BY <2>4, <3>2, <4>0 DEF ControllerLeave
      <4>4. ASSUME NEW d \in Clients, shut'[d]
            PROVE  pc'[d] \in Serving /\ pc'[ser'[d]] \in {"waiting", "erase", "idle"}
        <5>1. d # c /\ shut[d] /\ ser'[d] = ser[d] /\ pc'[d] = pc[d]
          BY <2>4, <3>2, <4>0, <4>4 DEF ControllerLeave
        <5>2. ser[d] \in ServerConns /\ ser[d] # c
          BY <4>0, <5>1
        <5>3. pc'[ser[d]] = pc[ser[d]]
          BY <2>4, <3>2, <4>0, <5>2 DEF ControllerLeave
        <5> QED BY <5>1, <5>3
      <4> QED BY ONLY <4>1, <4>2, <4>3, <4>4 DEF Listing
    <3> QED BY <3>1, <3>2
  <2> QED BY <1>4, <2>1, <2>2, <2>3, <2>4 DEF ControllerStep
<1>5. ASSUME NEW w \in TerminalConns, TerminalStep(w) PROVE Listing'
  <2>1. CASE TerminalBusy(w) BY <2>1 DEF TerminalBusy
  <2>2. CASE TerminalUnlock(w) BY <2>2 DEF TerminalUnlock, Unlock
  <2>3. CASE TerminalCheck(w)
    <3>1. /\ w \in Clients /\ w \notin ServerConns /\ pc[w] = "tryLock"
          /\ UNCHANGED <<CTLList, WSList, shut, ser>>
          /\ \A o \in Conns : o # w => pc'[o] = pc[o]
      BY <2>3 DEF TerminalCheck
    <3> QED BY <3>1
  <2>7. CASE TerminalLookup(w)
    <3>1. UNCHANGED <<CTLList, WSList, shut>>
      BY <2>7 DEF TerminalLookup, Fail, lists
    <3>2. CASE UNCHANGED <<pc, ser>>
      BY <3>1, <3>2
    <3>3. CASE /\ w \in Clients /\ w \notin ServerConns /\ pc[w] = "lookup"
               /\ \A o \in Conns : o # w => pc'[o] = pc[o]
               /\ \A d \in Clients : d # w => ser'[d] = ser[d]
      BY <3>1, <3>3
    <3> QED BY <2>7, <3>2, <3>3 DEF TerminalLookup, Fail
  <2>4. CASE TerminalAttach(w)
    <3>1. CASE ~Alive(ser[w]) BY <2>4, <3>1 DEF TerminalAttach
    <3>2. CASE Alive(ser[w])
      <4>0. /\ w \in Clients /\ ser[w] \in ServerConns /\ w \notin ServerConns
            /\ pc[w] = "attach" /\ pc'[w] = "start" /\ UNCHANGED <<ser, shut>>
            /\ \A o \in Conns : o # w => pc'[o] = pc[o]
        BY <2>4, <3>2 DEF TerminalAttach
      <4>1. \A s \in ServerConns :
              ~Alive(s)' => CTLList'[s] = {} /\ WSList'[s] = {}
        BY <2>4, <3>2, <4>0 DEF TerminalAttach
      <4>2. \A s \in ServerConns : \A d \in CTLList'[s] :
              ser'[d] = s /\ pc'[d] \in Serving
        BY <2>4, <3>2, <4>0 DEF TerminalAttach
      <4>3. \A s \in ServerConns : pc'[s] \notin {"waiting", "erase"} =>
              \A d \in WSList'[s] : ser'[d] = s /\ pc'[d] \in Serving
        BY <2>4, <3>2, <4>0 DEF TerminalAttach
      <4>4. \A d \in Clients : shut'[d] =>
              pc'[d] \in Serving /\ pc'[ser'[d]] \in {"waiting", "erase", "idle"}
        BY <4>0
      <4> QED BY ONLY <4>1, <4>2, <4>3, <4>4 DEF Listing
    <3> QED BY <3>1, <3>2
  <2>5. CASE TerminalLeave(w)
    <3>0. /\ w \in Clients /\ w \notin ServerConns /\ pc[w] = "leaving"
          /\ UNCHANGED <<CTLList, WSList>> /\ w \notin ControllerConns
          /\ \A o \in Conns : o # w => pc'[o] = pc[o]
          /\ \A d \in Clients : d # w => ser'[d] = ser[d] /\ shut'[d] = shut[d]
      BY <2>5 DEF TerminalLeave
    <3>1. CASE ~shut[w]
      <4>1. UNCHANGED <<ser, shut>> /\ pc'[w] = "removing"
        BY <2>5, <3>1 DEF TerminalLeave
      <4> QED BY <3>0, <4>1, SMTT(30)
    <3>2. CASE shut[w]
      <4>1. ~shut'[w] /\ pc'[w] = "idle"
        BY <2>5, <3>0, <3>2 DEF TerminalLeave
      <4>2. ser[w] \in ServerConns /\ pc[ser[w]] \in {"waiting", "erase", "idle"}
        BY <3>0, <3>2
      <4>3. \A s \in ServerConns :
              ~Alive(s)' => CTLList'[s] = {} /\ WSList'[s] = {}
        BY <3>0
      <4>4. \A s \in ServerConns : \A d \in CTLList'[s] :
              ser'[d] = s /\ pc'[d] \in Serving
        BY <3>0
      <4>5. ASSUME NEW s \in ServerConns, pc'[s] \notin {"waiting", "erase"},
                   NEW d \in WSList'[s]
            PROVE  ser'[d] = s /\ pc'[d] \in Serving
        <5>1. pc[s] \notin {"waiting", "erase"} /\ d \in WSList[s] /\ d \in Clients
          BY <3>0, <4>5
        <5>2. ser[d] = s /\ pc[d] \in Serving
          BY <5>1
        <5>3. d # w
          BY <4>2, <5>1, <5>2
        <5> QED BY <3>0, <5>1, <5>2, <5>3
      <4>6. \A d \in Clients : shut'[d] =>
              pc'[d] \in Serving /\ pc'[ser'[d]] \in {"waiting", "erase", "idle"}
        BY <3>0, <4>1
      <4> QED BY ONLY <4>3, <4>4, <4>5, <4>6 DEF Listing
    <3> QED BY <3>1, <3>2
  <2>6. CASE TerminalRemove(w)
    <3>1. CASE ~Alive(ser[w]) BY <2>6, <3>1 DEF TerminalRemove
    <3>2. CASE Alive(ser[w])
      <4>0. w \in Clients /\ ser[w] \in ServerConns /\ w \notin ServerConns
        BY <2>6 DEF TerminalRemove
      <4>1. \A s \in ServerConns :
              ~Alive(s)' => CTLList'[s] = {} /\ WSList'[s] = {}
        BY <2>6, <3>2, <4>0 DEF TerminalRemove
      <4>2. \A s \in ServerConns : \A d \in CTLList'[s] :
              ser'[d] = s /\ pc'[d] \in Serving
        BY <2>6, <3>2, <4>0 DEF TerminalRemove
      <4>3. \A s \in ServerConns : pc'[s] \notin {"waiting", "erase"} =>
              \A d \in WSList'[s] : ser'[d] = s /\ pc'[d] \in Serving
        BY <2>6, <3>2, <4>0 DEF TerminalRemove
      <4>4. ASSUME NEW d \in Clients, shut'[d]
            PROVE  pc'[d] \in Serving /\ pc'[ser'[d]] \in {"waiting", "erase", "idle"}
        <5>1. d # w /\ shut[d] /\ ser'[d] = ser[d] /\ pc'[d] = pc[d]
          BY <2>6, <3>2, <4>0, <4>4 DEF TerminalRemove
        <5>2. ser[d] \in ServerConns /\ ser[d] # w
          BY <4>0, <5>1
        <5>3. pc'[ser[d]] = pc[ser[d]]
          BY <2>6, <3>2, <4>0, <5>2 DEF TerminalRemove
        <5> QED BY <5>1, <5>3
      <4> QED BY ONLY <4>1, <4>2, <4>3, <4>4 DEF Listing
    <3> QED BY <3>1, <3>2
  <2> QED BY <1>5, <2>1, <2>2, <2>3, <2>4, <2>5, <2>6, <2>7 DEF TerminalStep
<1>6. ASSUME NEW c \in Clients,
             ClientStart(c) \/ ClientForward(c) \/ ForwardEnds(c) \/ ClientReadEnds(c)
      PROVE Listing'
  <2>1. CASE ClientStart(c) BY <2>1 DEF ClientStart, Unlock
  <2>2. CASE ClientForward(c) BY <2>2 DEF ClientForward
  <2>3. CASE ForwardEnds(c) BY <2>3 DEF ForwardEnds
  <2>4. CASE ClientReadEnds(c) BY <2>4 DEF ClientReadEnds
  <2> QED BY <1>6, <2>1, <2>2, <2>3, <2>4
<1>7. CASE Restart BY <1>7 DEF Restart
<1>8. CASE UNCHANGED vars BY <1>8 DEF vars
<1> QED BY <1>1, <1>2, <1>3, <1>4, <1>5, <1>6, <1>7, <1>8 DEF Next

\* While the destructor owns SerMutex nobody is added to its lists, so a list
\* that was empty when it stopped waiting is empty when the object goes.
LEMMA DrainStep ==
  TypeOK /\ SerMutexOwner /\ HalfDrained /\ [Next]_vars
    => HalfDrained'
<1> SUFFICES ASSUME TypeOK, SerMutexOwner, HalfDrained,
                    [Next]_vars
             PROVE  HalfDrained'
  OBVIOUS
<1> USE ConnAssumption DEF TypeOK, Conns, Clients, identity, lists, Goto, HangUp,
           Detach, Fail, SerMutexOwner, HalfDrained, InSection, Destroying
<1>1. ASSUME NEW t \in Conns, Accept(t) PROVE HalfDrained'
  BY <1>1 DEF Accept, FirstPhase
<1>2. ASSUME NEW t \in ServerConns \cup ControllerConns,
             CheckSerID(t) \/ ReadUsrID(t)
      PROVE HalfDrained'
  <2>1. CASE CheckSerID(t) BY <2>1 DEF CheckSerID
  <2>2. CASE ReadUsrID(t) BY <2>2 DEF ReadUsrID
  <2> QED BY <1>2, <2>1, <2>2
<1>3. ASSUME NEW s \in ServerConns, ServerStep(s) PROVE HalfDrained'
  <2>1. CASE ServerConstruct(s) BY <2>1 DEF ServerConstruct
  <2>2. CASE ServerGreet(s) BY <2>2 DEF ServerGreet
  <2>3. CASE ServerReadEnds(s) BY <2>3 DEF ServerReadEnds
  <2>4. CASE DestroyLock(s) BY <2>4 DEF DestroyLock, Lock
  <2>5. CASE DestroyShutdown(s) BY <2>5 DEF DestroyShutdown
  <2>6. CASE DestroyWait(s) BY <2>6 DEF DestroyWait
  <2>7. CASE DestroyErase(s) BY <2>7 DEF DestroyErase, Unlock
  <2> QED BY <1>3, <2>1, <2>2, <2>3, <2>4, <2>5, <2>6, <2>7 DEF ServerStep
<1>4. ASSUME NEW c \in ControllerConns, ControllerStep(c) PROVE HalfDrained'
  <2>1. CASE ControllerConstruct(c) BY <2>1 DEF ControllerConstruct, Lock
  <2>2. CASE ControllerForbidden(c) BY <2>2 DEF ControllerForbidden
  <2>3. CASE ControllerAttach(c) BY <2>3 DEF ControllerAttach
  <2>4. CASE ControllerLeave(c) BY <2>4 DEF ControllerLeave
  <2> QED BY <1>4, <2>1, <2>2, <2>3, <2>4 DEF ControllerStep
<1>5. ASSUME NEW w \in TerminalConns, TerminalStep(w) PROVE HalfDrained'
  <2>1. CASE TerminalBusy(w) BY <2>1 DEF TerminalBusy
  <2>2. CASE TerminalUnlock(w) BY <2>2 DEF TerminalUnlock, Unlock
  <2>3. CASE TerminalCheck(w) BY <2>3 DEF TerminalCheck, Lock, checkID
  <2>7. CASE TerminalLookup(w) BY <2>7 DEF TerminalLookup
  <2>4. CASE TerminalAttach(w) BY <2>4 DEF TerminalAttach
  <2>5. CASE TerminalLeave(w) BY <2>5 DEF TerminalLeave
  <2>6. CASE TerminalRemove(w) BY <2>6 DEF TerminalRemove
  <2> QED BY <1>5, <2>1, <2>2, <2>3, <2>4, <2>5, <2>6, <2>7 DEF TerminalStep
<1>6. ASSUME NEW c \in Clients,
             ClientStart(c) \/ ClientForward(c) \/ ForwardEnds(c) \/ ClientReadEnds(c)
      PROVE HalfDrained'
  <2>1. CASE ClientStart(c) BY <2>1 DEF ClientStart, Unlock
  <2>2. CASE ClientForward(c) BY <2>2 DEF ClientForward
  <2>3. CASE ForwardEnds(c) BY <2>3 DEF ForwardEnds
  <2>4. CASE ClientReadEnds(c) BY <2>4 DEF ClientReadEnds
  <2> QED BY <1>6, <2>1, <2>2, <2>3, <2>4
<1>7. CASE Restart BY <1>7 DEF Restart
<1>8. CASE UNCHANGED vars BY <1>8 DEF vars
<1> QED BY <1>1, <1>2, <1>3, <1>4, <1>5, <1>6, <1>7, <1>8 DEF Next

\* Adding takes the lock that the destructor owns, so nobody is added late.
LEMMA LateAttachStep ==
  TypeOK /\ SerMutexOwner /\ [Next]_vars
    => NoAdd
<1> SUFFICES ASSUME TypeOK, SerMutexOwner,
                    [Next]_vars
             PROVE  NoAdd
  OBVIOUS
<1> USE ConnAssumption DEF TypeOK, Conns, Clients, identity, lists, Goto, HangUp,
           Detach, Fail, SerMutexOwner, InSection, Destroying, NoAdd
<1>1. ASSUME NEW t \in Conns, Accept(t) PROVE NoAdd
  BY <1>1 DEF Accept, FirstPhase
<1>2. ASSUME NEW t \in ServerConns \cup ControllerConns,
             CheckSerID(t) \/ ReadUsrID(t)
      PROVE NoAdd
  <2>1. CASE CheckSerID(t) BY <2>1 DEF CheckSerID
  <2>2. CASE ReadUsrID(t) BY <2>2 DEF ReadUsrID
  <2> QED BY <1>2, <2>1, <2>2
<1>3. ASSUME NEW s \in ServerConns, ServerStep(s) PROVE NoAdd
  <2>1. CASE ServerConstruct(s) BY <2>1 DEF ServerConstruct
  <2>2. CASE ServerGreet(s) BY <2>2 DEF ServerGreet
  <2>3. CASE ServerReadEnds(s) BY <2>3 DEF ServerReadEnds
  <2>4. CASE DestroyLock(s) BY <2>4 DEF DestroyLock, Lock
  <2>5. CASE DestroyShutdown(s) BY <2>5 DEF DestroyShutdown
  <2>6. CASE DestroyWait(s) BY <2>6 DEF DestroyWait
  <2>7. CASE DestroyErase(s) BY <2>7 DEF DestroyErase, Unlock
  <2> QED BY <1>3, <2>1, <2>2, <2>3, <2>4, <2>5, <2>6, <2>7 DEF ServerStep
<1>4. ASSUME NEW c \in ControllerConns, ControllerStep(c) PROVE NoAdd
  <2>1. CASE ControllerConstruct(c) BY <2>1 DEF ControllerConstruct, Lock
  <2>2. CASE ControllerForbidden(c) BY <2>2 DEF ControllerForbidden
  <2>3. CASE ControllerAttach(c) BY <2>3 DEF ControllerAttach
  <2>4. CASE ControllerLeave(c) BY <2>4 DEF ControllerLeave
  <2> QED BY <1>4, <2>1, <2>2, <2>3, <2>4 DEF ControllerStep
<1>5. ASSUME NEW w \in TerminalConns, TerminalStep(w) PROVE NoAdd
  <2>1. CASE TerminalBusy(w) BY <2>1 DEF TerminalBusy
  <2>2. CASE TerminalUnlock(w) BY <2>2 DEF TerminalUnlock, Unlock
  <2>3. CASE TerminalCheck(w) BY <2>3 DEF TerminalCheck, Lock, checkID
  <2>7. CASE TerminalLookup(w) BY <2>7 DEF TerminalLookup
  <2>4. CASE TerminalAttach(w) BY <2>4 DEF TerminalAttach
  <2>5. CASE TerminalLeave(w) BY <2>5 DEF TerminalLeave
  <2>6. CASE TerminalRemove(w) BY <2>6 DEF TerminalRemove
  <2> QED BY <1>5, <2>1, <2>2, <2>3, <2>4, <2>5, <2>6, <2>7 DEF TerminalStep
<1>6. ASSUME NEW c \in Clients,
             ClientStart(c) \/ ClientForward(c) \/ ForwardEnds(c) \/ ClientReadEnds(c)
      PROVE NoAdd
  <2>1. CASE ClientStart(c) BY <2>1 DEF ClientStart, Unlock
  <2>2. CASE ClientForward(c) BY <2>2 DEF ClientForward
  <2>3. CASE ForwardEnds(c) BY <2>3 DEF ForwardEnds
  <2>4. CASE ClientReadEnds(c) BY <2>4 DEF ClientReadEnds
  <2> QED BY <1>6, <2>1, <2>2, <2>3, <2>4
<1>7. CASE Restart BY <1>7 DEF Restart
<1>8. CASE UNCHANGED vars BY <1>8 DEF vars
<1> QED BY <1>1, <1>2, <1>3, <1>4, <1>5, <1>6, <1>7, <1>8 DEF Next

\* insert leaves an entry alone, so entries only go with a destructor, which
\* erases the id of its own Server.
LEMMA EraseStep ==
  TypeOK /\ Announced /\ [Next]_vars
    => ErasedByNamesake
<1> SUFFICES ASSUME TypeOK, Announced,
                    [Next]_vars
             PROVE  ErasedByNamesake
  OBVIOUS
<1> USE ConnAssumption DEF TypeOK, Conns, Clients, identity, lists, Goto, HangUp,
           Detach, Fail, Announced, Running, ErasedByNamesake
<1>1. ASSUME NEW t \in Conns, Accept(t) PROVE ErasedByNamesake
  BY <1>1 DEF Accept, FirstPhase
<1>2. ASSUME NEW t \in ServerConns \cup ControllerConns,
             CheckSerID(t) \/ ReadUsrID(t)
      PROVE ErasedByNamesake
  <2>1. CASE CheckSerID(t) BY <2>1 DEF CheckSerID
  <2>2. CASE ReadUsrID(t) BY <2>2 DEF ReadUsrID
  <2> QED BY <1>2, <2>1, <2>2
<1>3. ASSUME NEW s \in ServerConns, ServerStep(s) PROVE ErasedByNamesake
  <2>1. CASE ServerConstruct(s) BY <2>1 DEF ServerConstruct
  <2>2. CASE ServerGreet(s) BY <2>2 DEF ServerGreet
  <2>3. CASE ServerReadEnds(s) BY <2>3 DEF ServerReadEnds
  <2>4. CASE DestroyLock(s) BY <2>4 DEF DestroyLock, Lock
  <2>5. CASE DestroyShutdown(s) BY <2>5 DEF DestroyShutdown
  <2>6. CASE DestroyWait(s) BY <2>6 DEF DestroyWait
  <2>7. CASE DestroyErase(s) BY <2>7 DEF DestroyErase, Unlock
  <2> QED BY <1>3, <2>1, <2>2, <2>3, <2>4, <2>5, <2>6, <2>7 DEF ServerStep
<1>4. ASSUME NEW c \in ControllerConns, ControllerStep(c) PROVE ErasedByNamesake
  <2>1. CASE ControllerConstruct(c) BY <2>1 DEF ControllerConstruct, Lock
  <2>2. CASE ControllerForbidden(c) BY <2>2 DEF ControllerForbidden
  <2>3. CASE ControllerAttach(c) BY <2>3 DEF ControllerAttach
  <2>4. CASE ControllerLeave(c) BY <2>4 DEF ControllerLeave
  <2> QED BY <1>4, <2>1, <2>2, <2>3, <2>4 DEF ControllerStep
<1>5. ASSUME NEW w \in TerminalConns, TerminalStep(w) PROVE ErasedByNamesake
  <2>1. CASE TerminalBusy(w) BY <2>1 DEF TerminalBusy
  <2>2. CASE TerminalUnlock(w) BY <2>2 DEF TerminalUnlock, Unlock
  <2>3. CASE TerminalCheck(w) BY <2>3 DEF TerminalCheck, Lock, checkID
  <2>7. CASE TerminalLookup(w) BY <2>7 DEF TerminalLookup
  <2>4. CASE TerminalAttach(w) BY <2>4 DEF TerminalAttach
  <2>5. CASE TerminalLeave(w) BY <2>5 DEF TerminalLeave
  <2>6. CASE TerminalRemove(w) BY <2>6 DEF TerminalRemove
  <2> QED BY <1>5, <2>1, <2>2, <2>3, <2>4, <2>5, <2>6, <2>7 DEF TerminalStep
<1>6. ASSUME NEW c \in Clients,
             ClientStart(c) \/ ClientForward(c) \/ ForwardEnds(c) \/ ClientReadEnds(c)
      PROVE ErasedByNamesake
  <2>1. CASE ClientStart(c) BY <2>1 DEF ClientStart, Unlock
  <2>2. CASE ClientForward(c) BY <2>2 DEF ClientForward
  <2>3. CASE ForwardEnds(c) BY <2>3 DEF ForwardEnds
  <2>4. CASE ClientReadEnds(c) BY <2>4 DEF ClientReadEnds
  <2> QED BY <1>6, <2>1, <2>2, <2>3, <2>4
<1>7. CASE Restart BY <1>7 DEF Restart
<1>8. CASE UNCHANGED vars BY <1>8 DEF vars
<1> QED BY <1>1, <1>2, <1>3, <1>4, <1>5, <1>6, <1>7, <1>8 DEF Next

-----------------------------------------------------------------------------
(* The inductive invariant and what follows from it. *)

IndInv ==
  /\ TypeOK /\ Announced
  /\ SerMutexOwner
  /\ NoDanglingEntry
  /\ SlotKept /\ CheckStands /\ AttachedSameUser
  /\ Listing
  /\ HalfDrained

\* The manager starts without connections, entries or lock.
LEMMA InitInv == Init => IndInv
<1> SUFFICES ASSUME Init PROVE IndInv
  OBVIOUS
<1> USE ConnAssumption DEF Init, Conns, Clients
<1>1. TypeOK BY DEF TypeOK, ServerPhases, ClientPhases, Faults
<1>2. Announced BY DEF Announced, Serving
<1>3. SerMutexOwner BY DEF SerMutexOwner, InSection, Destroying
<1>4. NoDanglingEntry BY DEF NoDanglingEntry
<1>5. SlotKept /\ CheckStands /\ AttachedSameUser
  BY DEF SlotKept, CheckStands, AttachedSameUser
<1>6. Listing BY DEF Listing
<1>7. HalfDrained BY DEF HalfDrained
<1> QED BY <1>1, <1>2, <1>3, <1>4, <1>5, <1>6, <1>7 DEF IndInv

\* Every step of the system keeps the inductive invariant.
LEMMA StepInv == IndInv /\ [Next]_vars => IndInv'
  BY TypeStep, AnnouncedStep, OwnerStep, EntryStep, SlotStep, CheckStandsStep,
     SameUserStep, ListingStep, DrainStep DEF IndInv

\* The inductive invariant holds in every state of every behaviour.
THEOREM Invariance == Spec => []IndInv
<1>1. Init => IndInv BY InitInv
<1>2. IndInv /\ [Next]_vars => IndInv' BY StepInv
<1> QED BY <1>1, <1>2, PTL DEF Spec

\* Type correctness of the registry.
THEOREM TypeCorrect == Spec => []TypeOK
<1>1. IndInv => TypeOK BY DEF IndInv
<1> QED BY <1>1, Invariance, PTL

\* Without a foreign unlock, SerMutex is held by exactly the thread that is in
\* one of the long sections: a destructor, a Controller constructor or the
\* attaching part of terminalAccess.
THEOREM MutexOwned == Spec => []SerMutexOwner
<1>1. IndInv => SerMutexOwner BY DEF IndInv
<1> QED BY <1>1, Invariance, PTL

\* The registry never names a Server that is gone or that has another id,
\* however many servers announced the same id.
THEOREM NoDangling == Spec => []NoDanglingEntry
<1>1. IndInv => NoDanglingEntry BY DEF IndInv
<1> QED BY <1>1, Invariance, PTL

\* Whoever a Server broadcasts to points back at it and is still served.
THEOREM ClientsServed == Spec => []ListedClientsServed
<1>1. IndInv => ListedClientsServed
  BY ConnAssumption
     DEF IndInv, TypeOK, Listing, ListedClientsServed, Destroying, Clients
<1> QED BY <1>1, Invariance, PTL

\* A client only ever reaches a living Server of the id that it announced, and of its own
\* user; a terminal of the latter only as long as no stranger has unlocked SerMutex
\* between its check of the user and its second look into the registry.
THEOREM SameUser == Spec => []AttachedSameUser
<1>1. IndInv => AttachedSameUser BY DEF IndInv
<1> QED BY <1>1, Invariance, PTL

\* The destructor frees the object with at least one of its lists drained.
THEOREM Drained == Spec => []HalfDrained
<1>1. IndInv => HalfDrained BY DEF IndInv
<1> QED BY <1>1, Invariance, PTL

\* Nobody joins a Server that is being destroyed.
THEOREM NobodyLate == Spec => NoLateAttach
<1>1. IndInv /\ [Next]_vars => NoAdd BY LateAttachStep DEF IndInv
<1> QED BY <1>1, Invariance, PTL DEF Spec, NoLateAttach

\* An id leaves the registry only with the end of a Server of that id.
THEOREM ErasedWithNamesake == Spec => EntryErasedByNamesake
<1>1. IndInv /\ [Next]_vars => ErasedByNamesake BY EraseStep DEF IndInv
<1> QED BY <1>1, Invariance, PTL DEF Spec, EntryErasedByNamesake

-----------------------------------------------------------------------------
(* Why a section of SerMutex ends. *)

\* As long as no stranger has released the lock: a destructor that waits has shut down
\* every controller that is listed, and a Server to which a client is being added is
\* there.  No controller goes where a terminal does.
ShutDown ==
  ~foreignUnlock =>
    \A s \in ServerConns : pc[s] \in {"waiting", "erase"} => \A c \in CTLList[s] : shut[c]
AddedToLiving ==
  ~foreignUnlock => \A c \in Clients : pc[c] \in {"attach", "start"} => Alive(ser[c])
TerminalsOnly == \A c \in ControllerConns : pc[c] \notin {"lookup", "removing"}

\* Nobody is added after the shutdown, and a controller that goes is off the list.
LEMMA ShutDownStep ==
  TypeOK /\ SerMutexOwner /\ Listing /\ ShutDown /\ [Next]_vars => ShutDown'
<1> SUFFICES ASSUME TypeOK, SerMutexOwner, Listing, ShutDown, [Next]_vars PROVE ShutDown'
  OBVIOUS
<1> USE ConnAssumption DEF TypeOK, Conns, Clients, identity, lists, Goto, HangUp, Detach,
           Fail, SerMutexOwner, InSection, Destroying, ShutDown
<1>1. ASSUME NEW t \in Conns, Accept(t) PROVE ShutDown'
  BY <1>1 DEF Accept, FirstPhase
<1>2. ASSUME NEW t \in ServerConns \cup ControllerConns,
             CheckSerID(t) \/ ReadUsrID(t)
      PROVE ShutDown'
  <2>1. CASE CheckSerID(t) BY <2>1 DEF CheckSerID
  <2>2. CASE ReadUsrID(t) BY <2>2 DEF ReadUsrID
  <2> QED BY <1>2, <2>1, <2>2
<1>3. ASSUME NEW s \in ServerConns, ServerStep(s) PROVE ShutDown'
  <2>1. CASE ServerConstruct(s) BY <2>1 DEF ServerConstruct
  <2>2. CASE ServerGreet(s) BY <2>2 DEF ServerGreet
  <2>3. CASE ServerReadEnds(s) BY <2>3 DEF ServerReadEnds
  <2>4. CASE DestroyLock(s) BY <2>4 DEF DestroyLock, Lock
  <2>5. CASE DestroyShutdown(s) BY <2>5 DEF DestroyShutdown
  <2>6. CASE DestroyWait(s) BY <2>6 DEF DestroyWait
  <2>7. CASE DestroyErase(s) BY <2>7 DEF DestroyErase, Unlock
  <2> QED BY <1>3, <2>1, <2>2, <2>3, <2>4, <2>5, <2>6, <2>7 DEF ServerStep
<1>4. ASSUME NEW c \in ControllerConns, ControllerStep(c) PROVE ShutDown'
  <2>1. CASE ControllerConstruct(c) BY <2>1 DEF ControllerConstruct, Lock
  <2>2. CASE ControllerForbidden(c) BY <2>2 DEF ControllerForbidden
  <2>3. CASE ControllerAttach(c)
    <3>1. ~foreignUnlock => \A s \in ServerConns : pc[s] \notin Destroying
      BY <2>3 DEF ControllerAttach
    <3> QED BY <2>3, <3>1 DEF ControllerAttach
  <2>4. CASE ControllerLeave(c)
    <3>1. \A s \in ServerConns : s # ser[c] => c \notin CTLList[s]
      BY DEF Listing
    <3> QED BY <2>4, <3>1 DEF ControllerLeave
  <2> QED BY <1>4, <2>1, <2>2, <2>3, <2>4 DEF ControllerStep
<1>5. ASSUME NEW w \in TerminalConns, TerminalStep(w) PROVE ShutDown'
  <2>1. CASE TerminalBusy(w) BY <2>1 DEF TerminalBusy
  <2>2. CASE TerminalUnlock(w) BY <2>2 DEF TerminalUnlock, Unlock
  <2>3. CASE TerminalCheck(w) BY <2>3 DEF TerminalCheck, Lock, checkID
  <2>7. CASE TerminalLookup(w) BY <2>7 DEF TerminalLookup
  <2>4. CASE TerminalAttach(w) BY <2>4 DEF TerminalAttach
  <2>5. CASE TerminalLeave(w) BY <2>5 DEF TerminalLeave
  <2>6. CASE TerminalRemove(w) BY <2>6 DEF TerminalRemove
  <2> QED BY <1>5, <2>1, <2>2, <2>3, <2>4, <2>5, <2>6, <2>7 DEF TerminalStep
<1>6. ASSUME NEW c \in Clients,
             ClientStart(c) \/ ClientForward(c) \/ ForwardEnds(c) \/ ClientReadEnds(c)
      PROVE ShutDown'
  <2>1. CASE ClientStart(c) BY <2>1 DEF ClientStart, Unlock
  <2>2. CASE ClientForward(c) BY <2>2 DEF ClientForward
  <2>3. CASE ForwardEnds(c) BY <2>3 DEF ForwardEnds
  <2>4. CASE ClientReadEnds(c) BY <2>4 DEF ClientReadEnds
  <2> QED BY <1>6, <2>1, <2>2, <2>3, <2>4
<1>7. CASE Restart BY <1>7 DEF Restart
<1>8. CASE UNCHANGED vars BY <1>8 DEF vars
<1> QED BY <1>1, <1>2, <1>3, <1>4, <1>5, <1>6, <1>7, <1>8 DEF Next

\* A Server cannot go while the thread of somebody who is added has the lock.
LEMMA AddedStep ==
  TypeOK /\ Announced /\ SerMutexOwner /\ NoDanglingEntry /\ AddedToLiving /\ [Next]_vars
    => AddedToLiving'
<1> SUFFICES ASSUME TypeOK, Announced, SerMutexOwner, NoDanglingEntry, AddedToLiving,
                    [Next]_vars
             PROVE  AddedToLiving'
  OBVIOUS
<1> USE ConnAssumption DEF TypeOK, Conns, Clients, identity, lists, Goto, HangUp, Detach,
           Fail, Announced, SerMutexOwner, InSection, Destroying, Serving, Alive,
           AlivePhases, AddedToLiving
<1>1. ASSUME NEW t \in Conns, Accept(t) PROVE AddedToLiving'
  BY <1>1 DEF Accept, FirstPhase
<1>2. ASSUME NEW t \in ServerConns \cup ControllerConns,
             CheckSerID(t) \/ ReadUsrID(t)
      PROVE AddedToLiving'
  <2>1. CASE CheckSerID(t) BY <2>1 DEF CheckSerID
  <2>2. CASE ReadUsrID(t) BY <2>2 DEF ReadUsrID
  <2> QED BY <1>2, <2>1, <2>2
<1>3. ASSUME NEW s \in ServerConns, ServerStep(s) PROVE AddedToLiving'
  <2>1. CASE ServerConstruct(s) BY <2>1 DEF ServerConstruct
  <2>2. CASE ServerGreet(s) BY <2>2 DEF ServerGreet
  <2>3. CASE ServerReadEnds(s) BY <2>3 DEF ServerReadEnds
  <2>4. CASE DestroyLock(s) BY <2>4 DEF DestroyLock, Lock
  <2>5. CASE DestroyShutdown(s) BY <2>5 DEF DestroyShutdown
  <2>6. CASE DestroyWait(s) BY <2>6 DEF DestroyWait
  <2>7. CASE DestroyErase(s) BY <2>7 DEF DestroyErase, Unlock
  <2> QED BY <1>3, <2>1, <2>2, <2>3, <2>4, <2>5, <2>6, <2>7 DEF ServerStep
<1>4. ASSUME NEW c \in ControllerConns, ControllerStep(c) PROVE AddedToLiving'
  <2>1. CASE ControllerConstruct(c)
    <3>1. SerList[sid[c]] # None =>
            SerList[sid[c]] \in ServerConns /\ Alive(SerList[sid[c]])
      BY <2>1 DEF ControllerConstruct, NoDanglingEntry
    <3> QED BY <2>1, <3>1 DEF ControllerConstruct, Lock
  <2>2. CASE ControllerForbidden(c) BY <2>2 DEF ControllerForbidden
  <2>3. CASE ControllerAttach(c) BY <2>3 DEF ControllerAttach
  <2>4. CASE ControllerLeave(c) BY <2>4 DEF ControllerLeave
  <2> QED BY <1>4, <2>1, <2>2, <2>3, <2>4 DEF ControllerStep
<1>5. ASSUME NEW w \in TerminalConns, TerminalStep(w) PROVE AddedToLiving'
  <2>1. CASE TerminalBusy(w) BY <2>1 DEF TerminalBusy
  <2>2. CASE TerminalUnlock(w) BY <2>2 DEF TerminalUnlock, Unlock
  <2>3. CASE TerminalCheck(w) BY <2>3 DEF TerminalCheck, Lock, checkID
  <2>7. CASE TerminalLookup(w)
    <3>1. SerList[sid[w]] # None =>
            SerList[sid[w]] \in ServerConns /\ Alive(SerList[sid[w]])
      BY <2>7 DEF TerminalLookup, NoDanglingEntry
    <3> QED BY <2>7, <3>1 DEF TerminalLookup
  <2>4. CASE TerminalAttach(w) BY <2>4 DEF TerminalAttach
  <2>5. CASE TerminalLeave(w) BY <2>5 DEF TerminalLeave
  <2>6. CASE TerminalRemove(w) BY <2>6 DEF TerminalRemove
  <2> QED BY <1>5, <2>1, <2>2, <2>3, <2>4, <2>5, <2>6, <2>7 DEF TerminalStep
<1>6. ASSUME NEW c \in Clients,
             ClientStart(c) \/ ClientForward(c) \/ ForwardEnds(c) \/ ClientReadEnds(c)
      PROVE AddedToLiving'
  <2>1. CASE ClientStart(c) BY <2>1 DEF ClientStart, Unlock
  <2>2. CASE ClientForward(c) BY <2>2 DEF ClientForward
  <2>3. CASE ForwardEnds(c) BY <2>3 DEF ForwardEnds
  <2>4. CASE ClientReadEnds(c) BY <2>4 DEF ClientReadEnds
  <2> QED BY <1>6, <2>1, <2>2, <2>3, <2>4
<1>7. CASE Restart BY <1>7 DEF Restart
<1>8. CASE UNCHANGED vars BY <1>8 DEF vars
<1> QED BY <1>1, <1>2, <1>3, <1>4, <1>5, <1>6, <1>7, <1>8 DEF Next

\* Only a terminal looks its Server up twice and removes itself in a step of its own.
LEMMA TerminalsOnlyStep == TypeOK /\ TerminalsOnly /\ [Next]_vars => TerminalsOnly'
<1> SUFFICES ASSUME TypeOK, TerminalsOnly, [Next]_vars PROVE TerminalsOnly'
  OBVIOUS
<1> USE ConnAssumption DEF TypeOK, Conns, Clients, identity, lists, Goto, HangUp, Detach,
           Fail, TerminalsOnly
<1>1. ASSUME NEW t \in Conns, Accept(t) PROVE TerminalsOnly'
  BY <1>1 DEF Accept, FirstPhase
<1>2. ASSUME NEW t \in ServerConns \cup ControllerConns,
             CheckSerID(t) \/ ReadUsrID(t)
      PROVE TerminalsOnly'
  <2>1. CASE CheckSerID(t) BY <2>1 DEF CheckSerID
  <2>2. CASE ReadUsrID(t) BY <2>2 DEF ReadUsrID
  <2> QED BY <1>2, <2>1, <2>2
<1>3. ASSUME NEW s \in ServerConns, ServerStep(s) PROVE TerminalsOnly'
  <2>1. CASE ServerConstruct(s) BY <2>1 DEF ServerConstruct
  <2>2. CASE ServerGreet(s) BY <2>2 DEF ServerGreet
  <2>3. CASE ServerReadEnds(s) BY <2>3 DEF ServerReadEnds
  <2>4. CASE DestroyLock(s) BY <2>4 DEF DestroyLock, Lock
  <2>5. CASE DestroyShutdown(s) BY <2>5 DEF DestroyShutdown
  <2>6. CASE DestroyWait(s) BY <2>6 DEF DestroyWait
  <2>7. CASE DestroyErase(s) BY <2>7 DEF DestroyErase, Unlock
  <2> QED BY <1>3, <2>1, <2>2, <2>3, <2>4, <2>5, <2>6, <2>7 DEF ServerStep
<1>4. ASSUME NEW c \in ControllerConns, ControllerStep(c) PROVE TerminalsOnly'
  <2>1. CASE ControllerConstruct(c) BY <2>1 DEF ControllerConstruct, Lock
  <2>2. CASE ControllerForbidden(c) BY <2>2 DEF ControllerForbidden
  <2>3. CASE ControllerAttach(c) BY <2>3 DEF ControllerAttach
  <2>4. CASE ControllerLeave(c) BY <2>4 DEF ControllerLeave
  <2> QED BY <1>4, <2>1, <2>2, <2>3, <2>4 DEF ControllerStep
<1>5. ASSUME NEW w \in TerminalConns, TerminalStep(w) PROVE TerminalsOnly'
  <2>1. CASE TerminalBusy(w) BY <2>1 DEF TerminalBusy
  <2>2. CASE TerminalUnlock(w) BY <2>2 DEF TerminalUnlock, Unlock
  <2>3. CASE TerminalCheck(w) BY <2>3 DEF TerminalCheck, Lock, checkID
  <2>7. CASE TerminalLookup(w) BY <2>7 DEF TerminalLookup
  <2>4. CASE TerminalAttach(w) BY <2>4 DEF TerminalAttach
  <2>5. CASE TerminalLeave(w) BY <2>5 DEF TerminalLeave
  <2>6. CASE TerminalRemove(w) BY <2>6 DEF TerminalRemove
  <2> QED BY <1>5, <2>1, <2>2, <2>3, <2>4, <2>5, <2>6, <2>7 DEF TerminalStep
<1>6. ASSUME NEW c \in Clients,
             ClientStart(c) \/ ClientForward(c) \/ ForwardEnds(c) \/ ClientReadEnds(c)
      PROVE TerminalsOnly'
  <2>1. CASE ClientStart(c) BY <2>1 DEF ClientStart, Unlock
  <2>2. CASE ClientForward(c) BY <2>2 DEF ClientForward
  <2>3. CASE ForwardEnds(c) BY <2>3 DEF ForwardEnds
  <2>4. CASE ClientReadEnds(c) BY <2>4 DEF ClientReadEnds
  <2> QED BY <1>6, <2>1, <2>2, <2>3, <2>4
<1>7. CASE Restart BY <1>7 DEF Restart
<1>8. CASE UNCHANGED vars BY <1>8 DEF vars
<1> QED BY <1>1, <1>2, <1>3, <1>4, <1>5, <1>6, <1>7, <1>8 DEF Next

\* Whoever holds SerMutex is in its section and can go on, a terminal because the Server
\* it checked is still listed, or waits for controllers that have been shut down and can
\* go on themselves without SerMutex, once a write to the game server has returned.
SectionGoesOn ==
  SerMutex # None /\ ~foreignUnlock =>
    /\ InSection(SerMutex)
    /\ SerMutex \in Clients =>
         IF pc[SerMutex] = "lookup" THEN checkID(sid[SerMutex], uid[SerMutex])
                                    ELSE Alive(ser[SerMutex])
    /\ SerMutex \in ServerConns /\ pc[SerMutex] = "waiting" =>
         \A c \in CTLList[SerMutex] :
           /\ shut[c] /\ ser[c] = SerMutex
           /\ pc[c] \in {"reading", "forwarding", "leaving"}

\* The destructor of a Server and the clients that it waits for never wait for each
\* other in a circle, though it waits with SerMutex locked: a controller that it waits
\* for is in no section of SerMutex, and waits at most for the game server to take what
\* was forwarded.
THEOREM SectionsGoOn == Spec => []SectionGoesOn
<1> DEFINE Unharmed == ShutDown /\ AddedToLiving /\ TerminalsOnly
<1>1. Init => Unharmed
  BY ConnAssumption
  DEF Init, ShutDown, AddedToLiving, TerminalsOnly, Conns, Clients
<1>2. IndInv /\ Unharmed /\ [Next]_vars => Unharmed'
  BY ShutDownStep, AddedStep, TerminalsOnlyStep DEF IndInv
<1>3. IndInv /\ Unharmed => SectionGoesOn
  BY ConnAssumption DEF IndInv, TypeOK, Conns, Clients, SerMutexOwner, InSection, Listing,
     Serving, ShutDown, AddedToLiving, TerminalsOnly, CheckStands,
     SectionGoesOn, Destroying
<1> QED BY <1>1, <1>2, <1>3, Invariance, PTL DEF Spec

================================================================================
