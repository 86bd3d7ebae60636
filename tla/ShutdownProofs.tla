----------------------------- MODULE ShutdownProofs -----------------------------
(***************************************************************************)
(* Proofs about the life of a server, for every set of connections, table  *)
(* size and number of servers.                                             *)
(*                                                                         *)
(* As long as nothing undefined happened (Core): a destructor that did not *)
(* overrun the io thread leaves no handler behind that could begin, since  *)
(* the service stays stopped until run was left; a handler that runs while *)
(* the server is up finds every object; and a key that was deleted is not  *)
(* in the PacketManager any more.                                          *)
(***************************************************************************)
EXTENDS Shutdown, TLAPS

Up       == {"managed", "inside", "started"}
Stopping == {"acceptor", "cm", "sm", "pm", "reset"}
Over     == {"service", "protobuf", "returned"}
Running  == Inside \cup {"poll"}

(* The io thread, and what the handlers need. *)
IoInv ==
  /\ main = "constructed" => io = "none"
  /\ main = "managed" => io = "none"
  /\ ~overran /\ main \in Stopping => io \in Outside /\ stopped
  /\ ~overran /\ main \in Over => io \in {"none", "ended"}
  /\ main \in Up \cup {"acceptor"} => Managers \subseteq alive
  /\ main \in {"cm", "sm", "pm", "reset"} => "ioService" \in alive
  /\ main \in {"inside", "started"} /\ io \in Running => "acceptor" \in alive
  /\ temp \in Conns => io \in {"table", "rearm"}
  /\ "protobuf" \in alive \/ servers > 1 \/ main = "returned"
  /\ main = "constructed" => alive \cap Managers = {}
  /\ main \in {"sm", "pm", "reset"} \cup Over => "cm" \notin alive
  /\ main \in {"pm", "reset"} \cup Over => "sm" \notin alive
  /\ main \in {"reset"} \cup Over => "pm" \notin alive
  /\ main \in {"protobuf", "returned"} => "ioService" \notin alive

(* The acceptor's pointers. *)
BoundInv ==
  /\ main \in Up \cup {"constructed", "acceptor"} /\ ~bound =>
       pending = {} /\ accepted = {} /\ io \in {"none", "ended"}
  /\ main \in {"protobuf", "returned"} => pending = {}

(* The keys. *)
KeyInv ==
  /\ main = "constructed" => owner = "none"
  /\ main \in Up \cup {"acceptor", "cm", "sm", "pm"} =>
       /\ keys \cap deleted = {}
       /\ owner = "none" => "mine" \notin keys \cup deleted
       /\ owner = "deleted" => "mine" \notin keys
       /\ main # "pm" => "A0" \notin deleted
       /\ owner # "late"

Core == IoInv /\ BoundInv /\ KeyInv

--------------------------------------------------------------------------------
(* Types *)

LEMMA BadKinds ==
  ASSUME TypeOK, NEW objects, uses(objects)
  PROVE  bad' \subseteq {"stale", "library", "twice", "null", "wild"}
  BY DEF TypeOK, uses

LEMMA Ops ==
  /\ accept \in Operations
  /\ \A k \in Kinds, c \in Conns : <<k, c>> \in Operations
  /\ \A op \in Operations : op = accept \/ (op[1] \in Kinds /\ op[2] \in Conns)
  /\ accept[1] = "accept" /\ accept[2] = None
  BY DEF accept, Operations

(* The connection of a handler. *)
JobInv == io \in Inside \ {"accept"} => job \in Conns

TInv == TypeOK /\ JobInv

LEMMA IoTypes ==
  ASSUME TInv, IoStep PROVE TInv'
<1> USE Ops, ConnsAssumption DEF TInv, TypeOK, JobInv, Places, Outside, Inside, Kinds, mainVars, ioVars, data
<1>1. CASE RunReturns
  BY <1>1, BadKinds DEF RunReturns
<1>2. ASSUME NEW op \in Operations, RunOne(op) PROVE TInv'
  BY <1>2, BadKinds DEF RunOne
<1>3. CASE AsyncAcceptError
  BY <1>3, BadKinds DEF AsyncAcceptError, HandlerReturns
<1>4. ASSUME NEW c \in Conns, AsyncAccept(c) PROVE TInv'
  BY <1>4, BadKinds DEF AsyncAccept
<1>5. CASE AddClient
  BY <1>5, BadKinds DEF AddClient
<1>6. CASE Rearm
  BY <1>6, BadKinds DEF Rearm, HandlerReturns
<1>7. CASE StartRead
  BY <1>7, BadKinds DEF StartRead, HandlerReturns
<1>8. CASE NothingToDo
  BY <1>8 DEF NothingToDo, HandlerReturns
<1>9. CASE ToRemove
  BY <1>9 DEF ToRemove
<1>10. CASE RemoveClient
  BY <1>10, BadKinds DEF RemoveClient, HandlerReturns
<1>11. ASSUME NEW replies \in SUBSET {<<"send", job>>}, Received(replies) PROVE TInv'
  <2>1. replies \subseteq Operations
    BY <1>11 DEF Received
  <2>2. QED
    BY <1>11, <2>1, BadKinds DEF Received
<1>12. CASE PacketIgnored
  BY <1>12, BadKinds DEF PacketIgnored
<1>13. CASE ServerProcess
  BY <1>13, BadKinds DEF ServerProcess
<1>14. CASE KeyNotFound
  BY <1>14, BadKinds DEF KeyNotFound
<1>15. ASSUME NEW to \in Conns, KeyA0(to) PROVE TInv'
  BY <1>15, BadKinds DEF KeyA0
<1>16. QED
  BY <1>1, <1>2, <1>3, <1>4, <1>5, <1>6, <1>7, <1>8, <1>9, <1>10, <1>11, <1>12, <1>13, <1>14,
     <1>15 DEF IoStep

LEMMA MainTypes ==
  ASSUME TInv, MainStep PROVE TInv'
<1> USE Ops, ConnsAssumption, ServersAssumption
    DEF TInv, TypeOK, JobInv, Places, Outside, Inside, Kinds, Managers, Objects, Keys, ioVars, data,
        mainVars, Goto
<1>1. CASE CreateManagers
  BY <1>1 DEF CreateManagers
<1>2. ASSUME NEW thread \in {"io", "main", "none"}, InitServer(thread) PROVE TInv'
  BY <1>2 DEF InitServer
<1>3. ASSUME NEW constructed \in BOOLEAN, InitServerThrows(constructed) PROVE TInv'
  BY <1>3 DEF InitServerThrows
<1>4. CASE InitServerUnmanaged
  BY <1>4 DEF InitServerUnmanaged
<1>5. CASE SyncReturns
  BY <1>5 DEF SyncReturns
<1>6. CASE AddOwner
  BY <1>6 DEF AddOwner
<1>7. CASE DeleteOwner
  BY <1>7 DEF DeleteOwner
<1>8. CASE DeleteOwnerLate
  BY <1>8 DEF DeleteOwnerLate
<1>9. CASE Stop
  BY <1>9 DEF Stop
<1>10. CASE DeleteAcceptor
  <2>1. bad' \subseteq {"stale", "library", "twice", "null", "wild"}
    <3>1. bad' \subseteq bad \cup {"wild", "twice"}
      BY ONLY <1>10 DEF DeleteAcceptor
    <3>2. QED
      BY <3>1
  <2>2. /\ main' = "cm" /\ alive' \subseteq alive /\ bound' = FALSE
        /\ UNCHANGED <<servers, owner, overran, ioVars, stopped, pending, clients, keys, deleted>>
    BY ONLY <1>10 DEF DeleteAcceptor, Goto
  <2>3. QED
    BY <2>1, <2>2
<1>11. CASE DeleteClientManager
  BY <1>11 DEF DeleteClientManager
<1>12. CASE DeleteSetupManager
  BY <1>12 DEF DeleteSetupManager
<1>13. CASE DeletePacketManager
  BY <1>13 DEF DeletePacketManager
<1>14. CASE Reset
  BY <1>14 DEF Reset
<1>15. CASE DeleteService
  BY <1>15 DEF DeleteService
<1>16. CASE ShutdownProtobufLibrary
  BY <1>16 DEF ShutdownProtobufLibrary
<1>17. CASE NewServer
  BY <1>17 DEF NewServer
<1>18. QED
  BY <1>1, <1>2, <1>3, <1>4, <1>5, <1>6, <1>7, <1>8, <1>9, <1>10, <1>11, <1>12, <1>13, <1>14,
     <1>15, <1>16, <1>17 DEF MainStep, Destructor

LEMMA TypeInit == Init => TInv
<1> SUFFICES ASSUME Init PROVE TInv
  OBVIOUS
<1>1. main \in Places /\ servers \in 1 .. MaxServers
  BY ServersAssumption DEF Init, Places
<1>2. io \in Outside \cup Inside /\ (io \in Inside \ {"accept"} => job \in Conns)
  BY DEF Init, Outside, Inside, Kinds
<1>3. /\ job \in Conns \cup {None} /\ temp \in Conns \cup {None}
      /\ pending \subseteq Operations /\ accepted \subseteq Conns /\ clients \subseteq Conns
      /\ keys \subseteq Keys /\ deleted \subseteq Keys /\ alive \subseteq Objects
      /\ bad \subseteq {"stale", "library", "twice", "null", "wild"}
      /\ owner \in {"none", "alive", "deleted", "late"} /\ mutex \in {"free", "held"}
  BY DEF Init, Objects
<1>4. stopped \in BOOLEAN /\ bound \in BOOLEAN /\ overran \in BOOLEAN
  BY Zenon DEF Init
<1>5. QED
  BY <1>1, <1>2, <1>3, <1>4 DEF TInv, TypeOK, JobInv

(* Type correctness. *)
THEOREM TypeCorrect == Spec => []TypeOK
<1>1. Init => TInv
  BY TypeInit
<1>2. TInv /\ [Next]_vars => TInv'
  <2>1. TInv /\ UNCHANGED vars => TInv'
    BY DEF TInv, TypeOK, JobInv, vars, mainVars, ioVars, data
  <2>2. QED
    BY <2>1, IoTypes, MainTypes DEF Next
<1>3. TInv => TypeOK
  BY DEF TInv
<1>4. QED
  BY <1>1, <1>2, <1>3, PTL DEF Spec

--------------------------------------------------------------------------------
(* Safety *)

Safe == UndefinedCause /\ DeletedOnce

LEMMA SafeUnless ==
  ASSUME TInv, bad = {}, UNCHANGED <<overran, owner, servers>>, NEW objects, uses(objects),
         overran \/ objects \subseteq alive \/
           (objects \subseteq alive \cup {"protobuf"} /\ servers > 1)
  PROVE  Safe'
  BY DEF TInv, TypeOK, uses, Safe, UndefinedCause, DeletedOnce

(* Where a handler may be. *)
LEMMA Handler ==
  ASSUME TInv, Core, io \in Inside
  PROVE  \/ overran
         \/ /\ main \in {"inside", "started"}
            /\ {"pm", "cm", "sm", "ioService", "acceptor"} \subseteq alive
            /\ "protobuf" \in alive \/ servers > 1
  BY DEF TInv, TypeOK, Places, Core, IoInv, Inside, Outside, Kinds, Stopping, Over, Up, Running,
         Managers

LEMMA IoSafe ==
  ASSUME TInv, Core, IoStep PROVE Safe'
<1>0. bad = {}
  BY DEF IoStep
<1>1. CASE RunReturns \/ \E op \in Operations : RunOne(op)
  <2>1. UNCHANGED mainVars /\ uses({"ioService"}) /\ io = "poll"
    BY <1>1 DEF RunReturns, RunOne
  <2>2. overran \/ "ioService" \in alive
    BY <2>1 DEF TInv, TypeOK, Places, Core, IoInv, Outside, Stopping, Over, Up, Managers
  <2>3. UNCHANGED <<overran, owner, servers>>
    BY <2>1 DEF mainVars
  <2>4. QED
    BY <1>0, <2>1, <2>2, <2>3, SafeUnless
<1>2. ASSUME io \in Inside, UNCHANGED mainVars,
             \/ UNCHANGED bad
             \/ \E objects \in SUBSET Objects : uses(objects)
      PROVE  Safe'
  <2>1. UNCHANGED <<overran, owner, servers>>
    BY <1>2 DEF mainVars
  <2>2. CASE UNCHANGED bad
    BY <1>0, <2>2 DEF Safe, UndefinedCause, DeletedOnce
  <2>3. CASE \E objects \in SUBSET Objects : uses(objects)
    <3>1. PICK objects \in SUBSET Objects : uses(objects)
      BY <2>3
    <3>2. \/ overran
          \/ objects \subseteq alive
          \/ objects \subseteq alive \cup {"protobuf"} /\ servers > 1
      BY <1>2, <3>1, Handler DEF Objects, Managers
    <3>3. QED
      BY <1>0, <2>1, <3>1, <3>2, SafeUnless
  <2>4. QED
    BY <1>2, <2>2, <2>3
<1>3. CASE ~(RunReturns \/ \E op \in Operations : RunOne(op))
  <2>1. io \in Inside /\ UNCHANGED mainVars
    BY <1>3 DEF IoStep, AsyncAcceptError, AsyncAccept, AddClient, Rearm, StartRead, NothingToDo,
                ToRemove, RemoveClient, Received, PacketIgnored, ServerProcess, KeyNotFound, KeyA0,
                Inside, Kinds
  <2>2. \/ UNCHANGED bad
        \/ \E objects \in SUBSET Objects : uses(objects)
    <3>1. /\ {"acceptor"} \in SUBSET Objects /\ {"acceptor", "ioService"} \in SUBSET Objects
          /\ {"cm"} \in SUBSET Objects /\ {"ioService"} \in SUBSET Objects
          /\ {"pm", "cm"} \in SUBSET Objects /\ {"protobuf"} \in SUBSET Objects
          /\ {"pm", "protobuf"} \in SUBSET Objects /\ {"pm"} \in SUBSET Objects
          /\ {"pm", "sm", "cm", "ioService", "protobuf"} \in SUBSET Objects
      BY DEF Objects, Managers
    <3>2. \/ UNCHANGED bad
          \/ uses({"acceptor"}) \/ uses({"acceptor", "ioService"}) \/ uses({"cm"})
          \/ uses({"ioService"}) \/ uses({"pm", "cm"}) \/ uses({"protobuf"})
          \/ uses({"pm", "protobuf"}) \/ uses({"pm"})
          \/ uses({"pm", "sm", "cm", "ioService", "protobuf"})
      BY <1>3, Zenon
         DEF IoStep, AsyncAcceptError, AsyncAccept, AddClient, Rearm, StartRead, NothingToDo,
             ToRemove, RemoveClient, Received, PacketIgnored, ServerProcess, KeyNotFound, KeyA0
    <3>3. QED
      BY <3>1, <3>2, Zenon
  <2>3. QED
    BY <1>2, <2>1, <2>2
<1>4. QED
  BY <1>1, <1>3

LEMMA MainSafe ==
  ASSUME TInv, Core, MainStep PROVE Safe'
<1>0. bad = {}
  BY DEF MainStep, Destructor
<1> USE <1>0 DEF Safe, UndefinedCause, DeletedOnce, Core
<1>1. CASE UNCHANGED bad
  BY <1>1
<1>2. CASE InitServerUnmanaged
  BY <1>2 DEF InitServerUnmanaged, IoInv, data, mainVars
<1>3. CASE DeleteOwnerLate
  BY <1>3 DEF DeleteOwnerLate
<1>4. CASE Stop
  BY <1>4 DEF Stop, TInv, TypeOK, IoInv, Up, Managers
<1>5. CASE DeleteAcceptor
  <2>1. temp \in Conns => overran
    BY <1>5 DEF DeleteAcceptor, IoInv, Outside, Stopping
  <2>2. ~bound => pending = {} /\ accepted = {}
    BY <1>5 DEF DeleteAcceptor, BoundInv
  <2>3. QED
    BY <1>5, <2>1, <2>2 DEF DeleteAcceptor, ioVars
<1>6. CASE DeletePacketManager
  BY <1>6 DEF DeletePacketManager, KeyInv
<1>7. QED
  BY <1>1, <1>2, <1>3, <1>4, <1>5, <1>6
     DEF MainStep, Destructor, DeleteClientManager, DeleteSetupManager, Reset, DeleteService,
         ShutdownProtobufLibrary, CreateManagers, SyncReturns, NewServer, InitServer,
         InitServerThrows, AddOwner, DeleteOwner

LEMMA IoCore ==
  ASSUME TInv, Core, IoStep, bad' = {} PROVE Core'
<1>0. bad = {} /\ UNCHANGED <<mainVars, alive, keys, deleted>>
  BY DEF IoStep, RunReturns, RunOne, AsyncAcceptError, AsyncAccept, AddClient, Rearm, StartRead,
         NothingToDo, ToRemove, RemoveClient, Received, PacketIgnored, ServerProcess, KeyNotFound,
         KeyA0, data
<1>1. UNCHANGED <<main, servers, owner, bound, overran>> /\ io \in Running
  BY <1>0 DEF mainVars, IoStep, RunReturns, RunOne, AsyncAcceptError, AsyncAccept, AddClient,
              Rearm, StartRead, NothingToDo, ToRemove, RemoveClient, Received, PacketIgnored,
              ServerProcess, KeyNotFound, KeyA0, Running, Inside, Kinds
<1>2. KeyInv'
  BY <1>0, <1>1 DEF Core, KeyInv, Up
<1>3. BoundInv'
  <2>1. ~(main \in Up \cup {"constructed", "acceptor"} /\ ~bound)
    BY <1>1 DEF Core, BoundInv, Running, Inside, Kinds
  <2>2. main \in {"protobuf", "returned"} => pending' = {}
    <3>1. pending' \subseteq pending \/ uses({"ioService"}) \/ uses({"acceptor", "ioService"})
          \/ uses({"pm", "sm", "cm", "ioService", "protobuf"})
      BY Zenon
         DEF IoStep, RunReturns, RunOne, AsyncAcceptError, AsyncAccept, AddClient, Rearm,
             StartRead, NothingToDo, ToRemove, RemoveClient, Received, PacketIgnored,
             ServerProcess, KeyNotFound, KeyA0, data
    <3>2. QED
      BY <3>1 DEF Core, BoundInv, IoInv, uses
  <2>3. QED
    BY <1>1, <2>1, <2>2 DEF BoundInv, Up
<1>4. IoInv'
  <2>1. ~overran /\ main \in Stopping => io' \in Outside /\ stopped'
    BY <1>1 DEF IoStep, RunReturns, RunOne, Core, IoInv, Outside, Inside, Kinds, Running,
                AsyncAcceptError, AsyncAccept, AddClient, Rearm, StartRead, NothingToDo,
                ToRemove, RemoveClient, Received, PacketIgnored, ServerProcess, KeyNotFound, KeyA0
  <2>2. ~overran => main \notin Over
    BY <1>1 DEF Core, IoInv, Running, Inside, Kinds
  <2>3. main # "constructed" /\ main # "managed"
    BY <1>1 DEF Core, IoInv, Running, Inside, Kinds
  <2>4. temp' \in Conns => io' \in {"table", "rearm"}
    BY ConnsAssumption
       DEF Core, IoInv, IoStep, RunReturns, RunOne, AsyncAcceptError, AsyncAccept, AddClient,
           Rearm, StartRead, NothingToDo, ToRemove, RemoveClient, Received, PacketIgnored,
           ServerProcess, KeyNotFound, KeyA0, HandlerReturns, Kinds
  <2>5. main \in {"inside", "started"} => "acceptor" \in alive
    BY <1>1 DEF Core, IoInv
  <2>6. QED
    BY <1>0, <1>1, <2>1, <2>2, <2>3, <2>4, <2>5 DEF Core, IoInv
<1>5. QED
  BY <1>2, <1>3, <1>4 DEF Core

LEMMA MainCore ==
  ASSUME TInv, Core, MainStep, bad' = {} PROVE Core'
<1> USE DEF Core, IoInv, BoundInv, KeyInv, Up, Stopping, Over, Running, Inside, Outside, Kinds,
            Managers, Goto, TInv, TypeOK, Places, ioVars, data
<1>1. CASE CreateManagers
  BY <1>1 DEF CreateManagers
<1>2. ASSUME NEW thread \in {"io", "main", "none"}, InitServer(thread) PROVE Core'
  BY <1>2, ConnsAssumption DEF InitServer
<1>3. ASSUME NEW constructed \in BOOLEAN, InitServerThrows(constructed) PROVE Core'
  BY <1>3 DEF InitServerThrows
<1>5. CASE SyncReturns
  BY <1>5 DEF SyncReturns
<1>6. CASE AddOwner
  BY <1>6 DEF AddOwner
<1>7. CASE DeleteOwner
  BY <1>7 DEF DeleteOwner
<1>9. CASE Stop
  BY <1>9 DEF Stop
<1>10. CASE DeleteAcceptor
  BY <1>10 DEF DeleteAcceptor
<1>11. CASE DeleteClientManager
  BY <1>11 DEF DeleteClientManager
<1>12. CASE DeleteSetupManager
  BY <1>12 DEF DeleteSetupManager
<1>13. CASE DeletePacketManager
  BY <1>13 DEF DeletePacketManager
<1>14. CASE Reset
  BY <1>14 DEF Reset
<1>15. CASE DeleteService
  BY <1>15 DEF DeleteService
<1>16. CASE ShutdownProtobufLibrary
  BY <1>16 DEF ShutdownProtobufLibrary
<1>17. CASE NewServer
  BY <1>17, ServersAssumption DEF NewServer
<1>18. QED
  BY <1>1, <1>2, <1>3, <1>5, <1>6, <1>7, <1>9, <1>10, <1>11, <1>12, <1>13, <1>14, <1>15, <1>16,
     <1>17 DEF MainStep, Destructor, InitServerUnmanaged, DeleteOwnerLate

SInv == TInv /\ (bad = {} => Core) /\ Safe

LEMMA SafeAlways == Spec => []SInv
<1>1. Init => SInv
  <2>1. Init => TInv
    BY TypeInit
  <2>2. Init => Core /\ Safe
    BY ConnsAssumption
       DEF Init, Core, IoInv, BoundInv, KeyInv, Safe, UndefinedCause, DeletedOnce, Up, Stopping,
           Over, Managers
  <2>3. QED
    BY <2>1, <2>2 DEF SInv
<1>2. SInv /\ [Next]_vars => SInv'
  <2>1. ASSUME SInv, Next PROVE SInv'
    <3>1. bad = {} /\ Core /\ TInv
      BY <2>1 DEF SInv, Next, IoStep, MainStep, Destructor
    <3>2. QED
      BY <2>1, <3>1, IoTypes, MainTypes, IoSafe, MainSafe, IoCore, MainCore DEF Next, SInv
  <2>2. ASSUME SInv, UNCHANGED vars PROVE SInv'
    <3>1. UNCHANGED <<main, servers, owner, bound, overran, io, job, temp, accepted, mutex,
                      stopped, pending, alive, clients, keys, deleted, bad>>
      BY <2>2 DEF vars, mainVars, ioVars, data
    <3>2. TInv' /\ (Core <=> Core') /\ (Safe <=> Safe')
      BY <2>2, <3>1
         DEF SInv, TInv, TypeOK, JobInv, Core, IoInv, BoundInv, KeyInv, Safe, UndefinedCause,
             DeletedOnce
    <3>3. QED
      BY <2>2, <3>1, <3>2 DEF SInv
  <2>3. QED
    BY <2>1, <2>2
<1>3. QED
  BY <1>1, <1>2, PTL DEF Spec

(* What was deleted is only used by those who were not waited for. *)
THEOREM CauseOfUndefined == Spec => []UndefinedCause
<1>1. SInv => UndefinedCause
  BY DEF SInv, Safe
<1>2. QED
  BY <1>1, SafeAlways, PTL

(* Keys and sockets are deleted once. *)
THEOREM OwnersDelete == Spec => []DeletedOnce
<1>1. SInv => DeletedOnce
  BY DEF SInv, Safe
<1>2. QED
  BY <1>1, SafeAlways, PTL
================================================================================
