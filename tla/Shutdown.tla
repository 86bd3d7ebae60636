-------------------------------- MODULE Shutdown --------------------------------
(***************************************************************************)
(* The life of a Server: createManagers, one of the three ways to start,   *)
(* and the destructor, which takes everything apart on the application's   *)
(* thread while the detached io thread may still be inside a handler.      *)
(*                                                                         *)
(* io_service is modelled by what the code relies on: run looks whether    *)
(* the service was stopped before it takes the next completed operation,   *)
(* stop does not wait, reset takes the stop back, and deleting the service *)
(* destroys the outstanding operations with the shared_ptrs they hold.     *)
(*                                                                         *)
(* A handler is cut where it passes from one object to another; bad is     *)
(* what a step did that is undefined, after which nothing is followed.     *)
(***************************************************************************)
EXTENDS Integers, FiniteSets

CONSTANTS
  Conns,        \* connections that may be accepted
  None,         \* no connection
  MAX_CLIENTS,  \* size of the client table
  MaxServers    \* bound: servers the application creates, one after the other

ASSUME ConnsAssumption   == None \notin Conns
ASSUME ClientsAssumption == MAX_CLIENTS \in Nat
ASSUME ServersAssumption == MaxServers \in Nat \ {0}

VARIABLES
  main,         \* where the application's thread is
  io,           \* where the thread that runs the io_service is
  job,          \* the connection of the handler it is in
  stopped,      \* of the io_service
  pending,      \* outstanding operations, by kind and connection
  alive,        \* the objects of the server, and the protobuf library
  bound,        \* TCPAcceptor::detach got to set the acceptor's pointers
  temp,         \* the connection tempSSLSocket was handed to, before the next one is made
  accepted, clients,
  keys,         \* the keys in PacketManager::pKeys
  deleted,      \* history: keys that were deleted
  owner,        \* the application's own PKeyOwner
  mutex,        \* pKeysMutex, as the io thread holds it
  servers,
  overran,      \* history: the destructor went on with the io thread in a handler or in run
  bad           \* history: what was undefined

mainVars == <<main, servers, owner, bound, overran>>
ioVars   == <<io, job, temp, accepted, mutex>>
data     == <<stopped, pending, alive, clients, keys, deleted>>
vars     == <<mainVars, ioVars, data, bad>>

Managers == {"ioService", "pm", "cm", "sm"}
Objects  == Managers \cup {"acceptor", "protobuf"}
Kinds    == {"handshake", "read", "send"}
Keys     == {"A0", "mine"}

accept    == <<"accept", None>>
Operations == {accept} \cup (Kinds \X Conns)

(* The places of a handler; outside there are these three. *)
Outside == {"none", "poll", "ended"}
Inside  == Kinds \cup {"accept", "table", "rearm", "key", "reread", "remove"}

(* A connection lives as long as a shared_ptr to it does. *)
Held(c) == c \in clients \/ c = job \/ \E k \in Kinds : <<k, c>> \in pending

(* Through a pointer that is dangling by now, or null. *)
uses(objects) ==
  bad' = bad \cup (IF objects \subseteq alive \cup {"protobuf"} THEN {} ELSE {"stale"})
             \cup (IF "protobuf" \in objects \ alive THEN {"library"} ELSE {})

--------------------------------------------------------------------------------
(* The io thread *)

(* run returns when the service was stopped, or has no work left. *)
RunReturns ==
  /\ io = "poll"
  /\ stopped \/ pending = {}
  /\ io' = "ended" /\ stopped' = TRUE
  /\ uses({"ioService"})
  /\ UNCHANGED <<mainVars, job, temp, accepted, mutex, pending, alive, clients, keys, deleted>>

RunOne(op) ==
  /\ io = "poll" /\ ~stopped
  /\ op \in pending
  /\ pending' = pending \ {op}
  /\ io' = op[1] /\ job' = op[2]
  /\ uses({"ioService"})
  /\ UNCHANGED <<mainVars, temp, accepted, mutex, stopped, alive, clients, keys, deleted>>

HandlerReturns == io' = "poll" /\ job' = None

(* asyncAccept; on an error the acceptor stops. *)
AsyncAcceptError ==
  /\ io = "accept"
  /\ HandlerReturns
  /\ uses({"acceptor"})
  /\ UNCHANGED <<mainVars, temp, accepted, mutex, data>>

(* The connection takes over tempSSLSocket, and the acceptor keeps the pointer. *)
AsyncAccept(c) ==
  /\ io = "accept" /\ c \notin accepted
  /\ accepted' = accepted \cup {c} /\ temp' = c
  /\ pending' = pending \cup {<<"handshake", c>>}
  /\ io' = "table" /\ job' = c
  /\ uses({"acceptor", "ioService"})
  /\ UNCHANGED <<mainVars, mutex, stopped, alive, clients, keys, deleted>>

(* server->addClient *)
AddClient ==
  /\ io = "table"
  /\ clients' = IF Cardinality(clients) < MAX_CLIENTS THEN clients \cup {job} ELSE clients
  /\ io' = "rearm"
  /\ uses({"cm"})
  /\ UNCHANGED <<mainVars, job, temp, accepted, mutex, stopped, pending, alive, keys, deleted>>

Rearm ==
  /\ io = "rearm"
  /\ temp' = None /\ pending' = pending \cup {accept}
  /\ HandlerReturns
  /\ uses({"acceptor", "ioService"})
  /\ UNCHANGED <<mainVars, accepted, mutex, stopped, alive, clients, keys, deleted>>

(* startRead, at the end of the TLS handshake and of asyncReceive. *)
StartRead ==
  /\ io \in {"handshake", "reread"}
  /\ pending' = pending \cup {<<"read", job>>}
  /\ HandlerReturns
  /\ uses({"ioService"})
  /\ UNCHANGED <<mainVars, temp, accepted, mutex, stopped, alive, clients, keys, deleted>>

(* The TLS handshake failed, or a write went through: the handler does no more. *)
NothingToDo ==
  /\ io \in {"handshake", "send"}
  /\ HandlerReturns
  /\ UNCHANGED <<mainVars, temp, accepted, mutex, data, bad>>

(* An HTTP request is answered, and read on; or only read on.  (A bound: one   *)
(* write of a connection is outstanding at a time.)                           *)
Received(replies) ==
  /\ io = "read"
  /\ replies \in SUBSET {<<"send", job>>} /\ replies \cap pending = {}
  /\ pending' = pending \cup replies
  /\ io' = "reread"
  /\ uses({"ioService"})
  /\ UNCHANGED <<mainVars, job, temp, accepted, mutex, stopped, alive, clients, keys, deleted>>

(* A packet that the server is not to read. *)
PacketIgnored ==
  /\ io = "read"
  /\ io' = "reread"
  /\ uses({"protobuf"})
  /\ UNCHANGED <<mainVars, job, temp, accepted, mutex, data>>

(* An error of a read, a close frame, a connection reset while writing. *)
ToRemove ==
  /\ io \in {"read", "send"}
  /\ io' = "remove"
  /\ UNCHANGED <<mainVars, job, temp, accepted, mutex, data, bad>>

RemoveClient ==
  /\ io = "remove"
  /\ clients' = clients \ {job}
  /\ HandlerReturns
  /\ uses({"pm", "cm"})
  /\ UNCHANGED <<mainVars, temp, accepted, mutex, stopped, pending, alive, keys, deleted>>

(* A packet: serverProcess locks pKeysMutex ... *)
ServerProcess ==
  /\ io = "read" /\ mutex = "free"
  /\ mutex' = "held" /\ io' = "key"
  /\ uses({"pm", "protobuf"})
  /\ UNCHANGED <<mainVars, job, temp, accepted, data>>

(* Fault: the packet without a key leaves before the unlock. *)
FaultKeyNotFound ==
  /\ io = "key"
  /\ io' = "reread"
  /\ uses({"pm"})
  /\ UNCHANGED <<mainVars, job, temp, accepted, mutex, data>>

(* ... finds no key, or runs the one it finds, and unlocks it. *)
KeyNotFound ==
  /\ io = "key"
  /\ mutex' = "free" /\ io' = "reread"
  /\ uses({"pm"})
  /\ UNCHANGED <<mainVars, job, temp, accepted, data>>

KeyA0(to) ==
  /\ io = "key" /\ "A0" \in keys
  /\ <<"send", to>> \notin pending
  /\ pending' = IF to \in clients THEN pending \cup {<<"send", to>>} ELSE pending
  /\ mutex' = "free" /\ io' = "reread"
  /\ uses({"pm", "sm", "cm", "ioService", "protobuf"})
  /\ UNCHANGED <<mainVars, job, temp, accepted, stopped, alive, clients, keys, deleted>>

IoStep ==
  /\ bad = {}
  /\ \/ RunReturns \/ \E op \in Operations : RunOne(op)
     \/ AsyncAcceptError \/ \E c \in Conns : AsyncAccept(c)
     \/ AddClient \/ Rearm
     \/ StartRead \/ NothingToDo \/ ToRemove \/ RemoveClient
     \/ \E replies \in SUBSET {<<"send", job>>} : Received(replies)
     \/ PacketIgnored \/ ServerProcess \/ KeyNotFound \/ \E to \in Conns : KeyA0(to)

--------------------------------------------------------------------------------
(* The application before the destructor *)

Goto(place) == main' = place

CreateManagers ==
  /\ main = "constructed"
  /\ Goto("managed")
  /\ alive' = alive \cup Managers
  /\ stopped' = FALSE
  /\ keys' = {"A0"} /\ deleted' = {}
  /\ UNCHANGED <<servers, owner, bound, overran, ioVars, pending, clients, bad>>

(* asyncInitServer, syncInitServer and syncInitServerNoRun: who calls run. *)
InitServer(thread) ==
  /\ main = "managed"
  /\ Goto(IF thread = "main" THEN "inside" ELSE "started")
  /\ alive' = alive \cup {"acceptor"} /\ bound' = TRUE
  /\ pending' = {accept} /\ temp' = None
  /\ io' = IF thread = "none" THEN "none" ELSE "poll"
  /\ UNCHANGED <<servers, owner, overran, job, accepted, mutex, stopped, clients, keys, deleted,
                 bad>>

(* TCPAcceptor's constructor, or its detach, throws, and the application goes on. *)
InitServerThrows(constructed) ==
  /\ main = "managed"
  /\ Goto("started")
  /\ alive' = IF constructed THEN alive \cup {"acceptor"} ELSE alive
  /\ UNCHANGED <<servers, owner, bound, overran, ioVars, stopped, pending, clients, keys,
                 deleted, bad>>

(* Without createManagers: the acceptor is given *nullptr. *)
InitServerUnmanaged ==
  /\ main = "constructed"
  /\ bad' = bad \cup {"null"}
  /\ UNCHANGED <<mainVars, ioVars, data>>

SyncReturns ==
  /\ main = "inside" /\ io = "ended"
  /\ Goto("started")
  /\ UNCHANGED <<servers, owner, bound, overran, ioVars, data, bad>>

(* A PKeyOwner of the application: it adds its key, and deletes it with itself. *)
AddOwner ==
  /\ main \in {"managed", "started"} /\ owner = "none" /\ mutex = "free"
  /\ owner' = "alive" /\ keys' = keys \cup {"mine"}
  /\ UNCHANGED <<main, servers, bound, overran, ioVars, stopped, pending, alive, clients,
                 deleted, bad>>

DeleteOwner ==
  /\ main \in {"managed", "started"} /\ owner = "alive" /\ mutex = "free"
  /\ owner' = "deleted" /\ keys' = keys \ {"mine"} /\ deleted' = deleted \cup {"mine"}
  /\ UNCHANGED <<main, servers, bound, overran, ioVars, stopped, pending, alive, clients, bad>>

(* After the server: through the pointer to its PacketManager. *)
DeleteOwnerLate ==
  /\ main = "returned" /\ owner = "alive"
  /\ owner' = "late"
  /\ bad' = bad \cup {"stale"} \cup IF "mine" \in deleted THEN {"twice"} ELSE {}
  /\ UNCHANGED <<main, servers, bound, overran, ioVars, data>>

--------------------------------------------------------------------------------
(* Server::~Server, a step for each object *)

FaultNoStop ==    \* fault: the handlers go on
  /\ main \in {"constructed", "managed", "started"}
  /\ Goto("acceptor")
  /\ overran' = (io \in Inside)
  /\ bad' = IF "ioService" \in alive THEN bad ELSE bad \cup {"null"}
  /\ UNCHANGED <<servers, owner, bound, ioVars, data>>

(* ioService is the one pointer that is used before it is compared with nullptr. *)
Stop ==
  /\ main \in {"constructed", "managed", "started"}
  /\ Goto("acceptor")
  /\ stopped' = TRUE
  /\ overran' = (io \in Inside)
  /\ bad' = IF "ioService" \in alive THEN bad ELSE bad \cup {"null"}
  /\ UNCHANGED <<servers, owner, bound, ioVars, pending, alive, clients, keys, deleted>>

(* acceptor and tempSSLSocket have no value before detach. *)
DeleteAcceptor ==
  /\ main = "acceptor"
  /\ Goto("cm")
  /\ bad' = IF "acceptor" \in alive
              THEN bad \cup (IF bound THEN {} ELSE {"wild"})
                       \cup (IF temp \in Conns THEN {"twice"} ELSE {})
              ELSE bad
  /\ alive' = alive \ {"acceptor"} /\ bound' = FALSE
  /\ UNCHANGED <<servers, owner, overran, ioVars, stopped, pending, clients, keys, deleted>>

DeleteClientManager ==
  /\ main = "cm"
  /\ Goto("sm")
  /\ clients' = {} /\ alive' = alive \ {"cm"}
  /\ UNCHANGED <<servers, owner, bound, overran, ioVars, stopped, pending, keys, deleted, bad>>

(* Fault: the keys are deleted, and stay in the PacketManager. *)
FaultDeleteSetupManager ==
  /\ main = "sm" /\ mutex = "free"
  /\ Goto("pm")
  /\ deleted' = deleted \cup {"A0"}
  /\ alive' = alive \ {"sm"}
  /\ UNCHANGED <<servers, owner, bound, overran, ioVars, stopped, pending, clients, keys, bad>>

(* deleteKeys takes the key out of the PacketManager first, under its mutex. *)
DeleteSetupManager ==
  /\ main = "sm" /\ mutex = "free"
  /\ Goto("pm")
  /\ keys' = keys \ {"A0"} /\ deleted' = deleted \cup {"A0"}
  /\ alive' = alive \ {"sm"}
  /\ UNCHANGED <<servers, owner, bound, overran, ioVars, stopped, pending, clients, bad>>

(* What is left in pKeys is deleted, whoever owns it. *)
DeletePacketManager ==
  /\ main = "pm"
  /\ Goto("reset")
  /\ keys' = {} /\ deleted' = deleted \cup keys
  /\ bad' = IF keys \cap deleted # {} THEN bad \cup {"twice"} ELSE bad
  /\ alive' = alive \ {"pm"}
  /\ UNCHANGED <<servers, owner, bound, overran, ioVars, stopped, pending, clients>>

Reset ==
  /\ main = "reset"
  /\ Goto("service")
  /\ stopped' = FALSE
  /\ overran' = (overran \/ io \in Inside \cup {"poll"})
  /\ UNCHANGED <<servers, owner, bound, ioVars, pending, alive, clients, keys, deleted, bad>>

(* The last references to connections go with the operations. *)
DeleteService ==
  /\ main = "service"
  /\ Goto("protobuf")
  /\ pending' = {} /\ alive' = alive \ {"ioService"}
  /\ UNCHANGED <<servers, owner, bound, overran, ioVars, stopped, clients, keys, deleted, bad>>

(* The detached thread's object, and the library for the rest of the process. *)
ShutdownProtobufLibrary ==
  /\ main = "protobuf"
  /\ Goto("returned")
  /\ alive' = alive \ {"protobuf"}
  /\ UNCHANGED <<servers, owner, bound, overran, ioVars, stopped, pending, clients, keys,
                 deleted, bad>>

(* The application may create another server. *)
NewServer ==
  /\ main = "returned" /\ servers < MaxServers
  /\ io \in {"none", "ended"} /\ owner # "alive"
  /\ Goto("constructed")
  /\ servers' = servers + 1
  /\ io' = "none" /\ accepted' = {} /\ owner' = "none"
  /\ UNCHANGED <<bound, overran, job, temp, mutex, data, bad>>

Destructor ==
  /\ bad = {}
  /\ \/ DeleteAcceptor \/ DeleteClientManager \/ DeleteSetupManager \/ DeletePacketManager
     \/ Reset \/ DeleteService \/ ShutdownProtobufLibrary

MainStep ==
  \/ Destructor
  \/ /\ bad = {}
     /\ \/ CreateManagers \/ SyncReturns \/ Stop \/ NewServer
        \/ \E thread \in {"io", "main", "none"} : InitServer(thread)
        \/ \E constructed \in BOOLEAN : InitServerThrows(constructed)
        \/ InitServerUnmanaged \/ AddOwner \/ DeleteOwner \/ DeleteOwnerLate

Init ==
  /\ main = "constructed" /\ servers = 1
  /\ io = "none" /\ job = None /\ stopped = FALSE /\ pending = {}
  /\ alive = {"protobuf"} /\ bound = FALSE /\ temp = None
  /\ accepted = {} /\ clients = {}
  /\ keys = {} /\ deleted = {} /\ owner = "none" /\ mutex = "free"
  /\ overran = FALSE /\ bad = {}

Next == IoStep \/ MainStep

Spec == Init /\ [][Next]_vars

(* The destructor and the handlers go on: neither thread is suspended for ever. *)
FairSpec == Spec /\ WF_vars(Destructor) /\ WF_vars(IoStep)

--------------------------------------------------------------------------------

Places == {"constructed", "managed", "inside", "started", "acceptor", "cm", "sm", "pm",
           "reset", "service", "protobuf", "returned"}

TypeOK ==
  /\ main \in Places /\ servers \in 1 .. MaxServers
  /\ io \in Outside \cup Inside /\ job \in Conns \cup {None}
  /\ stopped \in BOOLEAN /\ pending \subseteq Operations
  /\ alive \subseteq Objects /\ bound \in BOOLEAN /\ temp \in Conns \cup {None}
  /\ accepted \subseteq Conns /\ clients \subseteq Conns
  /\ keys \subseteq Keys /\ deleted \subseteq Keys
  /\ owner \in {"none", "alive", "deleted", "late"} /\ mutex \in {"free", "held"}
  /\ overran \in BOOLEAN /\ bad \subseteq {"stale", "library", "twice", "null", "wild"}

(***************************************************************************)
(* A deleted object is only used if the destructor did not wait: stop found *)
(* the io thread in a handler, or reset came before it had left run; or by *)
(* an owner of keys that outlives the server; or it is the protobuf        *)
(* library, which the first server's destructor shut down for the second.  *)
(* The pointers are null only if the managers were never created, and wild *)
(* only if detach threw.                                                   *)
(***************************************************************************)
UndefinedCause ==
  /\ "stale" \in bad => overran \/ owner = "late"
  /\ "library" \in bad => overran \/ servers > 1
  /\ "null" \in bad => alive \cap Managers = {}
  /\ "wild" \in bad => pending = {} /\ accepted = {}

(***************************************************************************)
(* Keys and sockets have one owner: the key of the SetupManager leaves the  *)
(* PacketManager before either is deleted, the PacketManager deletes the   *)
(* keys nobody owns, and the socket of an accepted connection is deleted   *)
(* by the connection - unless the destructor meets asyncAccept half way,   *)
(* or a PKeyOwner is deleted after the server.                             *)
(***************************************************************************)
DeletedOnce == "twice" \in bad => overran \/ owner = "late"

(***************************************************************************)
(* The destructor returns: the mutex it waits for is unlocked by every     *)
(* handler that locks it.  When it has, the last connection is gone, but   *)
(* for the one whose handler is still running.                             *)
(***************************************************************************)
ShutdownCompletes ==
  main = "acceptor" ~>
    bad # {} \/ (main = "returned" /\ \A c \in Conns \ {job} : ~Held(c))
================================================================================
