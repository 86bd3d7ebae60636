----------------------------- MODULE ClientManager -----------------------------
(***************************************************************************)
(* The table of connected clients: ClientManager::clients, a map from      *)
(* client id to Client*, together with the id each TCPConnection carries   *)
(* (TCPConnection::cID, written by the constructor of Client).  Every      *)
(* operation runs under clientMapMutex, so it is one step here.            *)
(*                                                                         *)
(* The map is a total function on the ids the code can hand out; None      *)
(* stands for an absent key.  A Client is identified with the connection   *)
(* it owns: the class holds nothing else but the id.                       *)
(*                                                                         *)
(* This is also the abstract specification the whole server is shown to    *)
(* implement (module TCPServer): whatever the handlers do, the table only  *)
(* changes by one AddClient or one RemoveClient at a time.                 *)
(***************************************************************************)
EXTENDS Integers, FiniteSets

CONSTANTS
  Conns,        \* the TCPConnection objects
  None,         \* nullptr, no client
  MAX_CLIENTS   \* MAX_CLIENTS of ClientManager.h

ASSUME ConnsAssumption == None \notin Conns
ASSUME MaxAssumption   == MAX_CLIENTS \in Nat \ {0}

VARIABLES
  clients,      \* client id -> its connection, or None
  cid           \* connection -> TCPConnection::cID, 0 before setID

cmVars == <<clients, cid>>

(* addClient rejects an id that is not below MAX_CLIENTS, and ids start at 1. *)
Ids == 1 .. MAX_CLIENTS - 1

Used == {id \in Ids : clients[id] # None}

Registered(c) == \E id \in Ids : clients[id] = c

(***************************************************************************)
(* Operators named Fault... are seeded mistakes: no specification uses     *)
(* them, and exchanging one for the definition that follows must break a   *)
(* property.                                                               *)
(***************************************************************************)

(***************************************************************************)
(* aquireNextID walks the map in key order and stops at the first gap: the *)
(* least id from 1 on that is not a key (module ClientThreads has the loop  *)
(* itself, and implements this module).                                    *)
(***************************************************************************)
aquireNextID ==
  CHOOSE n \in 1 .. MAX_CLIENTS :
    n \notin Used /\ \A m \in 1 .. n - 1 : m \in Used

(* Fault: the last id is never used. *)
FaultEarlyFull(c) ==
  LET id == aquireNextID IN
    IF id + 1 < MAX_CLIENTS
      THEN clients' = [clients EXCEPT ![id] = c] /\ cid' = [cid EXCEPT ![c] = id]
      ELSE UNCHANGED cmVars

(* A full table leaves the connection unregistered, with its id still 0. *)
addClient(c) ==
  LET id == aquireNextID IN
    \/ /\ id < MAX_CLIENTS
       /\ clients' = [clients EXCEPT ![id] = c]
       /\ cid' = [cid EXCEPT ![c] = id]
    \/ /\ id >= MAX_CLIENTS
       /\ UNCHANGED cmVars

getClient(id) == IF id \in Ids THEN clients[id] ELSE None

(* An unknown id is reported and changes nothing. *)
removeClient(id) ==
  /\ clients' = [i \in Ids |-> IF i = id THEN None ELSE clients[i]]
  /\ UNCHANGED cid

--------------------------------------------------------------------------------

Init ==
  /\ clients = [id \in Ids |-> None]
  /\ cid = [c \in Conns |-> 0]

AddClient(c) == ~Registered(c) /\ addClient(c)

RemoveClient(id) == removeClient(id)

Next ==
  \/ \E c \in Conns : AddClient(c)
  \/ \E id \in Ids : RemoveClient(id)

Spec == Init /\ [][Next]_cmVars

--------------------------------------------------------------------------------

(* The table maps client ids to connections and every connection has an id. *)
TypeOK ==
  /\ clients \in [Ids -> Conns \cup {None}]
  /\ cid \in [Conns -> 0 .. MAX_CLIENTS - 1]

(***************************************************************************)
(* The key under which a connection is stored is the id the connection     *)
(* itself carries.  Every handler of a connection addresses the table by   *)
(* its own cID, so a mismatch would make it remove or answer someone else. *)
(***************************************************************************)
IdMatches == \A id \in Ids : clients[id] # None => cid[clients[id]] = id

(***************************************************************************)
(* A new client gets the least free id, and no step fills a slot that was  *)
(* already taken (map::emplace would silently keep the old client and leak *)
(* the new one).                                                           *)
(***************************************************************************)
LeastFreeId ==
  [][\A id \in Ids :
       clients'[id] # clients[id] /\ clients'[id] # None =>
         clients[id] = None /\ \A m \in 1 .. id - 1 : clients[m] # None]_cmVars
================================================================================
