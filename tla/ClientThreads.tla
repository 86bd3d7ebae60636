------------------------------ MODULE ClientThreads ------------------------------
(***************************************************************************)
(* ClientManager as several threads use it: what happens between lock and  *)
(* unlock of clientMapMutex, and what happens without it.                  *)
(*                                                                         *)
(* aquireNextID is the loop it is in the code, one step for each key.      *)
(* removeClient deletes the Client before it erases its entry.  getClient  *)
(* reads its iterator, and its caller the Client, after the mutex was      *)
(* released, and the broadcasts walk the map without it.                   *)
(*                                                                         *)
(* A connection is accepted once, so it also names its Client and its      *)
(* entry of the map.  Seen from outside, the table behaves as in module    *)
(* ClientManager.                                                          *)
(***************************************************************************)
EXTENDS ClientManager

CONSTANTS
  IO,           \* the io thread, which accepts
  Apps          \* the application's threads

ASSUME ThreadAssumption == IO \notin Apps /\ None \notin Apps \cup {IO}

Threads == Apps \cup {IO}

VARIABLES
  mutex,        \* clientMapMutex
  pc,           \* where each thread is
  conn,         \* the connection it adds, or whose entry or Client it holds
  passed,       \* aquireNextID: the keys before mapIter
  trackNum,
  accepted,
  freedBy,      \* history: the thread that deleted the Client of a connection
  undefined     \* a thread used what was deleted, or read the map during a change

threadVars == <<cmVars, mutex, pc, conn, passed, trackNum, accepted, freedBy, undefined>>

Inside == {"loop", "emplace", "erase", "entry", "missing"}    \* between lock and unlock

Places == Inside \cup {"idle", "found", "use", "iterate", "next"}

Goto(t, place, c) ==
  pc' = [pc EXCEPT ![t] = place] /\ conn' = [conn EXCEPT ![t] = c]

Deleted(c) == freedBy[c] # None

--------------------------------------------------------------------------------

ThreadInit ==
  /\ Init
  /\ mutex = None
  /\ pc = [t \in Threads |-> "idle"] /\ conn = [t \in Threads |-> None]
  /\ passed = {} /\ trackNum = 1
  /\ accepted = {} /\ freedBy = [c \in Conns |-> None]
  /\ undefined = FALSE

(* addClient, as far as the loop. *)
Accept(c) ==
  /\ pc[IO] = "idle" /\ mutex = None /\ c \notin accepted
  /\ mutex' = IO /\ accepted' = accepted \cup {c}
  /\ Goto(IO, "loop", c)
  /\ passed' = {} /\ trackNum' = 1
  /\ UNCHANGED <<cmVars, freedBy, undefined>>

(* *mapIter: the map is ordered, the iterator stands on the least key left. *)
AtKey(k) == k \in Used \ passed /\ \A j \in Used \ passed : k <= j

(* Fault: the id after the last key, a gap goes unnoticed. *)
FaultAdvance(k) ==
  /\ pc[IO] = "loop" /\ AtKey(k)
  /\ passed' = passed \cup {k} /\ trackNum' = k + 1
  /\ UNCHANGED <<cmVars, mutex, pc, conn, accepted, freedBy, undefined>>

Advance(k) ==
  /\ pc[IO] = "loop" /\ AtKey(k) /\ trackNum = k
  /\ passed' = passed \cup {k} /\ trackNum' = trackNum + 1
  /\ UNCHANGED <<cmVars, mutex, pc, conn, accepted, freedBy, undefined>>

Break(k) ==
  /\ pc[IO] = "loop" /\ AtKey(k) /\ trackNum # k
  /\ Goto(IO, "emplace", conn[IO])
  /\ UNCHANGED <<cmVars, mutex, passed, trackNum, accepted, freedBy, undefined>>

AtEnd ==
  /\ pc[IO] = "loop" /\ Used \ passed = {}
  /\ Goto(IO, "emplace", conn[IO])
  /\ UNCHANGED <<cmVars, mutex, passed, trackNum, accepted, freedBy, undefined>>

Fits == trackNum < MAX_CLIENTS

idSet(c) == [cid EXCEPT ![c] = trackNum]

FaultLeavesLocked == mutex' = mutex    \* fault: return without unlock

Unlock == mutex' = None

(* emplace changes nothing where there is a key. *)
Emplace ==
  LET c == conn[IO] IN
  /\ pc[IO] = "emplace"
  /\ IF Fits
       THEN /\ cid' = idSet(c)
            /\ clients' = [i \in Ids \cup {trackNum} |->
                             IF i # trackNum THEN clients[i]
                             ELSE IF i \in Used THEN clients[i] ELSE c]
       ELSE UNCHANGED cmVars
  /\ Unlock /\ Goto(IO, "idle", None)
  /\ passed' = {} /\ trackNum' = 1    \* the locals are gone
  /\ UNCHANGED <<accepted, freedBy, undefined>>

(* removeClient, as far as delete. *)
Remove(t, id) ==
  /\ pc[t] = "idle" /\ mutex = None /\ clients[id] # None
  /\ mutex' = t /\ Goto(t, "erase", clients[id])
  /\ freedBy' = [freedBy EXCEPT ![clients[id]] = t]
  /\ UNCHANGED <<cmVars, passed, trackNum, accepted, undefined>>

Erase(t) ==
  /\ pc[t] = "erase"
  /\ removeClient(cid[conn[t]])
  /\ Unlock /\ Goto(t, "idle", None)
  /\ UNCHANGED <<passed, trackNum, accepted, freedBy, undefined>>

Locks(t, place, c) ==
  /\ pc[t] = "idle" /\ mutex = None
  /\ mutex' = t /\ Goto(t, place, c)
  /\ UNCHANGED <<cmVars, passed, trackNum, accepted, freedBy, undefined>>

(* getClient finds an entry. *)
Find(t, id) == clients[id] # None /\ Locks(t, "entry", clients[id])

(* getClient or removeClient is given an id that is no key. *)
Miss(t) == Locks(t, "missing", None)

(* getClient keeps its iterator; who found nothing returns. *)
Leave(t) ==
  /\ \/ pc[t] = "entry" /\ Goto(t, "found", conn[t])
     \/ pc[t] = "missing" /\ Goto(t, "idle", None)
  /\ Unlock
  /\ UNCHANGED <<cmVars, passed, trackNum, accepted, freedBy, undefined>>

--------------------------------------------------------------------------------
(* What is done outside the mutex. *)

Touch(t, bad, place, c) ==
  /\ undefined' = bad
  /\ Goto(t, place, c)
  /\ UNCHANGED <<cmVars, mutex, passed, trackNum, accepted, freedBy>>

(* return mapFind->second *)
ReadEntry(t) ==
  /\ pc[t] = "found"
  /\ Touch(t, ~Registered(conn[t]), "use", conn[t])

(* client->getTCPConnection()->send(oPack) *)
Use(t) ==
  /\ pc[t] = "use"
  /\ Touch(t, Deleted(conn[t]), "idle", None)

(* Another thread changes the map under the mutex. *)
Changing(t) == \E u \in Threads \ {t} : pc[u] \in {"emplace", "erase"}

(* iter = clients.begin() and iter++ of the broadcasts: the next entry above id. *)
MoveTo(t, id, bad) ==
  LET above == { i \in Used : id < i } IN
  \/ above = {} /\ Touch(t, bad, "idle", None)
  \/ \E i \in above :
       /\ \A j \in above : i <= j
       /\ Touch(t, bad, "iterate", clients[i])

Broadcast(t) == pc[t] = "idle" /\ MoveTo(t, 0, Changing(t))

(* Fault: a client that was sent to is removed inside the loop. *)
FaultRemovesInLoop(t) ==
  /\ pc[t] = "iterate" /\ mutex = None
  /\ removeClient(cid[conn[t]])
  /\ freedBy' = [freedBy EXCEPT ![conn[t]] = t]
  /\ undefined' = Deleted(conn[t])
  /\ Goto(t, "next", conn[t])
  /\ UNCHANGED <<mutex, passed, trackNum, accepted>>

SendNext(t) ==
  /\ pc[t] = "iterate"
  /\ Touch(t, Deleted(conn[t]), "next", conn[t])

Increment(t) ==
  /\ pc[t] = "next"
  /\ MoveTo(t, cid[conn[t]], Changing(t) \/ ~Registered(conn[t]))

Critical(t) ==
  \/ t = IO /\ (AtEnd \/ Emplace \/ \E k \in Ids : Advance(k) \/ Break(k))
  \/ Erase(t) \/ Leave(t)

ThreadNext ==
  /\ ~undefined
  /\ \/ \E c \in Conns : Accept(c)
     \/ \E t \in Threads :
          \/ Critical(t)
          \/ (\E id \in Ids : Remove(t, id) \/ Find(t, id)) \/ Miss(t)
          \/ ReadEntry(t) \/ Use(t)
          \/ Broadcast(t) \/ SendNext(t) \/ Increment(t)

ThreadSpec == ThreadInit /\ [][ThreadNext]_threadVars

(* A thread that holds the mutex goes on. *)
Fairness == \A t \in Threads : WF_threadVars(~undefined /\ Critical(t))

FairThreadSpec == ThreadSpec /\ Fairness

--------------------------------------------------------------------------------

(* The threads implement the table that changes by one addition or removal at a time. *)
TableSpec == Spec

(***************************************************************************)
(* aquireNextID: only keys without a gap are passed, and the loop leaves   *)
(* the least id that is not a key: emplace inserts, and a free id below    *)
(* MAX_CLIENTS is found whenever there is one.                             *)
(***************************************************************************)
LoopInv ==
  /\ pc[IO] \in {"loop", "emplace"} =>
       mutex = IO /\ passed = 1 .. trackNum - 1 /\ passed \subseteq Used
  /\ pc[IO] = "emplace" => trackNum \notin Used

(***************************************************************************)
(* Undefined behaviour needs two threads: one that deleted a Client, or is *)
(* changing the map, and another that uses the entry or the map without    *)
(* the mutex.  What one thread does in order is safe.                      *)
(***************************************************************************)
UndefinedCause ==
  [][undefined' /\ ~undefined =>
       \E t \in Threads :
         /\ pc[t] \in {"idle", "found", "use", "iterate", "next"}
         /\ \/ conn[t] # None /\ freedBy[conn[t]] \notin {None, t}
            \/ mutex \notin {None, t}]_threadVars

(* Nobody keeps the mutex: the loop ends, and every operation gives it back on each *)
(* of its ways out.                                                                 *)
MutexReturned ==
  \A t \in Threads : mutex = t ~> (mutex # t \/ undefined)
================================================================================
