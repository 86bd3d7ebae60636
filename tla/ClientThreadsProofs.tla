--------------------------- MODULE ClientThreadsProofs ---------------------------
(***************************************************************************)
(* The client table, first with one change at a time and then under any     *)
(* number of threads, for every number of connections and of ids.           *)
(***************************************************************************)
EXTENDS ClientThreads, WellFoundedInduction, TLAPS

--------------------------------------------------------------------------------
(* ClientManager. *)

(***************************************************************************)
(* The CHOOSE of aquireNextID is well defined: some id from 1 on is free,  *)
(* at the latest MAX_CLIENTS itself, and among the free ones there is a    *)
(* least.                                                                  *)
(***************************************************************************)
LEMMA NextID ==
  /\ aquireNextID \in 1 .. MAX_CLIENTS
  /\ aquireNextID \notin Used
  /\ \A m \in 1 .. aquireNextID - 1 : m \in Used
<1> DEFINE Free == 1 .. MAX_CLIENTS \ Used
<1>1. Free \subseteq Nat /\ Free # {}
  <2>1. MAX_CLIENTS \in Free
    BY MaxAssumption DEF Used, Ids
  <2>2. QED
    BY <2>1, MaxAssumption
<1>2. PICK n \in Free : \A m \in Free : ~ (<<m, n>> \in OpToRel(<, Nat))
  BY <1>1, NatLessThanWellFounded, WFMin
<1>3. \A m \in Free : ~ (m < n)
  BY <1>1, <1>2 DEF OpToRel
<1>4. n \in 1 .. MAX_CLIENTS /\ n \notin Used /\ \A m \in 1 .. n - 1 : m \in Used
  <2>1. ASSUME NEW m \in 1 .. n - 1 PROVE m \in Used
    <3>1. m \in 1 .. MAX_CLIENTS /\ m < n
      BY MaxAssumption
    <3>2. QED
      BY <3>1, <1>3
  <2>2. QED
    BY <2>1
<1>5. QED
  BY <1>4 DEF aquireNextID

--------------------------------------------------------------------------------

LEMMA TypeInit == Init => TypeOK
  BY MaxAssumption DEF Init, TypeOK

(* What addClient does to the table, without the CHOOSE. *)
LEMMA AddClientEffect ==
  ASSUME TypeOK, NEW c \in Conns, addClient(c)
  PROVE  \/ UNCHANGED cmVars /\ Used = Ids
         \/ \E id \in Ids :
              /\ clients[id] = None
              /\ \A m \in 1 .. id - 1 : m \in Ids /\ clients[m] # None
              /\ clients' = [clients EXCEPT ![id] = c]
              /\ cid' = [cid EXCEPT ![c] = id]
<1> DEFINE id == aquireNextID
<1>1. CASE id >= MAX_CLIENTS
  <2>1. id = MAX_CLIENTS
    BY <1>1, NextID, MaxAssumption
  <2>2. \A m \in Ids : m \in Used
    BY <2>1, NextID DEF Ids
  <2>3. QED
    BY <1>1, <2>1, <2>2, MaxAssumption DEF addClient, Used
<1>2. CASE id < MAX_CLIENTS
  <2>1. id \in Ids
    BY <1>2, NextID, MaxAssumption DEF Ids
  <2>2. clients[id] = None /\ \A m \in 1 .. id - 1 : m \in Ids /\ clients[m] # None
    BY <2>1, NextID DEF Used
  <2>3. /\ clients' = [clients EXCEPT ![id] = c]
        /\ cid' = [cid EXCEPT ![c] = id]
    BY <1>2, NextID, MaxAssumption DEF addClient
  <2>4. QED
    BY <2>1, <2>2, <2>3
<1>3. QED
  BY <1>1, <1>2, NextID, MaxAssumption

LEMMA TypeStep == TypeOK /\ [Next]_cmVars => TypeOK'
<1> SUFFICES ASSUME TypeOK, [Next]_cmVars PROVE TypeOK'
  OBVIOUS
<1>1. CASE UNCHANGED cmVars
  BY <1>1 DEF TypeOK, cmVars
<1>2. ASSUME NEW c \in Conns, AddClient(c) PROVE TypeOK'
  <2>1. addClient(c)
    BY <1>2 DEF AddClient
  <2>2. QED
    BY <1>1, <2>1, AddClientEffect, MaxAssumption DEF TypeOK, Ids
<1>3. ASSUME NEW id \in Ids, RemoveClient(id) PROVE TypeOK'
  BY <1>3 DEF RemoveClient, removeClient, TypeOK
<1>4. QED
  BY <1>1, <1>2, <1>3 DEF Next

(* The table always maps ids below MAX_CLIENTS to connections. *)
THEOREM TypeCorrect == Spec => []TypeOK
<1>1. QED
  BY TypeInit, TypeStep, PTL DEF Spec

--------------------------------------------------------------------------------

LEMMA MatchStep == TypeOK /\ IdMatches /\ [Next]_cmVars => IdMatches'
<1> SUFFICES ASSUME TypeOK, IdMatches, [Next]_cmVars PROVE IdMatches'
  OBVIOUS
<1>1. CASE UNCHANGED cmVars
  BY <1>1 DEF IdMatches, cmVars
<1>2. ASSUME NEW c \in Conns, AddClient(c) PROVE IdMatches'
  <2>1. addClient(c) /\ \A i \in Ids : clients[i] # c
    BY <1>2 DEF AddClient, Registered
  <2>2. CASE UNCHANGED cmVars
    BY <2>2, <1>1
  <2>3. ASSUME NEW id \in Ids,
               clients' = [clients EXCEPT ![id] = c],
               cid' = [cid EXCEPT ![c] = id]
        PROVE  IdMatches'
    BY <2>1, <2>3 DEF IdMatches, TypeOK
  <2>4. QED
    BY <2>1, <2>2, <2>3, AddClientEffect
<1>3. ASSUME NEW id \in Ids, RemoveClient(id) PROVE IdMatches'
  BY <1>3 DEF RemoveClient, removeClient, IdMatches, TypeOK
<1>4. QED
  BY <1>1, <1>2, <1>3 DEF Next

(* The key of a client is the id its connection carries. *)
THEOREM KeysMatch == Spec => []IdMatches
<1>1. Init => IdMatches
  BY DEF Init, IdMatches
<1>2. QED
  BY <1>1, TypeCorrect, MatchStep, PTL DEF Spec

--------------------------------------------------------------------------------

LEMMA LeastFreeStep ==
  TypeOK /\ Next =>
    \A id \in Ids :
      clients'[id] # clients[id] /\ clients'[id] # None =>
        clients[id] = None /\ \A m \in 1 .. id - 1 : clients[m] # None
<1> SUFFICES ASSUME TypeOK, Next, NEW id \in Ids,
                    clients'[id] # clients[id], clients'[id] # None
             PROVE  clients[id] = None /\ \A m \in 1 .. id - 1 : clients[m] # None
  OBVIOUS
<1>1. ASSUME NEW c \in Conns, AddClient(c)
      PROVE  clients[id] = None /\ \A m \in 1 .. id - 1 : clients[m] # None
  <2>1. addClient(c)
    BY <1>1 DEF AddClient
  <2>2. PICK i \in Ids :
          /\ clients[i] = None
          /\ \A m \in 1 .. i - 1 : m \in Ids /\ clients[m] # None
          /\ clients' = [clients EXCEPT ![i] = c]
    BY <2>1, AddClientEffect DEF cmVars
  <2>3. i = id
    BY <2>2 DEF TypeOK
  <2>4. QED
    BY <2>2, <2>3
<1>2. ASSUME NEW i \in Ids, RemoveClient(i)
      PROVE  FALSE
  BY <1>2 DEF RemoveClient, removeClient, TypeOK
<1>3. QED
  BY <1>1, <1>2 DEF Next

(* A slot is only ever filled when it is the least free one. *)
THEOREM FillsLeastFree == Spec => LeastFreeId
<1>1. TypeOK /\ [Next]_cmVars =>
        [\A id \in Ids :
           clients'[id] # clients[id] /\ clients'[id] # None =>
             clients[id] = None /\ \A m \in 1 .. id - 1 : clients[m] # None]_cmVars
  BY LeastFreeStep
<1>2. QED
  BY <1>1, TypeCorrect, PTL DEF Spec, LeastFreeId

--------------------------------------------------------------------------------
(* ClientThreads. *)

(***************************************************************************)
(* The inductive invariant.  Whoever is in the middle of a change holds    *)
(* the mutex, so what it found when it took the mutex still holds: the     *)
(* new connection is in no slot, the entry to be erased is in its own.     *)
(***************************************************************************)
Holds ==
  \A t \in Threads : pc[t] \in Inside => mutex = t

Control ==
  /\ pc \in [Threads -> Places] /\ conn \in [Threads -> Conns \cup {None}]
  /\ passed \subseteq Ids /\ trackNum \in 1 .. MAX_CLIENTS
  /\ accepted \subseteq Conns

Adding ==
  pc[IO] \in {"loop", "emplace"} =>
    conn[IO] \in Conns /\ conn[IO] \in accepted /\ ~Registered(conn[IO])

Erasing ==
  \A t \in Threads : pc[t] = "erase" =>
    conn[t] \in Conns /\ cid[conn[t]] \in Ids /\ clients[cid[conn[t]]] = conn[t]

Known == \A id \in Ids : clients[id] # None => clients[id] \in accepted

IInv ==
  TypeOK /\ IdMatches /\ Control /\ Holds /\ LoopInv /\ Adding /\ Erasing /\ Known

USE ThreadAssumption DEF Threads

--------------------------------------------------------------------------------

LEMMA IInvInit == ThreadInit => IInv
<1> SUFFICES ASSUME ThreadInit PROVE IInv
  OBVIOUS
<1>1. TypeOK /\ IdMatches
  BY TypeInit DEF ThreadInit, Init, IdMatches
<1>2. Control
  BY MaxAssumption DEF ThreadInit, Control, Places, Inside
<1>3. Holds /\ LoopInv /\ Adding /\ Erasing
  BY DEF ThreadInit, Inside, Holds, LoopInv, Adding, Erasing
<1>4. Known
  BY DEF ThreadInit, Init, Known
<1>5. QED
  BY <1>1, <1>2, <1>3, <1>4 DEF IInv

(* What the loop leaves is the id that the abstract table chooses. *)
LEMMA LoopResult ==
  ASSUME TypeOK, Control, LoopInv, pc[IO] = "emplace"
  PROVE  aquireNextID = trackNum
<1>1. /\ trackNum \in 1 .. MAX_CLIENTS
      /\ trackNum \notin Used
      /\ \A m \in 1 .. trackNum - 1 : m \in Used
  BY DEF Control, LoopInv
<1>2. ~(aquireNextID < trackNum)
  BY <1>1, NextID, MaxAssumption
<1>3. ~(trackNum < aquireNextID)
  BY <1>1, NextID, MaxAssumption
<1>4. QED
  BY <1>1, <1>2, <1>3, NextID, MaxAssumption

(* Emplace is an addition to the abstract table. *)
LEMMA EmplaceAdds ==
  ASSUME IInv, Emplace
  PROVE  AddClient(conn[IO]) /\ conn[IO] \in Conns
<1>1. conn[IO] \in Conns /\ ~Registered(conn[IO])
  BY DEF IInv, Emplace, Adding
<1>2. aquireNextID = trackNum /\ trackNum \in 1 .. MAX_CLIENTS /\ trackNum \notin Used
  BY LoopResult DEF IInv, Emplace, Control, LoopInv
<1>3. CASE Fits
  <2>1. trackNum \in Ids
    BY <1>2, <1>3, MaxAssumption DEF Fits, Ids
  <2>2. clients' = [i \in Ids |-> IF i # trackNum THEN clients[i] ELSE conn[IO]]
    BY <1>2, <1>3, <2>1 DEF Emplace
  <2>3. clients' = [clients EXCEPT ![trackNum] = conn[IO]]
    BY <2>2 DEF IInv, TypeOK
  <2>4. cid' = [cid EXCEPT ![conn[IO]] = trackNum]
    BY <1>3 DEF Emplace, idSet
  <2>5. QED
    BY <1>1, <1>2, <1>3, <2>3, <2>4 DEF AddClient, addClient, Fits
<1>4. CASE ~Fits
  <2>1. UNCHANGED cmVars /\ aquireNextID >= MAX_CLIENTS
    BY <1>2, <1>4, MaxAssumption DEF Emplace, Fits
  <2>2. QED
    BY <1>1, <2>1 DEF AddClient, addClient
<1>5. QED
  BY <1>1, <1>3, <1>4

(* Erase is a removal from it. *)
LEMMA EraseRemoves ==
  ASSUME IInv, NEW t \in Threads, Erase(t)
  PROVE  cid[conn[t]] \in Ids /\ RemoveClient(cid[conn[t]])
  BY DEF IInv, Erase, Erasing, RemoveClient

(* Everything else leaves the table alone. *)
LEMMA OthersKeepTable ==
  ASSUME ThreadNext, ~Emplace, \A t \in Threads : ~Erase(t)
  PROVE  UNCHANGED cmVars
  BY DEF ThreadNext, Critical, Accept, AtEnd, Advance, Break, Remove, Find, Miss, Locks, Leave,
         ReadEntry, Use, Broadcast, SendNext, Increment, MoveTo, Touch

(* Every step of a thread is a step of the abstract table, or none. *)
LEMMA TableStep == IInv /\ [ThreadNext]_threadVars => [Next]_cmVars
<1> SUFFICES ASSUME IInv, [ThreadNext]_threadVars PROVE [Next]_cmVars
  OBVIOUS
<1>1. CASE UNCHANGED threadVars
  BY <1>1 DEF threadVars, cmVars
<1>2. CASE Emplace
  BY <1>2, EmplaceAdds DEF Next
<1>3. ASSUME NEW t \in Threads, Erase(t) PROVE Next
  BY <1>3, EraseRemoves DEF Next
<1>4. CASE ThreadNext /\ ~Emplace /\ \A t \in Threads : ~Erase(t)
  BY <1>4, OthersKeepTable
<1>5. QED
  BY <1>1, <1>2, <1>3, <1>4

--------------------------------------------------------------------------------
(* Each group of steps keeps the invariant; of its parts, TypeOK and       *)
(* IdMatches follow from the abstract table.                               *)

Rest == Control /\ Holds /\ LoopInv /\ Adding /\ Erasing /\ Known

LEMMA AcceptStep ==
  ASSUME IInv, NEW c \in Conns, Accept(c)
  PROVE  Rest'
<1>1. /\ pc' = [pc EXCEPT ![IO] = "loop"] /\ conn' = [conn EXCEPT ![IO] = c]
      /\ mutex = None /\ mutex' = IO /\ passed' = {} /\ trackNum' = 1
      /\ accepted' = accepted \cup {c} /\ c \notin accepted
      /\ clients' = clients /\ cid' = cid
  BY DEF Accept, Goto, cmVars
<1>2. Control'
  BY <1>1, MaxAssumption DEF IInv, Control, Places, Inside, Ids
<1>3. \A t \in Threads : pc[t] \notin Inside
  BY <1>1 DEF IInv, Inside, Holds
<1>4. Holds' /\ Erasing'
  BY <1>1, <1>3 DEF IInv, Control, Inside, Holds, Erasing
<1>5. pc'[IO] = "loop" /\ conn'[IO] = c
  BY <1>1 DEF IInv, Control
<1>6. LoopInv'
  BY <1>1, <1>5 DEF LoopInv, Used
<1>7. Adding' /\ Known'
  BY <1>1, <1>5, ConnsAssumption DEF IInv, Known, Adding, Registered
<1>8. QED
  BY <1>2, <1>4, <1>6, <1>7 DEF Rest

LEMMA AdvanceStep ==
  ASSUME IInv, NEW k \in Ids, Advance(k)
  PROVE  Rest'
<1>1. /\ pc' = pc /\ conn' = conn /\ mutex' = mutex /\ accepted' = accepted
      /\ clients' = clients /\ cid' = cid
      /\ pc[IO] = "loop" /\ k = trackNum /\ k \in Used
      /\ passed' = passed \cup {k} /\ trackNum' = trackNum + 1
  BY DEF Advance, AtKey, cmVars
<1>2. Control'
  BY <1>1, MaxAssumption DEF IInv, Control, Ids
<1>3. passed' = 1 .. trackNum' - 1
  BY <1>1 DEF IInv, LoopInv, Control
<1>4. LoopInv'
  BY <1>1, <1>3 DEF IInv, LoopInv, Used
<1>5. Holds' /\ Adding' /\ Erasing' /\ Known'
  BY <1>1 DEF IInv, Inside, Holds, Adding, Erasing, Known, Registered
<1>6. QED
  BY <1>2, <1>4, <1>5 DEF Rest

LEMMA ExitStep ==
  ASSUME IInv, AtEnd \/ \E k \in Ids : Break(k)
  PROVE  Rest'
<1>1. /\ pc' = [pc EXCEPT ![IO] = "emplace"] /\ conn' = [conn EXCEPT ![IO] = conn[IO]]
      /\ mutex' = mutex /\ accepted' = accepted
      /\ clients' = clients /\ cid' = cid
      /\ pc[IO] = "loop" /\ passed' = passed /\ trackNum' = trackNum
  BY DEF AtEnd, Break, Goto, cmVars
<1>2. conn' = conn /\ \A t \in Threads : pc'[t] = IF t = IO THEN "emplace" ELSE pc[t]
  BY <1>1 DEF IInv, Control
<1>3. trackNum \notin Used
  <2>1. CASE AtEnd
    BY <1>1, <2>1 DEF AtEnd, IInv, LoopInv, Control
  <2>2. ASSUME NEW k \in Ids, Break(k) PROVE trackNum \notin Used
    <3>1. k \in Used \ passed /\ k # trackNum /\ \A j \in Used \ passed : k <= j
      BY <2>2 DEF Break, AtKey
    <3>2. passed = 1 .. trackNum - 1 /\ trackNum \in Int
      BY <1>1 DEF IInv, LoopInv, Control
    <3>3. k > trackNum
      BY <3>1, <3>2 DEF Ids
    <3>4. trackNum \notin passed /\ ~(k <= trackNum)
      BY <3>2, <3>3 DEF Ids
    <3>5. QED
      BY <3>1, <3>4
  <2>3. QED
    BY <2>1, <2>2
<1>4. Control'
  BY <1>1, <1>2 DEF IInv, Control, Places, Inside
<1>5. LoopInv'
  BY <1>1, <1>2, <1>3 DEF IInv, LoopInv, Used
<1>6. Holds' /\ Adding' /\ Erasing' /\ Known'
  BY <1>1, <1>2 DEF IInv, Inside, Holds, Adding, Erasing, Known, Registered
<1>7. QED
  BY <1>4, <1>5, <1>6 DEF Rest

LEMMA EmplaceStep ==
  ASSUME IInv, Emplace
  PROVE  Rest'
<1>1. /\ pc' = [pc EXCEPT ![IO] = "idle"] /\ conn' = [conn EXCEPT ![IO] = None]
      /\ mutex' = None /\ accepted' = accepted /\ pc[IO] = "emplace"
      /\ passed' = {} /\ trackNum' = 1
  BY DEF Emplace, Unlock, Goto
<1>2. \A t \in Threads : pc'[t] = IF t = IO THEN "idle" ELSE pc[t]
  BY <1>1 DEF IInv, Control
<1>3. Control'
  BY <1>1, MaxAssumption DEF IInv, Control, Places, Inside
<1>4. mutex = IO /\ \A t \in Threads \ {IO} : pc[t] \notin Inside
  BY <1>1 DEF IInv, Inside, Holds
<1>5. Holds' /\ LoopInv' /\ Adding' /\ Erasing'
  BY <1>2, <1>4 DEF Inside, Holds, LoopInv, Adding, Erasing
<1>6. Known'
  <2>1. conn[IO] \in accepted /\ conn[IO] \in Conns /\ addClient(conn[IO])
    BY <1>1, EmplaceAdds DEF IInv, Adding, AddClient
  <2>2. \/ clients' = clients
        \/ \E id \in Ids : clients' = [clients EXCEPT ![id] = conn[IO]]
    BY <2>1, AddClientEffect DEF IInv, cmVars
  <2>3. QED
    BY <1>1, <2>1, <2>2 DEF IInv, Known, TypeOK
<1>7. QED
  BY <1>3, <1>5, <1>6 DEF Rest

LEMMA RemoveStep ==
  ASSUME IInv, NEW t \in Threads, NEW id \in Ids, Remove(t, id)
  PROVE  Rest'
<1> DEFINE c == clients[id]
<1>1. /\ pc' = [pc EXCEPT ![t] = "erase"] /\ conn' = [conn EXCEPT ![t] = c]
      /\ mutex = None /\ mutex' = t /\ c # None /\ pc[t] = "idle"
      /\ passed' = passed /\ trackNum' = trackNum /\ accepted' = accepted
      /\ clients' = clients /\ cid' = cid
  BY DEF Remove, Goto, cmVars
<1>2. c \in Conns /\ cid[c] = id
  BY <1>1 DEF IInv, TypeOK, IdMatches
<1>3. Control'
  BY <1>1, <1>2 DEF IInv, Control, Places, Inside
<1>4. \A u \in Threads : pc[u] \notin Inside
  BY <1>1 DEF IInv, Inside, Holds
<1>5. \A u \in Threads : /\ pc'[u] = IF u = t THEN "erase" ELSE pc[u]
                         /\ conn'[u] = IF u = t THEN c ELSE conn[u]
  BY <1>1 DEF IInv, Control
<1>6. Holds' /\ LoopInv' /\ Adding' /\ Erasing'
  BY <1>1, <1>2, <1>4, <1>5 DEF Inside, Holds, LoopInv, Adding, Erasing
<1>7. Known'
  BY <1>1 DEF IInv, Known
<1>8. QED
  BY <1>3, <1>6, <1>7 DEF Rest

LEMMA EraseStep ==
  ASSUME IInv, NEW t \in Threads, Erase(t)
  PROVE  Rest'
<1>1. /\ pc' = [pc EXCEPT ![t] = "idle"] /\ conn' = [conn EXCEPT ![t] = None]
      /\ mutex' = None /\ pc[t] = "erase" /\ accepted' = accepted
      /\ passed' = passed /\ trackNum' = trackNum
  BY DEF Erase, Unlock, Goto
<1>2. Control'
  BY <1>1 DEF IInv, Control, Places, Inside
<1>3. \A u \in Threads \ {t} : pc[u] \notin Inside
  BY <1>1 DEF IInv, Inside, Holds
<1>4. \A u \in Threads : pc'[u] \notin Inside
  BY <1>1, <1>3 DEF IInv, Control, Inside
<1>5. Holds' /\ LoopInv' /\ Adding' /\ Erasing'
  BY <1>4 DEF Inside, Holds, LoopInv, Adding, Erasing
<1>6. Known'
  BY <1>1, EraseRemoves DEF IInv, Known, RemoveClient, removeClient
<1>7. QED
  BY <1>2, <1>5, <1>6 DEF Rest

LEMMA LocksStep ==
  ASSUME IInv, NEW t \in Threads, NEW place \in {"entry", "missing"}, NEW c \in Conns \cup {None},
         Locks(t, place, c)
  PROVE  Rest'
<1>1. /\ pc' = [pc EXCEPT ![t] = place] /\ conn' = [conn EXCEPT ![t] = c]
      /\ mutex = None /\ mutex' = t
      /\ passed' = passed /\ trackNum' = trackNum /\ accepted' = accepted
      /\ clients' = clients /\ cid' = cid
  BY DEF Locks, Goto, cmVars
<1>2. Control'
  BY <1>1 DEF IInv, Control, Places, Inside
<1>3. \A u \in Threads : pc[u] \notin Inside
  BY <1>1 DEF IInv, Holds
<1>4. \A u \in Threads : pc'[u] = IF u = t THEN place ELSE pc[u]
  BY <1>1 DEF IInv, Control
<1>5. Holds' /\ LoopInv' /\ Adding' /\ Erasing'
  BY <1>1, <1>3, <1>4 DEF Inside, Holds, LoopInv, Adding, Erasing
<1>6. Known'
  BY <1>1 DEF IInv, Known
<1>7. QED
  BY <1>2, <1>5, <1>6 DEF Rest

LEMMA LeaveStep ==
  ASSUME IInv, NEW t \in Threads, Leave(t)
  PROVE  Rest'
<1>1. PICK place \in {"found", "idle"}, c \in Conns \cup {None} :
        pc' = [pc EXCEPT ![t] = place] /\ conn' = [conn EXCEPT ![t] = c]
  BY DEF Leave, Goto, IInv, Control
<1>2. /\ mutex' = None /\ pc[t] \in {"entry", "missing"} /\ accepted' = accepted
      /\ passed' = passed /\ trackNum' = trackNum /\ clients' = clients /\ cid' = cid
  BY DEF Leave, Unlock, cmVars
<1>3. Control'
  BY <1>1, <1>2 DEF IInv, Control, Places, Inside
<1>4. \A u \in Threads \ {t} : pc[u] \notin Inside
  BY <1>2 DEF IInv, Inside, Holds
<1>5. \A u \in Threads : pc'[u] \notin Inside
  BY <1>1, <1>4 DEF IInv, Control, Inside
<1>6. Holds' /\ LoopInv' /\ Adding' /\ Erasing'
  BY <1>5 DEF Inside, Holds, LoopInv, Adding, Erasing
<1>7. Known'
  BY <1>2 DEF IInv, Known
<1>8. QED
  BY <1>3, <1>6, <1>7 DEF Rest

(* What is done outside the mutex moves no thread into a change. *)
LEMMA OutsideStep ==
  ASSUME IInv, NEW t \in Threads, NEW bad, NEW place \in {"idle", "found", "use", "iterate", "next"},
         NEW c \in Conns \cup {None},
         pc[t] \notin Inside, Touch(t, bad, place, c)
  PROVE  Rest'
<1>1. /\ pc' = [pc EXCEPT ![t] = place] /\ conn' = [conn EXCEPT ![t] = c]
      /\ mutex' = mutex /\ passed' = passed /\ trackNum' = trackNum
      /\ accepted' = accepted /\ clients' = clients /\ cid' = cid
  BY DEF Touch, Goto, cmVars
<1>2. Control'
  BY <1>1 DEF IInv, Control, Places, Inside
<1>3. \A u \in Threads :
        pc'[u] \in Inside => pc'[u] = pc[u] /\ conn'[u] = conn[u]
  BY <1>1 DEF IInv, Control, Inside
<1>4. Holds' /\ Erasing'
  BY <1>1, <1>3 DEF IInv, Inside, Holds, Erasing
<1>5. LoopInv' /\ Adding'
  BY <1>1, <1>3 DEF IInv, Inside, LoopInv, Adding, Used, Registered
<1>6. Known'
  BY <1>1 DEF IInv, Known
<1>7. QED
  BY <1>2, <1>4, <1>5, <1>6 DEF Rest

(* An entry of the map is a connection. *)
LEMMA Outside ==
  ASSUME IInv, NEW t \in Threads,
         \/ ReadEntry(t) \/ Use(t)
         \/ Broadcast(t) \/ SendNext(t) \/ Increment(t)
  PROVE  Rest'
<1>1. conn[t] \in Conns \cup {None} /\ \A id \in Ids : clients[id] \in Conns \cup {None}
  BY DEF IInv, TypeOK, Control
<1>2. CASE ReadEntry(t)
  BY <1>1, <1>2, OutsideStep DEF ReadEntry, Inside
<1>3. CASE Use(t)
  BY <1>1, <1>3, OutsideStep DEF Use, Inside
<1>4. CASE SendNext(t)
  BY <1>1, <1>4, OutsideStep DEF SendNext, Inside
<1>5. ASSUME NEW id, NEW bad, MoveTo(t, id, bad), pc[t] \in {"idle", "next"} PROVE Rest'
  <2>1. PICK place \in {"idle", "iterate"}, c \in Conns \cup {None} : Touch(t, bad, place, c)
    BY <1>1, <1>5 DEF MoveTo, Used
  <2>2. QED
    BY <1>5, <2>1, OutsideStep DEF Inside
<1>6. CASE Broadcast(t)
  BY <1>5, <1>6 DEF Broadcast
<1>7. CASE Increment(t)
  BY <1>5, <1>7 DEF Increment
<1>8. QED
  BY <1>2, <1>3, <1>4, <1>6, <1>7

--------------------------------------------------------------------------------

LEMMA IInvStep == IInv /\ [ThreadNext]_threadVars => IInv'
<1> SUFFICES ASSUME IInv, [ThreadNext]_threadVars PROVE IInv'
  OBVIOUS
<1>1. TypeOK' /\ IdMatches'
  BY TableStep, TypeStep, MatchStep DEF IInv
<1>2. CASE UNCHANGED threadVars
  BY <1>1, <1>2 DEF threadVars, cmVars, IInv, Control, Holds, LoopInv, Adding, Erasing, Known,
                    Used, Registered
<1>3. CASE ThreadNext
  <2>1. ASSUME NEW t \in Threads, NEW id \in Ids, Find(t, id) PROVE Rest'
    BY <2>1, LocksStep DEF Find, IInv, TypeOK
  <2>2. ASSUME NEW t \in Threads, Miss(t) PROVE Rest'
    BY <2>2, LocksStep DEF Miss
  <2>3. Rest'
    BY <1>3, <2>1, <2>2, AcceptStep, AdvanceStep, ExitStep, EmplaceStep, RemoveStep, EraseStep,
       LeaveStep, Outside DEF ThreadNext, Critical
  <2>4. QED
    BY <1>1, <2>3 DEF IInv, Rest
<1>4. QED
  BY <1>2, <1>3

(* Threads in the middle of addClient or removeClient find the table as they left it. *)
THEOREM Invariant == ThreadSpec => []IInv
<1>1. QED
  BY IInvInit, IInvStep, PTL DEF ThreadSpec

(***************************************************************************)
(* aquireNextID finds the least free id while other threads go on outside  *)
(* the mutex (ClientManager.cpp:65).                                       *)
(***************************************************************************)
THEOREM LoopCorrect == ThreadSpec => []LoopInv
<1>1. IInv => LoopInv
  BY DEF IInv
<1>2. QED
  BY <1>1, Invariant, PTL

(***************************************************************************)
(* The operations of ClientManager are atomic: seen from outside, the      *)
(* table changes by one whole addition or removal at a time, whatever the  *)
(* other threads do between lock and unlock.                               *)
(***************************************************************************)
THEOREM ImplementsTable == ThreadSpec => TableSpec
<1>1. ThreadInit => Init
  BY DEF ThreadInit
<1>2. QED
  BY <1>1, TableStep, Invariant, PTL DEF ThreadSpec, TableSpec, Spec

(***************************************************************************)
(* Hence what is proved of the abstract table holds of the threads: types, *)
(* keys that match ids, and the least free id for a new client.            *)
(***************************************************************************)
THEOREM TableProperties == ThreadSpec => []TypeOK /\ []IdMatches /\ LeastFreeId
<1>1. QED
  BY ImplementsTable, TypeCorrect, KeysMatch, FillsLeastFree, PTL DEF TableSpec

--------------------------------------------------------------------------------
(* What history knows of deleted Clients. *)

Holding == {"entry", "found", "use", "iterate", "next"}

(***************************************************************************)
(* A deleted Client that is still in the map is about to be erased by the  *)
(* thread that deleted it; a thread that holds an entry did not delete it, *)
(* and the entry is there until another thread does.                       *)
(***************************************************************************)
Freed ==
  \A id \in Ids :
    clients[id] # None /\ Deleted(clients[id]) =>
      \E u \in Threads : /\ freedBy[clients[id]] = u
                         /\ pc[u] = "erase" /\ conn[u] = clients[id]

Held ==
  \A t \in Threads :
    pc[t] \in Holding =>
      /\ conn[t] \in Conns
      /\ freedBy[conn[t]] # t
      /\ ~Deleted(conn[t]) => Registered(conn[t])

New ==
  /\ \A c \in Conns \ accepted : ~Deleted(c)
  /\ pc[IO] \in {"loop", "emplace"} => ~Deleted(conn[IO])
  /\ \A t \in Threads : pc[t] = "erase" => Deleted(conn[t])

HInv == IInv /\ freedBy \in [Conns -> Threads \cup {None}] /\ Freed /\ Held /\ New

HRest == freedBy \in [Conns -> Threads \cup {None}] /\ Freed /\ Held /\ New

LEMMA HInvInit == ThreadInit => HInv
  BY IInvInit DEF ThreadInit, Init, HInv, Freed, Held, New, Deleted, Holding

LEMMA HAccept ==
  ASSUME HInv, NEW c \in Conns, Accept(c)
  PROVE  HRest'
<1>1. /\ pc' = [pc EXCEPT ![IO] = "loop"] /\ conn' = [conn EXCEPT ![IO] = c]
      /\ pc[IO] = "idle" /\ c \notin accepted /\ accepted' = accepted \cup {c}
      /\ clients' = clients /\ freedBy' = freedBy
  BY DEF Accept, Goto, cmVars
<1>2. \A t \in Threads : /\ pc'[t] = IF t = IO THEN "loop" ELSE pc[t]
                         /\ conn'[t] = IF t = IO THEN c ELSE conn[t]
  BY <1>1 DEF HInv, IInv, Control
<1>3. freedBy' \in [Conns -> Threads \cup {None}] /\ New'
  BY <1>1, <1>2 DEF HInv, New, Deleted
<1>4. Freed'
  BY <1>1, <1>2 DEF HInv, Freed, Deleted
<1>5. Held'
  BY <1>1, <1>2 DEF HInv, Held, Deleted, Registered, Holding
<1>6. QED
  BY <1>3, <1>4, <1>5 DEF HRest

LEMMA HLoop ==
  ASSUME HInv, AtEnd \/ \E k \in Ids : Advance(k) \/ Break(k)
  PROVE  HRest'
<1>1. /\ pc' = pc \/ pc' = [pc EXCEPT ![IO] = "emplace"]
      /\ conn' = conn \/ conn' = [conn EXCEPT ![IO] = conn[IO]]
      /\ pc[IO] = "loop" /\ accepted' = accepted /\ clients' = clients /\ freedBy' = freedBy
  BY DEF AtEnd, Advance, Break, Goto, cmVars
<1>2. \A t \in Threads : /\ pc'[t] = pc[t] \/ (t = IO /\ pc'[t] = "emplace")
                         /\ conn'[t] = conn[t]
  BY <1>1 DEF HInv, IInv, Control
<1>3. freedBy' \in [Conns -> Threads \cup {None}] /\ New'
  BY <1>1, <1>2 DEF HInv, New, Deleted
<1>4. Freed'
  BY <1>1, <1>2 DEF HInv, Freed, Deleted
<1>5. Held'
  BY <1>1, <1>2 DEF HInv, Held, Deleted, Registered, Holding
<1>6. QED
  BY <1>3, <1>4, <1>5 DEF HRest

LEMMA HEmplace ==
  ASSUME HInv, Emplace
  PROVE  HRest'
<1>1. /\ pc' = [pc EXCEPT ![IO] = "idle"] /\ conn' = [conn EXCEPT ![IO] = None]
      /\ pc[IO] = "emplace" /\ accepted' = accepted /\ freedBy' = freedBy
  BY DEF Emplace, Unlock, Goto
<1>2. \A t \in Threads : /\ pc'[t] = IF t = IO THEN "idle" ELSE pc[t]
                         /\ t # IO => conn'[t] = conn[t]
  BY <1>1 DEF HInv, IInv, Control
<1>3. addClient(conn[IO]) /\ conn[IO] \in Conns /\ ~Deleted(conn[IO])
  BY <1>1, EmplaceAdds DEF HInv, AddClient, New
<1>4. \/ clients' = clients
      \/ \E id \in Ids : clients[id] = None /\ clients' = [clients EXCEPT ![id] = conn[IO]]
  BY <1>3, AddClientEffect DEF HInv, IInv, cmVars
<1>5. \A id \in Ids : \/ clients'[id] = clients[id]
                      \/ clients[id] = None /\ clients'[id] = conn[IO]
  BY <1>4 DEF HInv, IInv, TypeOK
<1>6. freedBy' \in [Conns -> Threads \cup {None}] /\ New'
  <2>1. pc'[IO] = "idle" /\ \A t \in Threads : pc'[t] = "erase" => pc[t] = "erase" /\ t # IO
    BY <1>2
  <2>2. QED
    BY <1>1, <1>2, <2>1 DEF HInv, New, Deleted
<1>7. Freed'
  BY <1>1, <1>2, <1>3, <1>5 DEF HInv, Freed, Deleted
<1>8. Held'
  BY <1>1, <1>2, <1>5, ConnsAssumption DEF HInv, Held, Deleted, Registered, Holding
<1>9. QED
  BY <1>6, <1>7, <1>8 DEF HRest

LEMMA HRemove ==
  ASSUME HInv, NEW t \in Threads, NEW id \in Ids, Remove(t, id)
  PROVE  HRest'
<1> DEFINE c == clients[id]
<1>1. /\ pc' = [pc EXCEPT ![t] = "erase"] /\ conn' = [conn EXCEPT ![t] = c]
      /\ mutex = None /\ pc[t] = "idle" /\ c # None /\ accepted' = accepted
      /\ clients' = clients /\ freedBy' = [freedBy EXCEPT ![c] = t]
  BY DEF Remove, Goto, cmVars
<1>2. c \in Conns /\ c \in accepted
  BY <1>1 DEF HInv, IInv, TypeOK, Known
<1>3. \A u \in Threads : /\ pc'[u] = IF u = t THEN "erase" ELSE pc[u]
                         /\ conn'[u] = IF u = t THEN c ELSE conn[u]
  BY <1>1 DEF HInv, IInv, Control
<1>4. \A d \in Conns : freedBy'[d] = IF d = c THEN t ELSE freedBy[d]
  BY <1>1 DEF HInv
<1>5. \A u \in Threads : pc[u] \notin Inside
  BY <1>1 DEF HInv, IInv, Inside, Holds
<1>6. freedBy' \in [Conns -> Threads \cup {None}] /\ New'
  BY <1>1, <1>2, <1>3, <1>4, <1>5 DEF HInv, New, Deleted, Inside
<1>7. \A i \in Ids : clients[i] # None => ~Deleted(clients[i]) /\ clients[i] \in Conns
  BY <1>5 DEF HInv, IInv, TypeOK, Freed, Inside
<1>8. Freed'
  BY <1>1, <1>3, <1>4, <1>7 DEF Freed, Deleted
<1>9. Held'
  BY <1>1, <1>3, <1>4 DEF HInv, Held, Deleted, Registered, Holding
<1>10. QED
  BY <1>6, <1>8, <1>9 DEF HRest

LEMMA HErase ==
  ASSUME HInv, NEW t \in Threads, Erase(t)
  PROVE  HRest'
<1>1. /\ pc' = [pc EXCEPT ![t] = "idle"] /\ conn' = [conn EXCEPT ![t] = None]
      /\ pc[t] = "erase" /\ accepted' = accepted /\ freedBy' = freedBy
      /\ clients' = [i \in Ids |-> IF i = cid[conn[t]] THEN None ELSE clients[i]]
  BY DEF Erase, Goto, removeClient
<1>2. \A u \in Threads : /\ pc'[u] = IF u = t THEN "idle" ELSE pc[u]
                         /\ u # t => conn'[u] = conn[u]
  BY <1>1 DEF HInv, IInv, Control
<1>3. freedBy' \in [Conns -> Threads \cup {None}] /\ New'
  BY <1>1, <1>2 DEF HInv, New, Deleted
<1>4. conn[t] \in Conns /\ \A i \in Ids : clients[i] = conn[t] => cid[conn[t]] = i
  BY <1>1, ConnsAssumption DEF HInv, IInv, Erasing, IdMatches
<1>5. \A i \in Ids : clients'[i] # None => clients'[i] = clients[i] /\ clients[i] # conn[t]
  BY <1>1, <1>4
<1>6. Freed'
  BY <1>1, <1>2, <1>5 DEF HInv, Freed, Deleted
<1>7. Held'
  <2> SUFFICES ASSUME NEW u \in Threads, pc'[u] \in Holding
               PROVE  /\ conn'[u] \in Conns /\ freedBy'[conn'[u]] # u
                      /\ freedBy'[conn'[u]] = None => \E i \in Ids : clients'[i] = conn'[u]
    BY DEF Held, Deleted, Registered, Holding
  <2>1. u # t /\ pc[u] \in Holding /\ conn'[u] = conn[u]
    <3>1. "idle" \notin Holding
      BY DEF Holding
    <3>2. QED
      BY <1>2, <3>1
  <2>2. conn[u] \in Conns /\ freedBy[conn[u]] # u /\ (~Deleted(conn[u]) => Registered(conn[u]))
    BY <2>1 DEF HInv, Held
  <2>3. ASSUME freedBy[conn[u]] = None PROVE \E i \in Ids : clients'[i] = conn'[u]
    <3>1. PICK i \in Ids : clients[i] = conn[u]
      BY <2>2, <2>3 DEF Registered, Deleted
    <3>2. clients[cid[conn[t]]] = conn[t] /\ freedBy[conn[t]] # None
      BY <1>1 DEF HInv, IInv, Erasing, New, Deleted
    <3>3. clients'[i] = conn'[u]
      BY <1>1, <2>1, <2>3, <3>1, <3>2
    <3>4. QED
      BY <3>3
  <2>4. QED
    BY <1>1, <2>1, <2>2, <2>3
<1>8. QED
  BY <1>3, <1>6, <1>7 DEF HRest

(* An entry of the map belongs to a Client that t did not delete. *)
LEMMA Entry ==
  ASSUME HInv, NEW t \in Threads, pc[t] # "erase", NEW id \in Ids, clients[id] # None
  PROVE  clients[id] \in Conns /\ freedBy[clients[id]] # t /\ Registered(clients[id])
  BY DEF HInv, IInv, TypeOK, Freed, Deleted, Registered

(* A step that changes only where t is and what it holds. *)
LEMMA HMove ==
  ASSUME HInv, NEW t \in Threads,
         NEW place \in Holding \cup {"idle", "missing"}, NEW c \in Conns \cup {None},
         pc[t] \notin {"loop", "emplace", "erase"}, Goto(t, place, c),
         UNCHANGED <<clients, freedBy, accepted>>,
         place \in Holding => /\ c \in Conns /\ freedBy[c] # t
                              /\ ~Deleted(c) => Registered(c)
  PROVE  HRest'
<1>1. /\ pc' = [pc EXCEPT ![t] = place] /\ conn' = [conn EXCEPT ![t] = c]
      /\ clients' = clients /\ freedBy' = freedBy /\ accepted' = accepted
  BY DEF Goto
<1>2. /\ pc'[t] = place /\ conn'[t] = c
      /\ \A u \in Threads : u # t => pc'[u] = pc[u] /\ conn'[u] = conn[u]
  BY <1>1 DEF HInv, IInv, Control
<1>3. place \notin {"loop", "emplace", "erase"}
  BY DEF Holding
<1>4. freedBy' \in [Conns -> Threads \cup {None}] /\ New'
  BY <1>1, <1>2, <1>3 DEF HInv, New, Deleted
<1>5. Freed'
  BY <1>1, <1>2, <1>3 DEF HInv, Freed, Deleted
<1>6. Held'
  <2> SUFFICES ASSUME NEW u \in Threads, pc'[u] \in Holding
               PROVE  /\ conn'[u] \in Conns /\ freedBy[conn'[u]] # u
                      /\ ~Deleted(conn'[u]) => Registered(conn'[u])
    BY <1>1 DEF Held, Deleted, Registered, Holding
  <2>1. CASE u = t
    BY <1>2, <2>1
  <2>2. CASE u # t
    BY <1>2, <2>2 DEF HInv, Held
  <2>3. QED
    BY <2>1, <2>2
<1>7. QED
  BY <1>4, <1>5, <1>6 DEF HRest

LEMMA HTouch ==
  ASSUME HInv, NEW t \in Threads, pc[t] \notin Inside,
         NEW bad, NEW place \in Holding \cup {"idle"}, NEW c \in Conns \cup {None},
         Touch(t, bad, place, c),
         place \in Holding => /\ c \in Conns /\ freedBy[c] # t
                              /\ ~Deleted(c) => Registered(c)
  PROVE  HRest'
<1>1. UNCHANGED <<clients, freedBy, accepted>> /\ Goto(t, place, c)
  BY DEF Touch, cmVars
<1>2. pc[t] \notin {"loop", "emplace", "erase"}
  BY DEF Inside
<1>3. QED
  BY <1>1, <1>2, HMove

LEMMA HLookup ==
  ASSUME HInv, NEW t \in Threads,
         (\E id \in Ids : Find(t, id)) \/ Miss(t) \/ Leave(t)
  PROVE  HRest'
<1>1. UNCHANGED <<clients, freedBy, accepted>> /\ pc[t] \in {"idle", "entry", "missing"}
  BY DEF Find, Miss, Locks, Leave, cmVars
<1>2. "idle" \notin Holding /\ "missing" \notin Holding
  BY DEF Holding
<1>3. ASSUME NEW id \in Ids, Find(t, id) PROVE HRest'
  <2>1. clients[id] # None /\ Goto(t, "entry", clients[id])
    BY <1>3 DEF Find, Locks
  <2>2. /\ clients[id] \in Conns /\ freedBy[clients[id]] # t
        /\ Registered(clients[id])
    BY <1>1, <2>1, Entry
  <2>3. QED
    BY <1>1, <2>1, <2>2, HMove DEF Holding
<1>4. CASE Miss(t)
  <2>1. Goto(t, "missing", None)
    BY <1>4 DEF Miss, Locks
  <2>2. QED
    BY <1>1, <1>2, <2>1, HMove
<1>5. CASE Leave(t) /\ pc[t] = "entry"
  <2>1. Goto(t, "found", conn[t])
    BY <1>5 DEF Leave
  <2>2. /\ conn[t] \in Conns /\ freedBy[conn[t]] # t
        /\ ~Deleted(conn[t]) => Registered(conn[t])
    BY <1>5 DEF HInv, Held, Holding
  <2>3. QED
    BY <1>1, <2>1, <2>2, HMove DEF Holding
<1>6. CASE Leave(t) /\ pc[t] = "missing"
  <2>1. Goto(t, "idle", None)
    BY <1>6 DEF Leave
  <2>2. QED
    BY <1>1, <1>2, <2>1, HMove
<1>7. QED
  BY <1>3, <1>4, <1>5, <1>6 DEF Leave

LEMMA HOutside ==
  ASSUME HInv, NEW t \in Threads,
         \/ ReadEntry(t) \/ Use(t)
         \/ Broadcast(t) \/ SendNext(t) \/ Increment(t)
  PROVE  HRest'
<1>1. pc[t] \in Holding =>
        /\ conn[t] \in Conns /\ freedBy[conn[t]] # t
        /\ ~Deleted(conn[t]) => Registered(conn[t])
  BY DEF HInv, Held
<1>2. CASE ReadEntry(t)
  BY <1>1, <1>2, HTouch DEF ReadEntry, Holding, Inside
<1>3. CASE Use(t)
  <2>1. Touch(t, Deleted(conn[t]), "idle", None) /\ pc[t] = "use" /\ "idle" \notin Holding
    BY <1>3 DEF Use, Holding
  <2>2. QED
    BY <2>1, HTouch DEF Inside
<1>4. CASE SendNext(t)
  BY <1>1, <1>4, HTouch DEF SendNext, Holding, Inside
<1>5. ASSUME NEW id, NEW bad, MoveTo(t, id, bad), pc[t] \in {"idle", "next"} PROVE HRest'
  <2>1. CASE Touch(t, bad, "idle", None)
    <3>1. "idle" \notin Holding
      BY DEF Holding
    <3>2. QED
      BY <1>5, <2>1, <3>1, HTouch DEF Inside
  <2>2. CASE \E i \in Used : Touch(t, bad, "iterate", clients[i])
    <3>1. PICK i \in Ids : clients[i] # None /\ Touch(t, bad, "iterate", clients[i])
      BY <2>2 DEF Used
    <3>2. QED
      BY <1>5, <3>1, Entry, HTouch DEF Holding, Inside
  <2>3. QED
    BY <1>5, <2>1, <2>2 DEF MoveTo
<1>6. CASE Broadcast(t)
  BY <1>5, <1>6 DEF Broadcast
<1>7. CASE Increment(t)
  BY <1>5, <1>7 DEF Increment
<1>8. QED
  BY <1>2, <1>3, <1>4, <1>6, <1>7

LEMMA HInvStep == HInv /\ [ThreadNext]_threadVars => HInv'
<1> SUFFICES ASSUME HInv, [ThreadNext]_threadVars PROVE HInv'
  OBVIOUS
<1>1. IInv'
  BY IInvStep DEF HInv
<1>2. CASE UNCHANGED threadVars
  BY <1>1, <1>2 DEF threadVars, cmVars, HInv, Freed, Held, New, Deleted, Registered
<1>3. CASE ThreadNext
  <2>1. HRest'
    BY <1>3, HAccept, HLoop, HEmplace, HRemove, HErase, HLookup, HOutside DEF ThreadNext, Critical
  <2>2. QED
    BY <1>1, <2>1 DEF HInv, HRest
<1>4. QED
  BY <1>2, <1>3

--------------------------------------------------------------------------------

TwoThreads ==
  \E t \in Threads :
    /\ pc[t] \in {"idle", "found", "use", "iterate", "next"}
    /\ \/ conn[t] # None /\ freedBy[conn[t]] \notin {None, t}
       \/ mutex \notin {None, t}

LEMMA UndefinedStep == HInv /\ ThreadNext /\ undefined' /\ ~undefined => TwoThreads
<1> SUFFICES ASSUME HInv, ThreadNext, undefined', ~undefined PROVE TwoThreads
  OBVIOUS
<1>1. PICK t \in Threads : ReadEntry(t) \/ Use(t) \/ Broadcast(t) \/ SendNext(t) \/ Increment(t)
  BY DEF ThreadNext, Critical, Accept, AtEnd, Advance, Break, Emplace, Remove, Erase, Find,
         Miss, Locks, Leave
<1>2. ASSUME pc[t] \in Holding \ {"entry"}, Deleted(conn[t]) \/ ~Registered(conn[t])
      PROVE  TwoThreads
  BY <1>2, ConnsAssumption DEF HInv, Held, Deleted, TwoThreads, Holding
<1>3. ASSUME Changing(t), pc[t] \in {"idle", "next"} PROVE TwoThreads
  <2>1. PICK u \in Threads \ {t} : mutex = u
    BY <1>3 DEF Changing, HInv, IInv, Holds, Inside
  <2>2. QED
    BY <1>3, <2>1 DEF TwoThreads
<1>4. CASE ReadEntry(t)
  BY <1>2, <1>4 DEF ReadEntry, Touch, Holding
<1>5. CASE Use(t)
  BY <1>2, <1>5 DEF Use, Touch, Holding
<1>6. CASE SendNext(t)
  BY <1>2, <1>6 DEF SendNext, Touch, Holding
<1>7. CASE Broadcast(t)
  BY <1>3, <1>7 DEF Broadcast, MoveTo, Touch
<1>8. CASE Increment(t)
  BY <1>2, <1>3, <1>8 DEF Increment, MoveTo, Touch, Holding
<1>9. QED
  BY <1>1, <1>4, <1>5, <1>6, <1>7, <1>8

(***************************************************************************)
(* One thread alone never reaches undefined behaviour in the table: it     *)
(* takes another thread that deleted the Client, or is changing the map,   *)
(* and nothing but that (ClientManager.cpp:43 and :140).                   *)
(***************************************************************************)
THEOREM UndefinedNeedsTwo == ThreadSpec => UndefinedCause
<1>1. HInv /\ [ThreadNext]_threadVars =>
        [undefined' /\ ~undefined =>
           \E t \in Threads :
             /\ pc[t] \in {"idle", "found", "use", "iterate", "next"}
             /\ \/ conn[t] # None /\ freedBy[conn[t]] \notin {None, t}
                \/ mutex \notin {None, t}]_threadVars
  BY UndefinedStep DEF TwoThreads
<1>2. QED
  BY <1>1, HInvInit, HInvStep, PTL DEF ThreadSpec, UndefinedCause
================================================================================
