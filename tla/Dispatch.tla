--------------------------------- MODULE Dispatch ---------------------------------
(***************************************************************************)
(* PacketManager as its threads share it: the table of keys behind         *)
(* pKeysMutex, the queue of packets for process(), and the PKeyOwners that  *)
(* register and delete handlers.                                           *)
(*                                                                         *)
(* The io thread runs the packets that arrive (serverProcess), application *)
(* threads register, delete and call process().  A call has a step up to   *)
(* each lock and a step for each handler; pushing and popping the queue    *)
(* under its own mutex, and adding or removing a key under pKeysMutex, are  *)
(* one step each, as nothing else happens inside.  (The owner's own list,   *)
(* which only its thread uses, follows the unlock in the code.)  PKeys     *)
(* stand for handlers; a position of the vector counts from 0.             *)
(***************************************************************************)
EXTENDS Integers, FiniteSets, SequencesExt

CONSTANTS
  IO,            \* the io thread
  Apps,          \* application threads, each with a PKeyOwner
  Processors,    \* the threads that call process()
  PKeys,
  KeyOf,         \* PKey::key
  OwnerOf,       \* the thread whose owner has it
  Keys,          \* the keys of packets
  HandlerActs,   \* what handlers do: a subset of {"return", "throw", "register"}
  Twice,         \* bound: the PKeys that may be in the table twice
  MaxPackets,    \* bound: packets given to addToProcessing
  None

Threads == Apps \cup {IO}

ASSUME ThreadAssumption ==
  IO \notin Apps /\ None \notin Threads /\ Processors \subseteq Apps /\ IsFiniteSet(Processors)
ASSUME KeyAssumption    == Keys \subseteq Int /\ KeyOf \in [PKeys -> Keys]
ASSUME OwnerAssumption  == OwnerOf \in [PKeys -> Apps]
ASSUME ActsAssumption   == HandlerActs \subseteq {"return", "throw", "register"}
ASSUME BoundsAssumption == Twice \subseteq PKeys /\ MaxPackets \in Nat

VARIABLES
  pKeys,         \* the vector of lists
  pKeysMutex,
  syncProcess,   \* the queue, of packet numbers
  packetKey,     \* the key of every packet queued so far
  owned,         \* PKeyOwner::pKeys, of all owners
  again,         \* history: added while the owner had it
  deleted,
  pc,            \* where each thread is
  op,            \* its call and the argument
  handlers,      \* the handlers it has still to run
  done,          \* history: queued packets whose call is over
  threw,         \* history: threads that an exception took out of a handler
  crashed        \* "no", or how the process ended

queue == <<syncProcess, packetKey>>
owner == <<owned, again, deleted>>
vars  == <<pKeys, pKeysMutex, queue, owner, pc, op, handlers, done, threw, crashed>>

Places == {"idle", "locking", "running", "queue", "deleting", "stuck"}

Calls  ==
  [call : {"add", "remove", "delete"}, pKey : PKeys]
    \cup [call : {"serve"}, key : Keys]
    \cup [call : {"process"}, packet : 0 .. MaxPackets]

NoCall == [call |-> "process", packet |-> 0]

MayAdd(k) ==
  \A i \in DOMAIN pKeys :
    Cardinality({ j \in DOMAIN pKeys[i] : pKeys[i][j] = k }) < IF k \in Twice THEN 2 ELSE 1

--------------------------------------------------------------------------------
(* binarySearchKey, see KeySearch: not found, found or lost for ever. *)

At(i) == pKeys[i + 1]

(* The call for the positions f .. l; what it calls is looked up in search. *)
searchCall(search, f, l, key) ==
  LET m == (l + f) \div 2 IN
  IF l < f THEN [found |-> FALSE, index |-> f, fatal |-> "no"]
  ELSE IF At(m) = <<>> \/ Head(At(m)) \in deleted
         THEN [found |-> FALSE, index |-> m, fatal |-> "undefined"]
  ELSE IF KeyOf[Head(At(m))] < key THEN search[<<m + 1, l>>]
  ELSE IF KeyOf[Head(At(m))] = key THEN [found |-> TRUE, index |-> m, fatal |-> "no"]
  ELSE IF m = 0 THEN [found |-> FALSE, index |-> 0, fatal |-> "endless"]
  ELSE search[<<f, m - 1>>]

Bounds == (0 .. Len(pKeys)) \X (-1 .. Len(pKeys) - 1)

binarySearchKey(key) ==
  LET search[b \in Bounds] == searchCall(search, b[1], b[2], key)
  IN  search[<<0, Len(pKeys) - 1>>]

Crash(how) ==
  /\ crashed' = how
  /\ UNCHANGED <<pKeys, pKeysMutex, queue, owner, pc, op, handlers, done, threw>>

--------------------------------------------------------------------------------
(* Calls *)

Init ==
  /\ pKeys = <<>> /\ pKeysMutex = None
  /\ syncProcess = <<>> /\ packetKey = <<>>
  /\ owned = {} /\ again = {} /\ deleted = {}
  /\ pc = [t \in Threads |-> "idle"]
  /\ op = [t \in Threads |-> NoCall]
  /\ handlers = [t \in Threads |-> <<>>]
  /\ done = {} /\ threw = {}
  /\ crashed = "no"

returns(t, place) ==
  pc' = [pc EXCEPT ![t] = place] /\ op' = [op EXCEPT ![t] = NoCall]

Call(t, c, place) ==
  /\ pc[t] = "idle"
  /\ pc' = [pc EXCEPT ![t] = place]
  /\ op' = [op EXCEPT ![t] = c]
  /\ UNCHANGED <<pKeys, pKeysMutex, queue, owner, handlers, done, threw, crashed>>

(* PKeyOwner: addKey, removeKey, deleteKey and the deleteKeys of its end. *)
OwnerCall(t, k) ==
  /\ OwnerOf[k] = t /\ k \notin deleted
  /\ \/ MayAdd(k) /\ Call(t, [call |-> "add", pKey |-> k], "locking")
     \/ \E c \in {"remove", "delete"} : Call(t, [call |-> c, pKey |-> k], "locking")

(* asyncProcess with serverRead set. *)
ServerProcess(key) == Call(IO, [call |-> "serve", key |-> key], "locking")

Process(t) == t \in Processors /\ Call(t, NoCall, "queue")

FaultPushesFront(n) == <<n>> \o syncProcess    \* fault: the newest packet goes first

FaultNoPop == syncProcess    \* fault: front() without pop()

number == Len(packetKey) + 1

push(n) == Append(syncProcess, n)

pop == Tail(syncProcess)

addToProcessing(key) ==
  /\ Len(packetKey) < MaxPackets
  /\ packetKey' = Append(packetKey, key)
  /\ syncProcess' = push(number)
  /\ UNCHANGED <<pKeys, pKeysMutex, owner, pc, op, handlers, done, threw, crashed>>

--------------------------------------------------------------------------------
(* addPKey and removePKey, from lock to unlock, and the owner's list. *)

FaultNoLock(t, calls) == pc[t] = "locking" /\ op[t].call \in calls   \* fault: no lock()

Acquires(t, calls) == pc[t] = "locking" /\ op[t].call \in calls /\ pKeysMutex = None

FaultAtEnd(s, k) ==    \* fault: a new list goes to the end
  IF s.found THEN [pKeys EXCEPT ![s.index + 1] = Append(@, k)] ELSE Append(pKeys, <<k>>)

inserted(s, k) ==
  IF s.found THEN [pKeys EXCEPT ![s.index + 1] = Append(@, k)]
             ELSE InsertAt(pKeys, s.index + 1, <<k>>)

FaultErasesList(s, k) == RemoveAt(pKeys, s.index + 1)    \* fault: with all its handlers

(* An emptied list stays: what is compared with 0 is the size of the vector. *)
erased(s, k) == [pKeys EXCEPT ![s.index + 1] = RemoveFirst(@, k)]

addPKey(t) ==
  LET k == op[t].pKey
      s == binarySearchKey(KeyOf[k])
  IN
  /\ Acquires(t, {"add"})
  /\ IF s.fatal # "no" THEN Crash(s.fatal)
     ELSE /\ pKeys' = inserted(s, k)
          /\ owned' = owned \cup {k}
          /\ again' = IF k \in owned THEN again \cup {k} ELSE again
          /\ returns(t, "idle")
          /\ UNCHANGED <<pKeysMutex, queue, deleted, handlers, done, threw, crashed>>

removePKey(t) ==
  LET k == op[t].pKey
      s == binarySearchKey(KeyOf[k])
  IN
  /\ Acquires(t, {"remove", "delete"})
  /\ IF s.fatal # "no" THEN Crash(s.fatal)
     ELSE /\ pKeys' = IF s.found THEN erased(s, k) ELSE pKeys
          /\ owned' = owned \ {k}
          /\ IF op[t].call = "delete" THEN pc' = [pc EXCEPT ![t] = "deleting"] /\ UNCHANGED op
                                      ELSE returns(t, "idle")
          /\ UNCHANGED <<pKeysMutex, queue, again, deleted, handlers, done, threw, crashed>>

deleteKey(t) ==
  /\ pc[t] = "deleting"
  /\ deleted' = deleted \cup {op[t].pKey}
  /\ returns(t, "idle")
  /\ UNCHANGED <<pKeys, pKeysMutex, queue, owned, again, handlers, done, threw, crashed>>

--------------------------------------------------------------------------------
(* serverProcess and the loop of process() *)

Pop(t) ==
  /\ pc[t] = "queue"
  /\ IF syncProcess = <<>>
       THEN returns(t, "idle") /\ UNCHANGED syncProcess
       ELSE /\ op' = [op EXCEPT ![t].packet = Head(syncProcess)]
            /\ syncProcess' = pop
            /\ pc' = [pc EXCEPT ![t] = "locking"]
  /\ UNCHANGED <<pKeys, pKeysMutex, packetKey, owner, handlers, done, threw, crashed>>

keyOf(c) == IF c.call = "serve" THEN c.key ELSE packetKey[c.packet]

Enter(t) ==
  LET s == binarySearchKey(keyOf(op[t])) IN
  /\ Acquires(t, {"serve", "process"})
  /\ IF s.fatal # "no" THEN Crash(s.fatal)
     ELSE /\ pKeysMutex' = t
          /\ pc' = [pc EXCEPT ![t] = "running"]
          /\ handlers' = [handlers EXCEPT ![t] = IF s.found THEN At(s.index) ELSE <<>>]
          /\ UNCHANGED <<pKeys, queue, owner, op, done, threw, crashed>>

finished(t) == done' = IF op[t].call = "process" THEN done \cup {op[t].packet} ELSE done

FaultUnlocks(t) ==    \* fault: only the loop of process() unlocks
  pKeysMutex' = IF op[t].call = "process" THEN None ELSE t

unlocks(t) == pKeysMutex' = None

Leave(t) ==
  /\ pc[t] = "running" /\ handlers[t] = <<>>
  /\ unlocks(t)
  /\ returns(t, IF op[t].call = "process" THEN "queue" ELSE "idle")
  /\ finished(t)
  /\ UNCHANGED <<pKeys, queue, owner, handlers, threw, crashed>>

--------------------------------------------------------------------------------
(* Handlers. An exception leaves the call with the mutex locked; nobody catches it *)
(* on the io thread. To lock the mutex again is undefined: it throws or waits.     *)

Runs(t, act) ==
  /\ pc[t] = "running" /\ handlers[t] # <<>>
  /\ act \in HandlerActs
  /\ Head(handlers[t]) \notin deleted

Throws(t) ==
  /\ crashed' = IF t = IO THEN "terminated" ELSE crashed
  /\ returns(t, "idle")
  /\ handlers' = [handlers EXCEPT ![t] = <<>>]
  /\ finished(t) /\ threw' = threw \cup {t}
  /\ UNCHANGED <<pKeys, pKeysMutex, queue, owner>>

HandlerReturns(t) ==
  /\ Runs(t, "return")
  /\ handlers' = [handlers EXCEPT ![t] = Tail(@)]
  /\ UNCHANGED <<pKeys, pKeysMutex, queue, owner, pc, op, done, threw, crashed>>

HandlerThrows(t) == Runs(t, "throw") /\ Throws(t)

HandlerRegisters(t) ==
  /\ Runs(t, "register")
  /\ \/ Throws(t)
     \/ /\ pc' = [pc EXCEPT ![t] = "stuck"]
        /\ UNCHANGED <<pKeys, pKeysMutex, queue, owner, op, handlers, done, threw, crashed>>

HandlerGone(t) ==
  /\ pc[t] = "running" /\ handlers[t] # <<>> /\ Head(handlers[t]) \in deleted
  /\ Crash("undefined")

(* After an exception the mutex is still held by the thread that locks it. *)
LockAgain(t) == pc[t] = "locking" /\ pKeysMutex = t /\ Throws(t)

Step(t) ==
  \/ addPKey(t) \/ removePKey(t) \/ deleteKey(t)
  \/ Pop(t) \/ Enter(t) \/ Leave(t)
  \/ HandlerReturns(t) \/ HandlerThrows(t) \/ HandlerRegisters(t) \/ HandlerGone(t)
  \/ LockAgain(t)

Next ==
  /\ crashed = "no"
  /\ \/ \E key \in Keys : ServerProcess(key) \/ addToProcessing(key)
     \/ \E t \in Apps : Process(t) \/ \E k \in PKeys : OwnerCall(t, k)
     \/ \E t \in Threads : Step(t)

Spec == Init /\ [][Next]_vars

(* What a thread does that holds the mutex. *)
Inside(t) ==
  HandlerReturns(t) \/ HandlerThrows(t) \/ HandlerRegisters(t) \/ HandlerGone(t) \/ Leave(t)

(* A handler comes to an end, and a thread that holds the mutex goes on. *)
Fairness == \A t \in Threads : WF_vars(crashed = "no" /\ Inside(t))

FairSpec == Spec /\ Fairness

--------------------------------------------------------------------------------

InCall(t) == pc[t] \in {"running", "stuck"}

(* The queued packets that t has taken and not yet run. *)
Taken(t) ==
  IF op[t].call = "process" /\ pc[t] \in {"locking", "running", "stuck"}
    THEN {op[t].packet} ELSE {}

TypeOK ==
  /\ pKeys \in Seq(Seq(PKeys)) /\ pKeysMutex \in Threads \cup {None}
  /\ syncProcess \in Seq(1 .. MaxPackets) /\ packetKey \in Seq(Keys)
  /\ owned \subseteq PKeys /\ again \subseteq PKeys /\ deleted \subseteq PKeys
  /\ pc \in [Threads -> Places] /\ op \in [Threads -> Calls]
  /\ handlers \in [Threads -> Seq(PKeys)]
  /\ done \subseteq 1 .. MaxPackets /\ threw \subseteq Threads
  /\ crashed \in {"no", "undefined", "endless", "terminated"}

(***************************************************************************)
(* Handlers run one at a time, under the mutex; a mutex that is held by a  *)
(* thread outside of any handler was left behind by an exception of that   *)
(* thread's handler.                                                       *)
(***************************************************************************)
MutexInside ==
  /\ \A t \in Threads : InCall(t) => pKeysMutex = t
  /\ pKeysMutex # None /\ ~InCall(pKeysMutex) => pKeysMutex \in threw

(***************************************************************************)
(* The vector stays sorted, and a list holds handlers of one key, whatever *)
(* threads register and remove, and around the lists that were emptied.    *)
(***************************************************************************)
KeysAscend ==
  \A i, j \in DOMAIN pKeys :
    \A x \in ToSet(pKeys[i]), y \in ToSet(pKeys[j]) :
      /\ i < j => KeyOf[x] < KeyOf[y]
      /\ i = j => KeyOf[x] = KeyOf[y]

(***************************************************************************)
(* A packet starts the handlers that the owners have for its key at that   *)
(* moment, all of them and no others, and is called unknown only when      *)
(* there are none.  (A PKey that was added twice may be run after its      *)
(* owner removed it.)                                                      *)
(***************************************************************************)
DispatchesAll ==
  [][\A t \in Threads :
       pc[t] = "locking" /\ pc'[t] = "running" =>
         LET wanted(set) == { k \in set : KeyOf[k] = keyOf(op[t]) } IN
         /\ wanted(owned) \subseteq ToSet(handlers'[t])
         /\ ToSet(handlers'[t]) \subseteq wanted(owned \cup again)]_vars

(***************************************************************************)
(* A deleted PKey is neither in the table nor about to be run, unless it   *)
(* was added a second time while its owner had it: one removal takes one   *)
(* copy out of the table, but all of them out of the owner's list.         *)
(***************************************************************************)
NoDangling ==
  \A k \in deleted \ again :
    /\ \A i \in DOMAIN pKeys : k \notin ToSet(pKeys[i])
    /\ \A t \in Threads : k \notin ToSet(handlers[t])

(***************************************************************************)
(* The process ends in undefined behaviour only through a list that was    *)
(* emptied or a PKey added twice, and in a search without end only for a   *)
(* key below all others.                                                   *)
(***************************************************************************)
CrashCause ==
  /\ crashed = "undefined" => again # {} \/ \E i \in DOMAIN pKeys : pKeys[i] = <<>>
  /\ crashed = "endless" =>
       \E t \in Threads :
         /\ pc[t] = "locking"
         /\ \A i \in DOMAIN pKeys : \A k \in ToSet(pKeys[i]) :
              (IF "pKey" \in DOMAIN op[t] THEN KeyOf[op[t].pKey] ELSE keyOf(op[t])) < KeyOf[k]

(***************************************************************************)
(* A queued packet waits, is in the hands of one thread, or its call is    *)
(* over: the threads that pop it neither lose one nor run one twice.       *)
(***************************************************************************)
EachPacketOnce ==
  /\ \A n \in 1 .. Len(packetKey) :
       n \in ToSet(syncProcess) \cup done \cup UNION { Taken(t) : t \in Threads }
  /\ ToSet(syncProcess) \cap done = {}
  /\ \A t \in Threads :
       /\ Taken(t) \cap (ToSet(syncProcess) \cup done) = {}
       /\ \A u \in Threads \ {t} : Taken(t) \cap Taken(u) = {}

(***************************************************************************)
(* When a queued packet is done, fewer older ones are still waiting than   *)
(* threads process the queue: with one such thread there are none, and     *)
(* packets run in the order of the queue.                                  *)
(***************************************************************************)
ReorderBounded ==
  \A n \in done : Cardinality((1 .. n) \ done) < Cardinality(Processors)

(***************************************************************************)
(* The mutex stays locked only behind an exception, or by a handler that    *)
(* waits for it itself: whether serverProcess or process() ran the handlers, *)
(* and whatever they and their owners do, it is given back otherwise.       *)
(***************************************************************************)
LockReturned ==
  \A t \in Threads :
    pKeysMutex = t ~> (pKeysMutex # t \/ t \in threw \/ pc[t] = "stuck" \/ crashed # "no")
================================================================================
