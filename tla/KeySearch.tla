-------------------------------- MODULE KeySearch --------------------------------
(***************************************************************************)
(* PacketManager::binarySearchKey on the sorted vector pKeys.  A recursive *)
(* call is one step, or two when its last argument is the default value.   *)
(* The caller holds pKeysMutex, so the vector does not change, and every   *)
(* list in it has a front() that carries the key of the list.  A key is a  *)
(* two letter string; only its order matters, so keys are numbers.         *)
(***************************************************************************)
EXTENDS Integers

CONSTANTS
  Keys,       \* the keys that are registered or looked for
  MaxKeys     \* bound: length of pKeys

ASSUME KeysAssumption    == Keys \subseteq Int
ASSUME MaxKeysAssumption == MaxKeys \in Nat

VARIABLES
  pKeys,      \* index -> key of the list at that index, indices from 0
  size,       \* pKeys.size()
  key,        \* the key looked for
  f, l,       \* the arguments of the current call
  found, index, done    \* what the search returned

vars == <<pKeys, size, key, f, l, found, index, done>>

(* The default argument that stands for the whole vector. *)
USE_PKEYS_SIZE == -1

mid == (l + f) \div 2

SearchInit ==
  /\ size \in 0 .. MaxKeys
  /\ pKeys \in [0 .. size - 1 -> Keys]
  /\ \A i, j \in 0 .. size - 1 : i < j => pKeys[i] < pKeys[j]
  /\ key \in Keys
  /\ f = 0 /\ l = USE_PKEYS_SIZE
  /\ found = FALSE /\ index = 0 /\ done = FALSE

WholeVector ==
  /\ ~done /\ l = USE_PKEYS_SIZE /\ size > 0
  /\ l' = size - 1
  /\ UNCHANGED <<pKeys, size, key, f, found, index, done>>

(* Of an empty vector, size() - 1 is the default value again. *)
entered == ~done /\ (l # USE_PKEYS_SIZE \/ size = 0)

Absent ==
  /\ entered /\ l < f
  /\ done' = TRUE /\ found' = FALSE /\ index' = f
  /\ UNCHANGED <<pKeys, size, key, f, l>>

(* Faults: the key at mid is looked at again; one more key is skipped. *)
FaultSameHalf ==
  /\ entered /\ l >= f /\ pKeys[mid] < key
  /\ f' = mid
  /\ UNCHANGED <<pKeys, size, key, l, found, index, done>>

FaultSkip ==
  /\ entered /\ l >= f /\ pKeys[mid] < key
  /\ f' = mid + 2
  /\ UNCHANGED <<pKeys, size, key, l, found, index, done>>

UpperHalf ==
  /\ entered /\ l >= f /\ pKeys[mid] < key
  /\ f' = mid + 1
  /\ UNCHANGED <<pKeys, size, key, l, found, index, done>>

(* With mid = 0 the new bound is -1: the callee takes it for the default. *)
LowerHalf ==
  /\ entered /\ l >= f /\ pKeys[mid] > key
  /\ l' = mid - 1
  /\ UNCHANGED <<pKeys, size, key, f, found, index, done>>

Hit ==
  /\ entered /\ l >= f /\ pKeys[mid] = key
  /\ done' = TRUE /\ found' = TRUE /\ index' = mid
  /\ UNCHANGED <<pKeys, size, key, f, l>>

SearchNext == WholeVector \/ Absent \/ UpperHalf \/ LowerHalf \/ Hit

SearchSpec == SearchInit /\ [][SearchNext]_vars

(* The calls follow each other in one thread that nothing blocks. *)
FairSearch == SearchSpec /\ WF_vars(SearchNext)

--------------------------------------------------------------------------------

(* The part of the vector outside f .. l was compared and ruled out. *)
SearchInv ==
  /\ size \in Nat /\ pKeys \in [0 .. size - 1 -> Keys] /\ key \in Keys
  /\ \A i, j \in 0 .. size - 1 : i < j => pKeys[i] < pKeys[j]
  /\ f \in 0 .. size /\ l \in -1 .. size - 1
  /\ \A i \in 0 .. size - 1 : (i < f => pKeys[i] < key) /\ (i > l /\ entered => pKeys[i] > key)
  /\ found \in BOOLEAN /\ done \in BOOLEAN /\ index \in 0 .. size

(***************************************************************************)
(* A search that returns is right: the index of the key, or the index at   *)
(* which addPKey may insert a list for it and leave the vector sorted.     *)
(***************************************************************************)
FindsPosition ==
  done =>
    IF found
      THEN index < size /\ pKeys[index] = key
      ELSE \A i \in 0 .. size - 1 :
             IF i < index THEN pKeys[i] < key ELSE pKeys[i] > key

(* The search returns for a key that is not below all registered ones. *)
ReturnsAboveFirst == size = 0 \/ key >= pKeys[0] ~> done

(***************************************************************************)
(* "Could not find locKey" (PacketManager.cpp:133), and with it the rest   *)
(* of serverProcess, is reached for any key nobody registered.             *)
(***************************************************************************)
AbsentReported == (\A i \in 0 .. size - 1 : pKeys[i] # key) ~> done
================================================================================
