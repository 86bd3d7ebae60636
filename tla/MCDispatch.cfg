\* Two owners register, add twice, remove and delete keys against the io thread;
\* and, with one key, two threads process the queue.
CONSTANTS
  IO = io
  Apps = {a1, a2}
  Processors = {a1, a2}
  a1 = a1
  a2 = a2
  p1 = p1
  p2 = p2
  p3 = p3
  p4 = p4
  PKeys = {p1, p2, p3, p4}
  Keys = {1, 2, 3}
  KeyOf <- MCKeyOf
  OwnerOf <- MCOwnerOf
  HandlerActs = {"return", "throw", "register"}
  Twice = {p2}
  MaxPackets = 3
  None = None
SPECIFICATION MCSpec
INVARIANTS KeysAscend NoDangling CrashCause MutexInside EachPacketOnce ReorderBounded
PROPERTIES DispatchesAll LockReturned
\* The process may end in a search, and a mutex that is left locked stops every thread.
CHECK_DEADLOCK FALSE
