------------------------------ MODULE PacketsProofs ------------------------------
(***************************************************************************)
(* The way of a packet through the server, for every number of connections,  *)
(* ids, outstanding writes and queued packets, and whatever arrives: the     *)
(* search for the handlers of its key, and the frames that answer it.        *)
(***************************************************************************)
EXTENDS Packets, KeySearch, FiniteSetTheorems, SequenceTheorems,
        WellFoundedInduction, TLAPS

IPackets ==
  [sentFromID : 0 .. MAX_CLIENTS - 1, locKey : { keyOf(arrival) : arrival \in Arrivals },
   data : { arrival.data : arrival \in Arrivals }, asker : Conns]

Asks(c) == { i \in DOMAIN syncProcess : syncProcess[i].asker = c }

(* A packet in the queue carries the id of its asker, or 0 if the asker had none then. *)
QueueInv ==
  /\ syncProcess \in Seq(IPackets)
  /\ \A i \in DOMAIN syncProcess :
       syncProcess[i].sentFromID = 0 \/ syncProcess[i].sentFromID = cid[syncProcess[i].asker]

(* A peer that nobody disturbed has one question in the queue, or one answer on its way. *)
PoliteInv ==
  \A c \in Conns \ disturbed :
    /\ \A i, j \in Asks(c) : i = j
    /\ Asks(c) # {} => writes[c] = <<>> /\ c \in waiting
    /\ writes[c] # <<>> => writes[c] = <<c>> /\ c \in waiting

(* A kept packet answers nobody, and carries the name it was given until it is broadcast. *)
Keepable(p) ==
  /\ DOMAIN p = {"locKey", "senderID", "sendToIDs", "data", "named", "asker"}
  /\ p.locKey = AppKey /\ p.asker = None
  /\ p.sendToIDs \in Seq(Int)
  /\ p.named # None => p.named = p.senderID

KeptInv == kept # None => Keepable(kept)

(***************************************************************************)
(* The inductive invariant.  That a connection carries the key of its slot  *)
(* makes the id in a packet mean its asker; that the id in a waiting packet *)
(* is the asker's needs that a connection gets its id once.                 *)
(***************************************************************************)
PInv ==
  /\ CM!TypeOK /\ CM!IdMatches
  /\ writes \in [Conns -> Seq(Conns \cup {None})]
  /\ QueueInv /\ PoliteInv /\ KeptInv

--------------------------------------------------------------------------------
(* What a step does to the table. *)

(* The CHOOSE of aquireNextID is well defined: there is a least free id. *)
LEMMA NextID ==
  /\ CM!aquireNextID \in 1 .. MAX_CLIENTS
  /\ CM!aquireNextID \notin CM!Used
  /\ \A m \in 1 .. CM!aquireNextID - 1 : m \in CM!Used
<1> DEFINE Free == 1 .. MAX_CLIENTS \ CM!Used
<1>1. Free \subseteq Nat /\ Free # {}
  <2>1. MAX_CLIENTS \in Free
    BY MaxAssumption DEF CM!Used, CM!Ids
  <2>2. QED
    BY <2>1, MaxAssumption
<1>2. PICK n \in Free : \A m \in Free : ~ (<<m, n>> \in OpToRel(<, Nat))
  BY <1>1, NatLessThanWellFounded, WFMin
<1>3. \A m \in Free : ~ (m < n)
  BY <1>1, <1>2 DEF OpToRel
<1>4. n \in 1 .. MAX_CLIENTS /\ n \notin CM!Used /\ \A m \in 1 .. n - 1 : m \in CM!Used
  <2>1. ASSUME NEW m \in 1 .. n - 1 PROVE m \in CM!Used
    <3>1. m \in 1 .. MAX_CLIENTS /\ m < n
      BY MaxAssumption
    <3>2. QED
      BY <3>1, <1>3
  <2>2. QED
    BY <2>1
<1>5. QED
  BY <1>4 DEF CM!aquireNextID

LEMMA AddEffect ==
  ASSUME CM!TypeOK, NEW c \in Conns, CM!addClient(c)
  PROVE  \/ UNCHANGED <<clients, cid>>
         \/ \E id \in CM!Ids :
              /\ clients[id] = None
              /\ clients' = [clients EXCEPT ![id] = c]
              /\ cid' = [cid EXCEPT ![c] = id]
<1> DEFINE id == CM!aquireNextID
<1>1. CASE id >= MAX_CLIENTS
  <2>1. \A m \in CM!Ids : m \in CM!Used
    BY <1>1, NextID, MaxAssumption DEF CM!Ids
  <2>2. UNCHANGED <<clients, cid>>
    BY <1>1, NextID, MaxAssumption DEF CM!addClient, CM!cmVars
  <2>3. QED
    BY <2>1, <2>2 DEF CM!Used
<1>2. CASE id < MAX_CLIENTS
  <2>1. id \in CM!Ids /\ clients[id] = None
    BY <1>2, NextID, MaxAssumption DEF CM!Ids, CM!Used
  <2>2. clients' = [clients EXCEPT ![id] = c] /\ cid' = [cid EXCEPT ![c] = id]
    BY <1>2, NextID, MaxAssumption DEF CM!addClient
  <2>3. QED
    BY <2>1, <2>2
<1>3. QED
  BY <1>1, <1>2, NextID, MaxAssumption

LEMMA RemoveKeeps ==
  ASSUME CM!TypeOK, CM!IdMatches, NEW id, CM!removeClient(id)
  PROVE  CM!TypeOK' /\ CM!IdMatches' /\ cid' = cid
  BY DEF CM!TypeOK, CM!IdMatches, CM!removeClient

(* Connect gives an id to a connection that has none, and that is in no slot. *)
LEMMA ConnectStep ==
  ASSUME PInv, NEW c \in Conns, Connect(c)
  PROVE  PInv'
<1>1. /\ cid[c] = 0 /\ CM!addClient(c)
      /\ UNCHANGED <<writes, syncProcess, kept, waiting, disturbed>>
  BY DEF Connect
<1>2. \/ UNCHANGED <<clients, cid>>
      \/ \E id \in CM!Ids :
           /\ clients' = [clients EXCEPT ![id] = c]
           /\ cid' = [cid EXCEPT ![c] = id]
  BY <1>1, AddEffect DEF PInv
<1>3. \A id \in CM!Ids : id # 0 /\ id \in 0 .. MAX_CLIENTS - 1
  BY MaxAssumption DEF CM!Ids
<1>4. CM!TypeOK' /\ CM!IdMatches'
  <2>1. CASE UNCHANGED <<clients, cid>>
    BY <2>1 DEF PInv, CM!TypeOK, CM!IdMatches
  <2>2. ASSUME NEW id \in CM!Ids, clients' = [clients EXCEPT ![id] = c],
               cid' = [cid EXCEPT ![c] = id]
        PROVE  CM!TypeOK' /\ CM!IdMatches'
    <3>1. CM!TypeOK'
      BY <1>3, <2>2 DEF PInv, CM!TypeOK
    <3>2. \A i \in CM!Ids : clients[i] # c
      BY <1>1, <1>3, ConnsAssumption DEF PInv, CM!IdMatches
    <3>3. CM!IdMatches'
      BY <2>2, <3>2 DEF PInv, CM!TypeOK, CM!IdMatches
    <3>4. QED
      BY <3>1, <3>3
  <2>3. QED
    BY <1>2, <2>1, <2>2
<1>5. ASSUME NEW d \in Conns, cid[d] # 0 PROVE cid'[d] = cid[d]
  BY <1>1, <1>2, <1>5 DEF PInv, CM!TypeOK
<1>6. QueueInv'
  <2>1. \A i \in DOMAIN syncProcess : syncProcess[i] \in IPackets
    BY DEF PInv, QueueInv
  <2>2. ASSUME NEW i \in DOMAIN syncProcess
        PROVE  syncProcess[i].sentFromID = 0 \/ syncProcess[i].sentFromID = cid'[syncProcess[i].asker]
    BY <1>5, <2>1 DEF PInv, QueueInv, IPackets
  <2>3. QED
    BY <1>1, <2>2 DEF PInv, QueueInv, IPackets
<1>7. QED
  BY <1>1, <1>4, <1>6 DEF PInv, PoliteInv, KeptInv, Asks

LEMMA RemoveStep ==
  ASSUME PInv, NEW id, CM!removeClient(id), UNCHANGED <<writes, syncProcess, kept, waiting, disturbed>>
  PROVE  PInv'
  BY RemoveKeeps DEF PInv, QueueInv, IPackets, PoliteInv, KeptInv, Asks

(* The end of a write takes the answer from those on their way. *)
LEMMA WriteEnds ==
  ASSUME PInv, NEW c \in Conns, writes[c] # <<>>, writes' = [writes EXCEPT ![c] = Tail(@)],
         waiting' \in {waiting, IF Head(writes[c]) = c THEN waiting \ {c} ELSE waiting},
         UNCHANGED <<syncProcess, disturbed>>
  PROVE  PoliteInv' /\ writes' \in [Conns -> Seq(Conns \cup {None})]
<1>1. writes' \in [Conns -> Seq(Conns \cup {None})]
  BY DEF PInv
<1>2. ASSUME NEW d \in Conns \ disturbed
      PROVE  /\ \A i, j \in Asks(d) : i = j
             /\ Asks(d) # {} => writes'[d] = <<>> /\ d \in waiting'
             /\ writes'[d] # <<>> => writes'[d] = <<d>> /\ d \in waiting'
  <2>1. CASE d = c
    <3>1. writes[c] = <<c>> /\ Asks(c) = {}
      BY <2>1 DEF PInv, PoliteInv
    <3>2. Tail(<<c>>) = <<>>
      OBVIOUS
    <3>3. QED
      BY <2>1, <3>1, <3>2 DEF PInv
  <2>2. CASE d # c
    BY <2>2 DEF PInv, PoliteInv
  <2>3. QED
    BY <2>1, <2>2
<1>3. QED
  BY <1>1, <1>2 DEF PoliteInv, Asks

LEMMA AsyncSendStep ==
  ASSUME PInv, NEW c \in Conns, AsyncSend(c)
  PROVE  PInv'
  BY WriteEnds DEF AsyncSend, connVars, PInv, CM!TypeOK, CM!IdMatches, QueueInv, KeptInv

LEMMA WriteResetStep ==
  ASSUME PInv, NEW c \in Conns, WriteReset(c)
  PROVE  PInv'
<1>1. PoliteInv' /\ writes' \in [Conns -> Seq(Conns \cup {None})]
  BY WriteEnds DEF WriteReset
<1>2. CM!TypeOK' /\ CM!IdMatches' /\ cid' = cid /\ UNCHANGED <<syncProcess, kept>>
  BY RemoveKeeps DEF WriteReset, PInv
<1>3. QED
  BY <1>1, <1>2 DEF PInv, QueueInv, IPackets, KeptInv

LEMMA EndsStep ==
  ASSUME PInv, Ends
  PROVE  PInv'
<1>1. CM!TypeOK' /\ CM!IdMatches'
  BY MaxAssumption DEF Ends, CM!TypeOK, CM!IdMatches
<1>2. writes' \in [Conns -> Seq(Conns \cup {None})] /\ QueueInv' /\ PoliteInv' /\ KeptInv'
  BY DEF Ends, QueueInv, PoliteInv, KeptInv, Asks
<1>3. QED
  BY <1>1, <1>2 DEF PInv

--------------------------------------------------------------------------------
(* What a step writes. *)

LEMMA ReadHandshakeStep ==
  ASSUME PInv, NEW c \in Conns, ReadHandshake(c)
  PROVE  PInv'
<1>1. /\ writes' = [writes EXCEPT ![c] = Append(@, c)] /\ waiting' = waiting \cup {c}
      /\ disturbed' = disturbed \cup hasty(c)
      /\ UNCHANGED <<clients, cid, syncProcess, kept>>
  BY DEF ReadHandshake
<1>2. writes' \in [Conns -> Seq(Conns \cup {None})]
  BY <1>1 DEF PInv
<1>3. ASSUME NEW d \in Conns \ disturbed'
      PROVE  /\ \A i, j \in Asks(d) : i = j
             /\ Asks(d) # {} => writes'[d] = <<>> /\ d \in waiting'
             /\ writes'[d] # <<>> => writes'[d] = <<d>> /\ d \in waiting'
  <2>1. CASE d = c
    <3>1. c \notin waiting /\ writes[c] = <<>> /\ c \notin disturbed
      BY <1>1, <1>3, <2>1 DEF hasty
    <3>2. Asks(c) = {}
      BY <3>1 DEF PInv, PoliteInv
    <3>3. writes'[c] = <<c>> /\ c \in waiting'
      BY <1>1, <3>1 DEF PInv
    <3>4. QED
      BY <2>1, <3>2, <3>3
  <2>2. CASE d # c
    BY <1>1, <1>3, <2>2 DEF PInv, PoliteInv
  <2>3. QED
    BY <2>1, <2>2
<1>4. PoliteInv'
  BY <1>1, <1>3 DEF PoliteInv, Asks
<1>5. QED
  BY <1>1, <1>2, <1>4 DEF PInv, CM!TypeOK, CM!IdMatches, QueueInv, KeptInv

LEMMA ReadIgnoredStep ==
  ASSUME PInv, NEW c \in Conns, NEW arrival \in Arrivals, ReadIgnored(c, arrival)
  PROVE  PInv'
  BY DEF ReadIgnored, connVars, PInv, CM!TypeOK, CM!IdMatches, QueueInv, PoliteInv, KeptInv, Asks

(* The queue takes the first question of a peer that waits for nothing. *)
LEMMA AddToProcessingStep ==
  ASSUME PInv, NEW c \in Conns, NEW arrival \in Arrivals, addToProcessing(c, arrival)
  PROVE  PInv'
<1> DEFINE iPack == decryptHeader(c, arrival)
<1>1. /\ syncProcess' = Append(syncProcess, iPack) /\ waiting' = waiting \cup {c}
      /\ disturbed' = disturbed \cup hasty(c)
      /\ UNCHANGED <<clients, cid, writes, kept>>
  BY DEF addToProcessing, connVars
<1>2. iPack \in IPackets /\ iPack.asker = c /\ iPack.sentFromID = cid[c]
  BY DEF decryptHeader, IPackets, PInv, CM!TypeOK
<1> HIDE DEF iPack
<1>3. /\ syncProcess' \in Seq(IPackets) /\ Len(syncProcess) \in Nat
      /\ DOMAIN syncProcess = 1 .. Len(syncProcess)
      /\ DOMAIN syncProcess' = 1 .. Len(syncProcess) + 1
      /\ \A i \in DOMAIN syncProcess : syncProcess'[i] = syncProcess[i]
      /\ syncProcess'[Len(syncProcess) + 1] = iPack
  BY <1>1, <1>2 DEF PInv, QueueInv
<1>4. QueueInv'
  BY <1>1, <1>2, <1>3 DEF PInv, QueueInv
<1>5. ASSUME NEW d \in Conns \ disturbed'
      PROVE  /\ \A i, j \in Asks(d)' : i = j
             /\ Asks(d)' # {} => writes[d] = <<>> /\ d \in waiting'
             /\ writes[d] # <<>> => writes[d] = <<d>> /\ d \in waiting'
  <2>1. CASE d = c
    <3>1. c \notin waiting /\ writes[c] = <<>> /\ c \notin disturbed
      BY <1>1, <1>5, <2>1 DEF hasty
    <3>2. Asks(c) = {}
      BY <3>1 DEF PInv, PoliteInv
    <3>3. Asks(c)' \subseteq {Len(syncProcess) + 1}
      BY <1>3, <3>2 DEF Asks
    <3>4. QED
      BY <1>1, <2>1, <3>1, <3>3
  <2>2. CASE d # c
    <3>1. Asks(d)' \subseteq Asks(d)
      BY <1>2, <1>3, <2>2 DEF Asks
    <3>2. QED
      BY <1>1, <1>5, <2>2, <3>1 DEF PInv, PoliteInv
  <2>3. QED
    BY <2>1, <2>2
<1>6. PoliteInv'
  BY <1>1, <1>5 DEF PoliteInv
<1>7. QED
  BY <1>1, <1>4, <1>6 DEF PInv, CM!TypeOK, CM!IdMatches, KeptInv

(***************************************************************************)
(* A call of a send function adds to the writes of a connection one for     *)
(* each frame to it; who is not disturbed gets no frame, or gets what it    *)
(* waits for.                                                              *)
(***************************************************************************)
LEMMA FramesWritten ==
  ASSUME PInv, NEW how, NEW p, p.asker \in Conns \cup {None}, NEW frames, IsFiniteSet(frames),
         NEW early, WriteFrames(how, p, frames, early)
  PROVE  /\ writes' \in [Conns -> Seq(Conns \cup {None})]
         /\ disturbed \cup early \subseteq disturbed'
         /\ \A c \in Conns \ disturbed' :
              \/ writes'[c] = writes[c]
              \/ /\ p.asker = c /\ c \in waiting'
                 /\ writes'[c] = writes[c] \o [i \in 1 .. Cardinality(framesTo(frames, c)) |-> c]
<1> DEFINE begun(c) == Cardinality(framesTo(frames, c))
           new(c)   == [i \in 1 .. begun(c) |-> p.asker]
<1>1. /\ writes' = [c \in Conns |-> writes[c] \o new(c)]
      /\ disturbed' = disturbed \cup early \cup
           { c \in Conns : begun(c) > 0 /\ ~(p.asker = c /\ c \in waiting') }
  BY DEF WriteFrames
<1>2. ASSUME NEW c \in Conns
      PROVE  begun(c) \in Nat /\ new(c) \in Seq(Conns \cup {None}) /\ writes[c] \in Seq(Conns \cup {None})
  <2>1. framesTo(frames, c) \in SUBSET frames
    BY DEF framesTo
  <2>2. begun(c) \in Nat
    BY <2>1, FS_Subset, FS_CardinalityType
  <2> HIDE DEF begun
  <2>3. new(c) \in Seq(Conns \cup {None})
    BY <2>2
  <2>4. QED
    BY <2>2, <2>3 DEF PInv
<1>3. writes' \in [Conns -> Seq(Conns \cup {None})]
  <2> HIDE DEF new
  <2>1. \A c \in Conns : writes[c] \o new(c) \in Seq(Conns \cup {None})
    BY <1>2
  <2>2. QED
    BY <1>1, <2>1
<1>4. ASSUME NEW c \in Conns \ disturbed'
      PROVE  \/ writes'[c] = writes[c]
             \/ p.asker = c /\ c \in waiting' /\ writes'[c] = writes[c] \o [i \in 1 .. begun(c) |-> c]
  <2>1. CASE begun(c) = 0
    <3>1. new(c) = <<>>
      BY <2>1
    <3> HIDE DEF new
    <3>2. writes'[c] = writes[c]
      BY <1>1, <1>2, <3>1
    <3>3. QED
      BY <3>2
  <2>2. CASE begun(c) > 0
    BY <1>1, <1>4, <2>2
  <2>3. begun(c) \in Nat
    BY <1>2
  <2> HIDE DEF begun
  <2>4. begun(c) = 0 \/ begun(c) > 0
    BY <2>3
  <2>5. QED
    BY <2>1, <2>2, <2>4
<1>5. QED
  BY <1>1, <1>3, <1>4

(* A packet to one client makes one frame, or none. *)
LEMMA OneFrame ==
  ASSUME NEW p, NEW id, p.sendToIDs = <<id>>
  PROVE  /\ IsFiniteSet(send(p))
         /\ \A c : Cardinality(framesTo(send(p), c)) \in {0, 1}
         /\ \A frame \in send(p) :
              frame = Frame(p, 1, id, p.senderID) /\ CM!getClient(id) # None
<1>1. \A frame \in send(p) : frame = Frame(p, 1, id, p.senderID) /\ CM!getClient(id) # None
  BY DEF send, known
<1>2. IsFiniteSet({Frame(p, 1, id, p.senderID)})
      /\ Cardinality({Frame(p, 1, id, p.senderID)}) = 1
  BY FS_Singleton
<1>3. send(p) \in SUBSET {Frame(p, 1, id, p.senderID)}
  BY <1>1
<1>4. ASSUME NEW c PROVE Cardinality(framesTo(send(p), c)) \in {0, 1}
  <2>1. framesTo(send(p), c) = {} \/ framesTo(send(p), c) = {Frame(p, 1, id, p.senderID)}
    BY <1>3 DEF framesTo
  <2>2. QED
    BY <1>2, <2>1, FS_EmptySet
<1>5. QED
  BY <1>1, <1>2, <1>3, <1>4, FS_Subset

LEMMA Answered ==
  ASSUME PInv, NEW how, NEW p, p.asker \in Conns, NEW id, p.sendToIDs = <<id>>,
         NEW early, WriteFrames(how, p, send(p), early)
  PROVE  /\ writes' \in [Conns -> Seq(Conns \cup {None})]
         /\ disturbed \cup early \subseteq disturbed'
         /\ \A c \in Conns \ disturbed' :
              IF p.asker = c THEN writes[c] = <<>> => writes'[c] \in {<<>>, <<c>>}
                             ELSE writes'[c] = writes[c]
         /\ \A c \in Conns \ disturbed' : writes'[c] # writes[c] => c \in waiting'
<1>1. /\ IsFiniteSet(send(p))
      /\ \A c : Cardinality(framesTo(send(p), c)) \in {0, 1}
  BY OneFrame
<1>2. /\ writes' \in [Conns -> Seq(Conns \cup {None})]
      /\ disturbed \cup early \subseteq disturbed'
      /\ \A c \in Conns \ disturbed' :
           \/ writes'[c] = writes[c]
           \/ /\ p.asker = c /\ c \in waiting'
              /\ writes'[c] = writes[c] \o [i \in 1 .. Cardinality(framesTo(send(p), c)) |-> c]
  BY <1>1, FramesWritten
<1>3. ASSUME NEW c, NEW n \in {0, 1} PROVE <<>> \o [i \in 1 .. n |-> c] \in {<<>>, <<c>>}
  <2>1. <<>> \o [i \in 1 .. 0 |-> c] = <<>>
    OBVIOUS
  <2>2. <<>> \o [i \in 1 .. 1 |-> c] = <<c>>
    OBVIOUS
  <2>3. QED
    BY <2>1, <2>2
<1>4. QED
  BY <1>1, <1>2, <1>3

(* The setup answers at once: the peer had no other question, and waits now. *)
LEMMA KeyA0Step ==
  ASSUME PInv, NEW c \in Conns, NEW arrival \in Arrivals, keyA0(c, arrival)
  PROVE  PInv'
<1> DEFINE p == createPackA1(decryptHeader(c, arrival))
<1>1. /\ waiting' = waiting \cup {c} /\ WriteFrames("send", p, send(p), hasty(c))
      /\ UNCHANGED <<clients, cid, syncProcess, kept>>
  BY DEF keyA0, answer, connVars
<1>2. p.asker = c /\ p.sendToIDs = <<cid[c]>>
  BY DEF createPackA1, OPacket, decryptHeader
<1> HIDE DEF p
<1>3. /\ writes' \in [Conns -> Seq(Conns \cup {None})]
      /\ disturbed \cup hasty(c) \subseteq disturbed'
      /\ \A d \in Conns \ disturbed' :
           IF d = c THEN writes[d] = <<>> => writes'[d] \in {<<>>, <<d>>}
                    ELSE writes'[d] = writes[d]
  BY <1>1, <1>2, Answered
<1>4. ASSUME NEW d \in Conns \ disturbed'
      PROVE  /\ \A i, j \in Asks(d) : i = j
             /\ Asks(d) # {} => writes'[d] = <<>> /\ d \in waiting'
             /\ writes'[d] # <<>> => writes'[d] = <<d>> /\ d \in waiting'
  <2>1. CASE d = c
    <3>1. c \notin waiting /\ writes[c] = <<>> /\ c \notin disturbed
      BY <1>3, <1>4, <2>1 DEF hasty
    <3>2. Asks(c) = {}
      BY <3>1 DEF PInv, PoliteInv
    <3>3. writes'[c] \in {<<>>, <<c>>} /\ c \in waiting'
      BY <1>1, <1>3, <1>4, <2>1, <3>1
    <3>4. QED
      BY <2>1, <3>2, <3>3
  <2>2. CASE d # c
    BY <1>1, <1>3, <1>4, <2>2 DEF PInv, PoliteInv
  <2>3. QED
    BY <2>1, <2>2
<1>5. PoliteInv'
  BY <1>1, <1>4 DEF PoliteInv, Asks
<1>6. QED
  BY <1>1, <1>3, <1>5 DEF PInv, CM!TypeOK, CM!IdMatches, QueueInv, KeptInv

(* The queue gives its first packet away, and what is left moves up. *)
LEMMA ProcessStep ==
  ASSUME PInv, Process
  PROVE  PInv'
<1> DEFINE iPack == Head(syncProcess)
           p     == OPacket(AppKey, 0, <<iPack.sentFromID>>, iPack.asker)
<1>1. /\ syncProcess # <<>> /\ syncProcess' = Tail(syncProcess)
      /\ WriteFrames("send", p, send(p), {})
      /\ UNCHANGED <<clients, cid, kept, waiting>>
  BY DEF Process, connVars
<1>2. /\ iPack = syncProcess[1] /\ 1 \in DOMAIN syncProcess /\ syncProcess[1] \in IPackets
      /\ syncProcess' \in Seq(IPackets)
      /\ \A i \in DOMAIN syncProcess' :
           i \in Nat /\ i + 1 \in DOMAIN syncProcess /\ i + 1 # 1 /\ syncProcess'[i] = syncProcess[i + 1]
  BY <1>1 DEF PInv, QueueInv
<1>3. p.asker = iPack.asker /\ p.sendToIDs = <<iPack.sentFromID>>
  BY DEF OPacket
<1> HIDE DEF p, iPack
<1>4. iPack.asker \in Conns
  BY <1>2 DEF IPackets
<1>5. /\ writes' \in [Conns -> Seq(Conns \cup {None})]
      /\ disturbed \subseteq disturbed'
      /\ \A d \in Conns \ disturbed' :
           IF d = iPack.asker THEN writes[d] = <<>> => writes'[d] \in {<<>>, <<d>>}
                              ELSE writes'[d] = writes[d]
  <2>1. p.asker \in Conns
    BY <1>3, <1>4
  <2>2. PICK id : p.sendToIDs = <<id>>
    BY <1>3
  <2>3. WriteFrames("send", p, send(p), {})
    BY <1>1
  <2>4. /\ writes' \in [Conns -> Seq(Conns \cup {None})]
        /\ disturbed \cup {} \subseteq disturbed'
        /\ \A d \in Conns \ disturbed' :
             IF p.asker = d THEN writes[d] = <<>> => writes'[d] \in {<<>>, <<d>>}
                            ELSE writes'[d] = writes[d]
    BY <2>1, <2>2, <2>3, Answered
  <2>5. QED
    BY <1>3, <2>4
<1>6. ASSUME NEW d \in Conns, NEW i \in Asks(d)' PROVE i \in Nat /\ i + 1 \in Asks(d) /\ i + 1 # 1
  BY <1>2 DEF Asks
<1>7. ASSUME NEW d \in Conns \ disturbed'
      PROVE  /\ \A i, j \in Asks(d)' : i = j
             /\ Asks(d)' # {} => writes'[d] = <<>> /\ d \in waiting'
             /\ writes'[d] # <<>> => writes'[d] = <<d>> /\ d \in waiting'
  <2>0. /\ \A i, j \in Asks(d) : i = j
        /\ Asks(d) # {} => writes[d] = <<>> /\ d \in waiting
        /\ writes[d] # <<>> => writes[d] = <<d>> /\ d \in waiting
    BY <1>5, <1>7 DEF PInv, PoliteInv
  <2>1. CASE d = iPack.asker
    <3>1. 1 \in Asks(d)
      BY <1>2, <2>1 DEF Asks
    <3>2. Asks(d)' = {}
      BY <1>6, <2>0, <3>1
    <3>3. QED
      BY <1>1, <1>5, <1>7, <2>0, <2>1, <3>1, <3>2
  <2>2. CASE d # iPack.asker
    <3>1. writes'[d] = writes[d]
      BY <1>5, <1>7, <2>2
    <3>2. \A i, j \in Asks(d)' : i = j
      BY <1>6, <2>0
    <3>3. QED
      BY <1>1, <1>6, <2>0, <3>1, <3>2
  <2>3. QED
    BY <2>1, <2>2
<1>8. QueueInv'
  BY <1>1, <1>2 DEF PInv, QueueInv
<1>9. PoliteInv'
  BY <1>7 DEF PoliteInv
<1>10. QED
  BY <1>1, <1>5, <1>8, <1>9 DEF PInv, CM!TypeOK, CM!IdMatches, KeptInv

--------------------------------------------------------------------------------
(* Broadcasts and kept packets *)

LEMMA UsedFinite == IsFiniteSet(CM!Used)
<1>1. CM!Used \in SUBSET (1 .. MAX_CLIENTS - 1)
  BY DEF CM!Used, CM!Ids
<1>2. IsFiniteSet(1 .. MAX_CLIENTS - 1)
  BY MaxAssumption, FS_Interval
<1>3. QED
  BY <1>1, <1>2, FS_Subset

LEMMA OthersFinite ==
  ASSUME NEW id
  PROVE  IsFiniteSet(others(id))
  BY UsedFinite, FS_Subset, others(id) \in SUBSET CM!Used DEF others

LEMMA KnownFinite ==
  ASSUME NEW p, p.sendToIDs \in Seq(Int)
  PROVE  IsFiniteSet(known(p))
<1>1. known(p) \in SUBSET (1 .. Len(p.sendToIDs)) /\ Len(p.sendToIDs) \in Int
  BY DEF known
<1>2. QED
  BY <1>1, FS_Interval, FS_Subset

(* A call writes finitely many frames if its loop has finitely many turns. *)
LEMMA FramesFinite ==
  ASSUME NEW frames, NEW places, IsFiniteSet(places), NEW at \in [places -> frames],
         \A frame \in frames : \E place \in places : frame = at[place]
  PROVE  IsFiniteSet(frames)
<1>1. at \in Surjection(places, frames)
  BY DEF Surjection
<1>2. QED
  BY <1>1, FS_Surjection

LEMMA SendFinite ==
  ASSUME NEW p, p.sendToIDs \in Seq(Int)
  PROVE  IsFiniteSet(send(p))
<1> DEFINE at == [i \in known(p) |-> Frame(p, i, p.sendToIDs[i], p.senderID)]
<1>1. at \in [known(p) -> send(p)] /\ \A frame \in send(p) : \E i \in known(p) : frame = at[i]
  BY DEF send
<1> HIDE DEF at
<1>2. QED
  BY <1>1, KnownFinite, FramesFinite

LEMMA ExceptFinite ==
  ASSUME NEW p, NEW id
  PROVE  IsFiniteSet(sendToAllExcept(p, id))
<1> DEFINE at == [i \in others(id) |-> Frame(p, i, i, i)]
<1>1. /\ at \in [others(id) -> sendToAllExcept(p, id)]
      /\ \A frame \in sendToAllExcept(p, id) : \E i \in others(id) : frame = at[i]
  BY DEF sendToAllExcept
<1> HIDE DEF at
<1>2. QED
  BY <1>1, OthersFinite, FramesFinite

LEMMA ListFinite ==
  ASSUME NEW p, p.sendToIDs \in Seq(Int), NEW ids
  PROVE  IsFiniteSet(sendToAllExceptList(p, ids))
<1> DEFINE at == [b \in CM!Used \X known(p) |-> Frame(p, <<b[1], b[2]>>, p.sendToIDs[b[2]], b[1])]
<1>1. IsFiniteSet(CM!Used \X known(p))
  BY UsedFinite, KnownFinite, FS_Product
<1>2. at \in [CM!Used \X known(p) -> sendToAllExceptList(p, ids)]
  <2>1. ASSUME NEW b \in CM!Used \X known(p)
        PROVE  Frame(p, <<b[1], b[2]>>, p.sendToIDs[b[2]], b[1]) \in sendToAllExceptList(p, ids)
    <3>1. b[1] \in CM!Used /\ b[2] \in known(p)
      OBVIOUS
    <3>2. QED
      BY <3>1 DEF sendToAllExceptList
  <2>2. QED
    BY <2>1
<1>3. ASSUME NEW frame \in sendToAllExceptList(p, ids)
      PROVE  \E b \in CM!Used \X known(p) : frame = at[b]
  <2>1. PICK id \in CM!Used, i \in known(p) : frame = Frame(p, <<id, i>>, p.sendToIDs[i], id)
    BY DEF sendToAllExceptList
  <2>2. <<id, i>> \in CM!Used \X known(p) /\ frame = at[<<id, i>>]
    BY <2>1
  <2>3. QED
    BY <2>2
<1> HIDE DEF at
<1>4. QED
  BY <1>1, <1>2, <1>3, FramesFinite

(* Who is not disturbed gets nothing from a packet that answers nobody. *)
LEMMA Unasked ==
  ASSUME PInv, NEW how, NEW p, p.asker = None, NEW frames, IsFiniteSet(frames),
         NEW early, WriteFrames(how, p, frames, early),
         UNCHANGED <<clients, cid, syncProcess, waiting>>, KeptInv'
  PROVE  PInv'
<1>1. writes' \in [Conns -> Seq(Conns \cup {None})]
      /\ \A c \in Conns \ disturbed' : c \notin disturbed /\ writes'[c] = writes[c]
  BY FramesWritten, ConnsAssumption
<1>2. PoliteInv'
  BY <1>1 DEF PInv, PoliteInv, Asks
<1>3. QED
  BY <1>1, <1>2 DEF PInv, CM!TypeOK, CM!IdMatches, QueueInv

LEMMA KeptAfter ==
  ASSUME NEW p, Keepable(p), NEW ids
  PROVE  Keepable(afterBroadcast(p, ids))
<1> DEFINE m == Max(ids)
<1> HIDE DEF m
<1>1. Keepable([p EXCEPT !.senderID = m, !.named = None])
  BY DEF Keepable
<1>2. QED
  BY <1>1 DEF afterBroadcast, m

LEMMA RelayStep ==
  ASSUME PInv, NEW c \in Conns, NEW arrival \in Arrivals, Relay(c, arrival)
  PROVE  PInv'
<1> DEFINE p == fromIPacket(decryptHeader(c, arrival))
<1>1. /\ ForServer(c, arrival, AppKey) /\ UNCHANGED <<clients, cid, syncProcess, waiting>>
      /\ WriteFrames("exceptSender", p, sendToAllExceptSender(p), hasty(c))
      /\ kept' = afterBroadcast(p, others(p.senderID))
  BY DEF Relay, connVars
<1>2. Keepable(p)
  BY <1>1 DEF ForServer, fromIPacket, OPacket, decryptHeader, Keepable
<1> HIDE DEF p
<1>3. KeptInv'
  BY <1>1, <1>2, KeptAfter DEF KeptInv
<1>4. IsFiniteSet(sendToAllExceptSender(p))
  BY ExceptFinite DEF sendToAllExceptSender
<1>5. p.asker = None
  BY <1>2 DEF Keepable
<1>6. QED
  BY <1>1, <1>3, <1>4, <1>5, Unasked

LEMMA RemoveFirstType ==
  ASSUME NEW s \in Seq(Int), NEW e
  PROVE  RemoveFirst(s, e) \in Seq(Int)
<1>1. CASE \E i \in 1 .. Len(s) : s[i] = e
  <2> DEFINE I == { i \in 1 .. Len(s) : s[i] = e }
             m == Min(I)
  <2>1. I \in SUBSET Nat /\ I # {}
    BY <1>1
  <2>2. PICK n \in I : \A i \in I : ~ (<<i, n>> \in OpToRel(<, Nat))
    BY <2>1, NatLessThanWellFounded, WFMin
  <2>3. \A i \in I : n <= i
    <3> HIDE DEF I
    <3>1. \A i \in I : ~ (i < n)
      BY <2>1, <2>2 DEF OpToRel
    <3>2. QED
      BY <2>1, <3>1
  <2>4. m \in I
    BY <2>2, <2>3 DEF Min
  <2>5. RemoveFirst(s, e) = SubSeq(s, 1, m - 1) \o SubSeq(s, m + 1, Len(s))
    BY <1>1, <2>1 DEF RemoveFirst, RemoveAt, SelectInSeq
  <2>6. m \in 1 .. Len(s) /\ Len(s) \in Nat
    BY <2>4
  <2> HIDE DEF m
  <2>7. SubSeq(s, 1, m - 1) \in Seq(Int) /\ SubSeq(s, m + 1, Len(s)) \in Seq(Int)
    BY <2>6
  <2>8. QED
    BY <2>5, <2>7
<1>2. CASE ~ \E i \in 1 .. Len(s) : s[i] = e
  BY <1>2 DEF RemoveFirst
<1>3. QED
  BY <1>1, <1>2

LEMMA PrepareStep ==
  ASSUME PInv, Prepare
  PROVE  PInv'
<1>1. Keepable(kept) /\ kept # None
  BY DEF Prepare, PInv, KeptInv
<1>2. UNCHANGED <<clients, cid, writes, syncProcess, waiting, disturbed>>
  BY DEF Prepare, connVars
<1>3. \A id \in Ids : id \in Int
  BY DEF Ids, CM!Ids
<1>4. Keepable(kept)'
  <2>1. ASSUME NEW id \in Ids, kept' = [kept EXCEPT !.senderID = id, !.named = id]
        PROVE  Keepable(kept)'
    BY <1>1, <2>1 DEF Keepable
  <2>2. ASSUME NEW to \in Seq(Int), kept' = [kept EXCEPT !.sendToIDs = to]
        PROVE  Keepable(kept)'
    BY <1>1, <2>2 DEF Keepable
  <2>3. kept.sendToIDs \in Seq(Int)
    BY <1>1 DEF Keepable
  <2>4. \/ \E id \in Ids : kept' = [kept EXCEPT !.senderID = id, !.named = id]
        \/ \E id \in Ids : kept' = [kept EXCEPT !.sendToIDs = Append(kept.sendToIDs, id)]
        \/ \E id \in Ids : kept' = [kept EXCEPT !.sendToIDs = RemoveFirst(kept.sendToIDs, id)]
        \/ kept' = [kept EXCEPT !.sendToIDs = <<>>]
    BY DEF Prepare
  <2>5. ASSUME NEW id \in Ids, kept' = [kept EXCEPT !.sendToIDs = Append(kept.sendToIDs, id)]
        PROVE  Keepable(kept)'
    <3>1. Append(kept.sendToIDs, id) \in Seq(Int)
      BY <1>3, <2>3
    <3>2. QED
      BY <2>2, <2>5, <3>1
  <2>6. ASSUME NEW id \in Ids, kept' = [kept EXCEPT !.sendToIDs = RemoveFirst(kept.sendToIDs, id)]
        PROVE  Keepable(kept)'
    BY <2>2, <2>3, <2>6, RemoveFirstType
  <2>7. CASE kept' = [kept EXCEPT !.sendToIDs = <<>>]
    <3>1. <<>> \in Seq(Int)
      OBVIOUS
    <3>2. QED
      BY <2>2, <2>7, <3>1
  <2>8. QED
    BY <2>1, <2>4, <2>5, <2>6, <2>7
<1>5. QED
  BY <1>2, <1>4 DEF PInv, CM!TypeOK, CM!IdMatches, QueueInv, PoliteInv, Asks, KeptInv

LEMMA CallStep ==
  ASSUME PInv, NEW how, NEW frames, IsFiniteSet(frames), NEW reached, Call(how, frames, reached)
  PROVE  PInv'
<1>1. /\ kept # None /\ WriteFrames(how, kept, frames, {})
      /\ kept' = afterBroadcast(kept, reached)
      /\ UNCHANGED <<clients, cid, syncProcess, waiting>>
  BY DEF Call, connVars
<1>2. Keepable(kept)
  BY <1>1 DEF PInv, KeptInv
<1>3. KeptInv'
  BY <1>1, <1>2, KeptAfter DEF KeptInv
<1>4. kept.asker = None
  BY <1>2 DEF Keepable
<1>5. QED
  BY <1>1, <1>3, <1>4, Unasked

LEMMA SendKeptStep ==
  ASSUME PInv, SendKept
  PROVE  PInv'
<1>1. kept # None
  BY DEF SendKept, Call
<1>2. kept.sendToIDs \in Seq(Int)
  BY <1>1 DEF PInv, KeptInv, Keepable
<1>3. IsFiniteSet(send(kept))
  BY <1>2, SendFinite
<1>4. ASSUME NEW id PROVE IsFiniteSet(sendTo(kept, id))
  BY <1>3, FS_EmptySet, FS_Singleton DEF sendTo
<1>5. /\ IsFiniteSet(sendToAll(kept)) /\ IsFiniteSet(sendToAllExceptSender(kept))
      /\ \A id : IsFiniteSet(sendToAllExcept(kept, id))
      /\ \A ids : IsFiniteSet(sendToAllExceptList(kept, ids))
  BY <1>2, ExceptFinite, ListFinite DEF sendToAll, sendToAllExceptSender
<1>6. PICK how, frames, reached : IsFiniteSet(frames) /\ Call(how, frames, reached)
  BY <1>3, <1>4, <1>5 DEF SendKept
<1>7. QED
  BY <1>6, CallStep

--------------------------------------------------------------------------------

LEMMA InitPInv == Init => PInv
<1> SUFFICES ASSUME Init PROVE PInv
  OBVIOUS
<1>1. CM!TypeOK /\ CM!IdMatches
  BY MaxAssumption DEF Init, CM!Init, CM!TypeOK, CM!IdMatches
<1>2. writes \in [Conns -> Seq(Conns \cup {None})] /\ QueueInv /\ PoliteInv /\ KeptInv
  BY DEF Init, QueueInv, PoliteInv, KeptInv, Asks
<1>3. QED
  BY <1>1, <1>2 DEF PInv

LEMMA StepPInv == PInv /\ [Next]_pktVars => PInv'
<1> SUFFICES ASSUME PInv, [Next]_pktVars PROVE PInv'
  OBVIOUS
<1>1. CASE UNCHANGED pktVars
  BY <1>1 DEF pktVars, connVars, PInv, CM!TypeOK, CM!IdMatches, QueueInv, PoliteInv, Asks, KeptInv
<1>2. ASSUME NEW c \in Conns, Connect(c) \/ ReadError(c) \/ WriteReset(c) \/ AsyncSend(c) \/ ReadHandshake(c)
      PROVE  PInv'
  <2>1. CASE ReadError(c)
    BY <2>1, RemoveStep DEF ReadError
  <2>2. QED
    BY <1>2, <2>1, ConnectStep, WriteResetStep, AsyncSendStep, ReadHandshakeStep
<1>3. ASSUME NEW c \in Conns, NEW arrival \in Arrivals,
             \/ ReadCrash(c, arrival) \/ ReadIgnored(c, arrival) \/ keyA0(c, arrival)
             \/ addToProcessing(c, arrival) \/ Relay(c, arrival)
      PROVE  PInv'
  <2>1. CASE ReadCrash(c, arrival)
    BY <2>1, EndsStep DEF ReadCrash
  <2>2. QED
    BY <1>3, <2>1, ReadIgnoredStep, KeyA0Step, AddToProcessingStep, RelayStep
<1>4. CASE SetNullKey \/ SendToFails
  BY <1>4, EndsStep DEF SetNullKey, SendToFails
<1>5. CASE Process \/ Prepare \/ SendKept
  BY <1>5, ProcessStep, PrepareStep, SendKeptStep
<1>6. QED
  BY <1>1, <1>2, <1>3, <1>4, <1>5 DEF Next

(***************************************************************************)
(* Ids in queued packets mean their askers, a polite peer has one question  *)
(* or one answer in the server, and a kept packet keeps its sender.         *)
(***************************************************************************)
THEOREM PacketInvariant == Spec => []PInv
  BY InitPInv, StepPInv, PTL DEF Spec

(* Writes to a connection overlap only if its peer, or a broadcast, did not wait. *)
THEOREM AnswersDoNotOverlap == Spec => []PoliteNotOverlapped
<1>1. PInv => PoliteNotOverlapped
  <2>1. ASSUME NEW c PROVE Len(<<>>) <= 1 /\ Len(<<c>>) <= 1
    OBVIOUS
  <2>2. QED
    BY <2>1 DEF PInv, PoliteInv, PoliteNotOverlapped
<1>2. QED
  BY <1>1, PacketInvariant, PTL

--------------------------------------------------------------------------------
(* What a header and an A1 of the server tell whoever parses them. *)

LEMMA TwoTokens ==
  ASSUME NEW a, NEW b
  PROVE  <<a>> \o <<b>> \o <<>> = <<a, b>>
<1> DEFINE S  == {a, b}
           s  == <<a>>
           t  == <<b>>
           ab == <<a, b>>
<1>1. /\ s \in Seq(S) /\ Len(s) = 1 /\ s[1] = a
      /\ t \in Seq(S) /\ Len(t) = 1 /\ t[1] = b
      /\ ab \in Seq(S) /\ Len(ab) = 2 /\ ab[1] = a /\ ab[2] = b
  OBVIOUS
<1> HIDE DEF S, s, t, ab
<1>2. s \o t \in Seq(S) /\ Len(s \o t) = 2 /\ (s \o t)[1] = a /\ (s \o t)[2] = b
  BY <1>1, ConcatProperties
<1>3. s \o t = ab
  BY <1>1, <1>2, SeqEqual
<1>4. ab \o <<>> = ab
  BY <1>1, ConcatEmptySeq
<1>5. QED
  BY <1>3, <1>4 DEF s, t, ab

LEMMA OneToken ==
  ASSUME NEW a
  PROVE  <<a>> \o <<>> = <<a>>
  OBVIOUS

LEMMA SubsetsOfTwo ==
  ASSUME NEW s \in SUBSET {1, 2}
  PROVE  s = {} \/ s = {1} \/ s = {2} \/ s = {1, 2}
  OBVIOUS

LEMMA Maxima == Max({1}) = 1 /\ Max({2}) = 2 /\ Max({1, 2}) = 2
  BY DEF Max

LEMMA HeaderTokens ==
  ASSUME NEW loc, NEW sender
  PROVE  Out!SerializeWithCachedSizes(Out!set_sentFromID(Out!set_locKey(Out!New, loc), sender))
           = <<Out!Token(10, loc), Out!Token(16, sender)>>
<1> DEFINE m == Out!set_sentFromID(Out!set_locKey(Out!New, loc), sender)
<1>1. /\ m.has = {"locKey", "sentFromID"} /\ m.locKey = loc /\ m.sentFromID = sender
      /\ m.unknown = <<>>
  BY DEF Out!set_sentFromID, Out!set_locKey, Out!mutable_locKey, Out!New
<1> HIDE DEF m
<1>2. Out!SerializeWithCachedSizes(m) = <<Out!Token(10, loc)>> \o <<Out!Token(16, sender)>> \o <<>>
  BY <1>1 DEF Out!SerializeWithCachedSizes
<1>3. QED
  BY <1>2, TwoTokens DEF m

LEMMA HeaderParsed ==
  ASSUME NEW loc, NEW sender
  PROVE  Out!MergePartialFromCodedStream(Out!New,
           <<Out!Token(10, loc), Out!Token(16, sender)>>).msg.sentFromID = sender
<1> DEFINE a == Out!Token(10, loc)
           b == Out!Token(16, sender)
           tokens == <<a, b>>
           op(t, s) == Out!mergeToken(s, t, Out!Field(s.msg, t))
           base == Out!Reading(Out!New)
           Solves(it) == it = [s \in SUBSET {1, 2} |->
                                 IF s = {} THEN base ELSE op(tokens[Max(s)], it[s \ {Max(s)}])]
<1>1. Out!MergePartialFromCodedStream(Out!New, tokens) = (CHOOSE it : Solves(it))[{1, 2}]
  <2>1. DOMAIN tokens = {1, 2}
    OBVIOUS
  <2> HIDE DEF tokens
  <2>2. QED
    BY <2>1 DEF Out!MergePartialFromCodedStream, Out!FoldLeft, Out!MapThenFoldSet, Out!Max, Max
<1>2. op(a, base).result = "reading"
  BY DEF Out!mergeToken, Out!Reading, Out!Field, Out!Token, Out!Stored
<1>3. ASSUME NEW s, s.result = "reading"
      PROVE  op(b, s).msg.sentFromID = sender
  BY <1>3 DEF Out!mergeToken, Out!Reading, Out!Field, Out!Token, Out!Stored, Out!set_sentFromID
<1> DEFINE g == [s \in SUBSET {1, 2} |->
                   IF s = {} THEN base ELSE IF s = {1} THEN op(a, base)
                   ELSE IF s = {2} THEN op(b, base) ELSE op(b, op(a, base))]
<1>4. tokens[1] = a /\ tokens[2] = b
  OBVIOUS
<1> HIDE DEF a, b, tokens, op, base
<1>5. Solves(g)
  <2>1. ASSUME NEW s \in SUBSET {1, 2}
        PROVE  g[s] = IF s = {} THEN base ELSE op(tokens[Max(s)], g[s \ {Max(s)}])
    <3>1. CASE s = {}
      BY <3>1
    <3>2. CASE s = {1}
      <4>1. s \ {1} = {}
        BY <3>2
      <4>2. QED
        BY <1>4, <3>2, <4>1, Maxima
    <3>3. CASE s = {2}
      <4>1. s \ {2} = {}
        BY <3>3
      <4>2. QED
        BY <1>4, <3>3, <4>1, Maxima
    <3>4. CASE s = {1, 2}
      <4>1. s \ {2} = {1}
        BY <3>4
      <4>2. QED
        BY <1>4, <3>4, <4>1, Maxima
    <3>5. QED
      BY <3>1, <3>2, <3>3, <3>4, SubsetsOfTwo
  <2>2. QED
    BY <2>1
<1> DEFINE h == CHOOSE it : Solves(it)
<1>6. Solves(h)
  BY <1>5
<1> HIDE DEF h
<1>7. h[{}] = base /\ h[{1}] = op(a, base)
  <2>1. h[{}] = base
    BY <1>6
  <2>2. {1} \ {1} = {} /\ {1} # {}
    OBVIOUS
  <2>3. h[{1}] = op(tokens[Max({1})], h[{1} \ {Max({1})}])
    BY <1>6, <2>2
  <2>4. QED
    BY <1>4, <2>1, <2>2, <2>3, Maxima
<1>8. h[{1, 2}] = op(b, op(a, base))
  <2>1. {1, 2} \ {2} = {1} /\ {1, 2} # {}
    OBVIOUS
  <2>2. h[{1, 2}] = op(tokens[Max({1, 2})], h[{1, 2} \ {Max({1, 2})}])
    BY <1>6, <2>1
  <2>3. QED
    BY <1>4, <1>7, <2>1, <2>2, Maxima
<1>9. QED
  BY <1>1, <1>2, <1>3, <1>8 DEF h, tokens, a, b

LEMMA A1Tokens ==
  ASSUME NEW id
  PROVE  A1!SerializeWithCachedSizes(A1!set_id(A1!New, id)) = <<A1!Token(8, id)>>
<1> DEFINE m == A1!set_id(A1!New, id)
<1>1. m.has = {"id"} /\ m.id = id /\ m.unknown = <<>>
  BY DEF A1!set_id, A1!New
<1> HIDE DEF m
<1>2. A1!SerializeWithCachedSizes(m) = <<A1!Token(8, id)>> \o <<>>
  BY <1>1 DEF A1!SerializeWithCachedSizes
<1>3. QED
  BY <1>2, OneToken DEF m

LEMMA A1Parsed ==
  ASSUME NEW id
  PROVE  A1!MergePartialFromCodedStream(A1!New, <<A1!Token(8, id)>>).msg.id = id
<1> DEFINE a == A1!Token(8, id)
           tokens == <<a>>
           op(t, s) == A1!mergeToken(s, t, A1!Field(s.msg, t))
           base == A1!Reading(A1!New)
           Solves(it) == it = [s \in SUBSET {1} |->
                                 IF s = {} THEN base ELSE op(tokens[Max(s)], it[s \ {Max(s)}])]
<1>1. A1!MergePartialFromCodedStream(A1!New, tokens) = (CHOOSE it : Solves(it))[{1}]
  <2>1. DOMAIN tokens = {1}
    OBVIOUS
  <2> HIDE DEF tokens
  <2>2. QED
    BY <2>1 DEF A1!MergePartialFromCodedStream, A1!FoldLeft, A1!MapThenFoldSet, A1!Max, Max
<1>2. op(a, base).msg.id = id
  BY DEF A1!mergeToken, A1!Reading, A1!Field, A1!Token, A1!Stored, A1!set_id, A1!New
<1> DEFINE g == [s \in SUBSET {1} |-> IF s = {} THEN base ELSE op(a, base)]
<1>3. tokens[1] = a
  OBVIOUS
<1> HIDE DEF a, tokens, op, base
<1>4. Solves(g)
  <2>1. ASSUME NEW s \in SUBSET {1}
        PROVE  g[s] = IF s = {} THEN base ELSE op(tokens[Max(s)], g[s \ {Max(s)}])
    <3>1. CASE s = {}
      BY <3>1
    <3>2. CASE s = {1}
      <4>1. s \ {1} = {}
        BY <3>2
      <4>2. QED
        BY <1>3, <3>2, <4>1, Maxima
    <3>3. QED
      BY <3>1, <3>2
  <2>2. QED
    BY <2>1
<1> DEFINE h == CHOOSE it : Solves(it)
<1>5. Solves(h)
  BY <1>4
<1> HIDE DEF h
<1>6. h[{1}] = op(a, base)
  <2>1. h[{}] = base
    BY <1>5
  <2>2. {1} \ {1} = {} /\ {1} # {}
    OBVIOUS
  <2>3. h[{1}] = op(tokens[Max({1})], h[{1} \ {Max({1})}])
    BY <1>5, <2>2
  <2>4. QED
    BY <1>3, <2>1, <2>2, <2>3, Maxima
<1>7. QED
  BY <1>1, <1>2, <1>6 DEF h, tokens, a

LEMMA HeaderNames ==
  ASSUME NEW p, NEW place, NEW id, NEW sender
  PROVE  SenderIn(Frame(p, place, id, sender)) = sender
  BY HeaderTokens, HeaderParsed DEF SenderIn, Frame, encryptHeader

--------------------------------------------------------------------------------
(* What a step says, and to whom. *)

(* The steps that call a send function, or none. *)
LEMMA StepCalls ==
  ASSUME PInv, Next
  PROVE  \/ last' = NoCall
         \/ \E c \in Conns, arrival \in Arrivals : keyA0(c, arrival) \/ Relay(c, arrival)
         \/ Process
         \/ SendKept
  BY DEF Next, Connect, ReadError, WriteReset, AsyncSend, ReadHandshake, ReadCrash, ReadIgnored,
         addToProcessing, Prepare, SetNullKey, SendToFails, Ends, SendsNothing

(* The calls that go through the recipients of a packet, and the broadcasts. *)
Sends(p) ==
  /\ last'.how = "send" /\ last'.packet = p
  /\ \A frame \in last'.frames :
       \E place, id : frame = Frame(p, place, id, p.senderID)

Broadcasts(p, id) ==
  /\ last'.how \in {"all", "exceptSender", "except"} /\ last'.packet = p
  /\ last'.frames = sendToAllExcept(p, id)
  /\ last'.how = "exceptSender" => id = p.senderID

LEMMA SendSends ==
  ASSUME NEW p, NEW early, WriteFrames("send", p, send(p), early)
  PROVE  Sends(p)
  BY DEF WriteFrames, send, Sends

LEMMA KeptCalls ==
  ASSUME PInv, SendKept
  PROVE  \/ Sends(kept) \/ (\E id : Broadcasts(kept, id))
         \/ last'.how = "exceptList" /\ last'.packet = kept
<1>1. ASSUME NEW id, Call("send", sendTo(kept, id), {})
      PROVE  Sends(kept)
  <2>1. WriteFrames("send", kept, sendTo(kept, id), {})
    BY <1>1 DEF Call
  <2>2. \A frame \in sendTo(kept, id) : \E place, i : frame = Frame(kept, place, i, kept.senderID)
    BY DEF sendTo, send
  <2>3. QED
    BY <2>1, <2>2 DEF WriteFrames, Sends
<1>2. ASSUME Call("send", send(kept), {})
      PROVE  Sends(kept)
  BY <1>2, SendSends DEF Call
<1>3. ASSUME NEW how \in {"all", "exceptSender", "except"}, NEW id, NEW reached,
             how = "exceptSender" => id = kept.senderID,
             Call(how, sendToAllExcept(kept, id), reached)
      PROVE  Broadcasts(kept, id)
  BY <1>3 DEF Call, WriteFrames, Broadcasts
<1>4. ASSUME NEW frames, NEW reached, Call("exceptList", frames, reached)
      PROVE  last'.how = "exceptList" /\ last'.packet = kept
  BY <1>4 DEF Call, WriteFrames
<1>5. CASE Call("all", sendToAll(kept), others(0))
  BY <1>3, <1>5 DEF sendToAll
<1>6. CASE Call("exceptSender", sendToAllExceptSender(kept), others(kept.senderID))
  BY <1>3, <1>6 DEF sendToAllExceptSender
<1>7. ASSUME NEW id, Call("except", sendToAllExcept(kept, id), others(id))
      PROVE  Broadcasts(kept, id)
  BY <1>3, <1>7
<1>8. QED
  BY <1>1, <1>2, <1>4, <1>5, <1>6, <1>7 DEF SendKept

LEMMA RelayCalls ==
  ASSUME NEW c \in Conns, NEW arrival \in Arrivals, Relay(c, arrival)
  PROVE  Keepable(last'.packet) /\ Broadcasts(last'.packet, last'.packet.senderID) /\ cid' = cid
<1> DEFINE p == fromIPacket(decryptHeader(c, arrival))
<1>1. ForServer(c, arrival, AppKey) /\ WriteFrames("exceptSender", p, sendToAllExceptSender(p), hasty(c))
      /\ cid' = cid
  BY DEF Relay, connVars
<1>2. Keepable(p)
  BY <1>1 DEF ForServer, fromIPacket, OPacket, decryptHeader, Keepable
<1> HIDE DEF p
<1>3. QED
  BY <1>1, <1>2 DEF WriteFrames, Broadcasts, sendToAllExceptSender

(* An answer, at once or from the queue, is for the id of whoever asked. *)
Answers(p) ==
  /\ p.asker \in Conns /\ p.senderID = 0 /\ p.named = 0
  /\ \/ /\ p.locKey = KeyA1 /\ p.sendToIDs = <<cid[p.asker]>>
        /\ p.data = A1!SerializeWithCachedSizes(A1!set_id(A1!New, cid[p.asker]))
     \/ p.locKey = AppKey /\ p.sendToIDs \in {<<0>>, <<cid[p.asker]>>}

LEMMA KeyA0Answers ==
  ASSUME NEW c \in Conns, NEW arrival \in Arrivals, keyA0(c, arrival)
  PROVE  Answers(last'.packet) /\ last'.how = "send" /\ last'.frames = send(last'.packet) /\ cid' = cid
<1> DEFINE p == createPackA1(decryptHeader(c, arrival))
<1>1. WriteFrames("send", p, send(p), hasty(c)) /\ cid' = cid
  BY DEF keyA0, answer, connVars
<1>2. Answers(p)
  BY DEF createPackA1, OPacket, decryptHeader, Answers
<1> HIDE DEF p
<1>3. QED
  BY <1>1, <1>2 DEF WriteFrames

LEMMA ProcessAnswers ==
  ASSUME PInv, Process
  PROVE  Answers(last'.packet) /\ last'.how = "send" /\ last'.frames = send(last'.packet) /\ cid' = cid
<1> DEFINE iPack == Head(syncProcess)
           p     == OPacket(AppKey, 0, <<iPack.sentFromID>>, iPack.asker)
<1>1. WriteFrames("send", p, send(p), {}) /\ cid' = cid /\ syncProcess # <<>>
  BY DEF Process, connVars
<1>2. /\ iPack = syncProcess[1] /\ 1 \in DOMAIN syncProcess /\ syncProcess[1] \in IPackets
  BY <1>1 DEF PInv, QueueInv
<1>3. /\ p.asker = iPack.asker /\ p.sendToIDs = <<iPack.sentFromID>>
      /\ p.senderID = 0 /\ p.named = 0 /\ p.locKey = AppKey
  BY DEF OPacket
<1> HIDE DEF p, iPack
<1>4. iPack.asker \in Conns /\ (iPack.sentFromID = 0 \/ iPack.sentFromID = cid[iPack.asker])
  BY <1>2 DEF IPackets, PInv, QueueInv
<1>5. Answers(p)
  BY <1>3, <1>4 DEF Answers
<1>6. QED
  BY <1>1, <1>5 DEF WriteFrames

(* All that a step may send: an answer, or what is kept or relayed. *)
LEMMA WhatIsSent ==
  ASSUME PInv, Next
  PROVE  \/ last' = NoCall
         \/ /\ Answers(last'.packet) /\ last'.how = "send" /\ last'.frames = send(last'.packet)
            /\ cid' = cid
         \/ /\ Keepable(last'.packet) /\ cid' = cid
            /\ \/ Sends(last'.packet)
               \/ \E id : Broadcasts(last'.packet, id)
               \/ last'.how = "exceptList"
<1>1. ASSUME SendKept
      PROVE  /\ Keepable(last'.packet) /\ cid' = cid
             /\ \/ Sends(last'.packet)
                \/ \E id : Broadcasts(last'.packet, id)
                \/ last'.how = "exceptList"
  <2>1. kept # None /\ cid' = cid
    BY <1>1 DEF SendKept, Call, connVars
  <2>2. Keepable(kept)
    BY <2>1 DEF PInv, KeptInv
  <2>3. last'.packet = kept
    BY <1>1, KeptCalls DEF Sends, Broadcasts
  <2>4. QED
    BY <1>1, <2>1, <2>2, <2>3, KeptCalls
<1>2. QED
  BY <1>1, StepCalls, RelayCalls, KeyA0Answers, ProcessAnswers

(* The only id under which a connection is stored is its own. *)
LEMMA AnswerGoesTo ==
  ASSUME PInv, NEW p, Answers(p), NEW frame \in send(p)
  PROVE  /\ cid[p.asker] \in CM!Ids /\ clients[cid[p.asker]] # None
         /\ frame = Frame(p, 1, cid[p.asker], 0)
<1>1. PICK id : p.sendToIDs = <<id>> /\ id \in {0, cid[p.asker]}
  BY DEF Answers
<1>2. frame = Frame(p, 1, id, 0) /\ CM!getClient(id) # None
  BY <1>1, OneFrame DEF Answers
<1>3. id \in CM!Ids /\ clients[id] # None /\ 0 \notin CM!Ids
  BY <1>2, MaxAssumption DEF CM!getClient, CM!Ids
<1>4. id = cid[p.asker]
  BY <1>1, <1>3
<1>5. QED
  BY <1>2, <1>3, <1>4

LEMMA AskerStep ==
  ASSUME PInv, Next, NEW frame \in last'.frames, last'.packet.asker \in Range(clients) \ {None}
  PROVE  frame.to = last'.packet.asker
<1> DEFINE p == last'.packet
<1>1. last' # NoCall
  BY DEF NoCall
<1>2. ~ Keepable(p)
  BY DEF Keepable
<1>3. Answers(p) /\ frame \in send(p)
  BY <1>1, <1>2, WhatIsSent
<1>4. clients[cid[p.asker]] = p.asker
  BY <1>3 DEF Range, PInv, CM!TypeOK, CM!IdMatches
<1>5. frame.to = clients[cid[p.asker]]
  BY <1>3, AnswerGoesTo DEF Frame
<1>6. QED
  BY <1>4, <1>5

(* An answer reaches its asker, or nobody, as long as the asker is a client. *)
THEOREM AnswerReachesAsker == Spec => AnswersAsker
<1>1. PInv /\ [Next]_pktVars =>
        [\A frame \in last'.frames :
           last'.packet.asker \in Range(clients) \ {None} => frame.to = last'.packet.asker]_pktVars
  BY AskerStep
<1>2. QED
  BY <1>1, PacketInvariant, PTL DEF Spec, AnswersAsker

LEMMA ToldStep ==
  ASSUME PInv, Next, NEW frame \in last'.frames, last'.packet.locKey = KeyA1
  PROVE  ReadId(frame) = cid'[frame.to]
<1> DEFINE p == last'.packet
           id == cid[p.asker]
<1>1. last' # NoCall
  BY DEF NoCall
<1>2. AppKey # KeyA1
  BY DEF AppKey, KeyA1
<1>3. Answers(p) /\ frame \in send(p) /\ cid' = cid
  BY <1>1, <1>2, WhatIsSent DEF Keepable
<1>4. id \in CM!Ids /\ clients[id] # None /\ frame = Frame(p, 1, id, 0)
  BY <1>3, AnswerGoesTo
<1>5. p.data = A1!SerializeWithCachedSizes(A1!set_id(A1!New, id))
  BY <1>2, <1>3 DEF Answers
<1> HIDE DEF p, id
<1>6. frame.to = clients[id] /\ frame.data = p.data
  BY <1>4 DEF Frame
<1>7. ReadId(frame) = id
  BY <1>5, <1>6, A1Tokens, A1Parsed DEF ReadId
<1>8. cid[clients[id]] = id
  BY <1>4 DEF PInv, CM!IdMatches
<1>9. QED
  BY <1>3, <1>6, <1>7, <1>8

(* Whoever gets an A1 reads the id of its own connection in it. *)
THEOREM A1TellsOwnId == Spec => ToldOwnId
<1>1. PInv /\ [Next]_pktVars =>
        [\A frame \in last'.frames :
           last'.packet.locKey = KeyA1 => ReadId(frame) = cid'[frame.to]]_pktVars
  BY ToldStep
<1>2. QED
  BY <1>1, PacketInvariant, PTL DEF Spec, ToldOwnId

LEMMA NamedStep ==
  ASSUME PInv, Next, NEW frame \in last'.frames,
         last'.how = "send", last'.packet.named # None
  PROVE  SenderIn(frame) = last'.packet.named
<1> DEFINE p == last'.packet
<1>1. last' # NoCall
  BY DEF NoCall
<1>2. ASSUME Answers(p), last'.frames = send(p)
      PROVE  SenderIn(frame) = p.named
  <2>1. frame = Frame(p, 1, cid[p.asker], 0) /\ p.named = 0
    BY <1>2, AnswerGoesTo DEF Answers
  <2>2. QED
    BY <2>1, HeaderNames
<1>3. ASSUME Keepable(p), Sends(p)
      PROVE  SenderIn(frame) = p.named
  <2>1. PICK place, id : frame = Frame(p, place, id, p.senderID)
    BY <1>3 DEF Sends
  <2>2. p.named = p.senderID
    BY <1>3 DEF Keepable
  <2> HIDE DEF p
  <2>3. QED
    BY <2>1, <2>2, HeaderNames
<1>4. \A id : ~Broadcasts(p, id)
  BY DEF Broadcasts
<1>5. QED
  BY <1>1, <1>2, <1>3, <1>4, WhatIsSent

(* What send and sendTo write names the sender the packet was given, if no broadcast *)
(* replaced it (ClientManager.cpp:82 and :99).                                       *)
THEOREM SenderIsNamed == Spec => NamedSender
<1>1. PInv /\ [Next]_pktVars =>
        [\A frame \in last'.frames :
           last'.how = "send" /\ last'.packet.named # None =>
             SenderIn(frame) = last'.packet.named]_pktVars
  BY NamedStep
<1>2. QED
  BY <1>1, PacketInvariant, PTL DEF Spec, NamedSender

LEMMA ExceptStep ==
  ASSUME PInv, Next, last'.how = "exceptSender", last'.packet.named # None
  PROVE  /\ Cardinality(last'.frames) = Cardinality(CM!Used \ {last'.packet.named})
         /\ { frame.to : frame \in last'.frames }
              = { clients[id] : id \in CM!Used \ {last'.packet.named} }
<1> DEFINE p == last'.packet
           who == CM!Used \ {p.named}
           at == [i \in who |-> Frame(p, i, i, i)]
<1>1. last'.how # "none" /\ last'.how # "send" /\ last'.how # "exceptList"
  OBVIOUS
<1>2. Keepable(p) /\ Broadcasts(p, p.senderID)
  BY <1>1, WhatIsSent DEF NoCall, Sends, Broadcasts
<1>3. last'.frames = { Frame(p, i, i, i) : i \in who }
  BY <1>2 DEF Keepable, Broadcasts, sendToAllExcept, others
<1> HIDE DEF p, who
<1>4. { frame.to : frame \in last'.frames } = { clients[id] : id \in who }
  <2>1. \A i \in who : Frame(p, i, i, i).to = clients[i]
    BY DEF Frame
  <2>2. \A frame \in last'.frames : \E i \in who : frame.to = clients[i]
    BY <1>3, <2>1
  <2>3. \A i \in who : \E frame \in last'.frames : frame.to = clients[i]
    BY <1>3, <2>1
  <2>4. QED
    BY <2>2, <2>3
<1>5. \A i \in who : at[i].place = i
  BY DEF Frame
<1>6. at \in [who -> last'.frames] /\ \A frame \in last'.frames : \E i \in who : frame = at[i]
  BY <1>3
<1> HIDE DEF at
<1>7. at \in Bijection(who, last'.frames)
  <2>1. \A i, j \in who : at[i] = at[j] => i = j
    BY <1>5
  <2>2. at \in Injection(who, last'.frames)
    BY <1>6, <2>1 DEF Injection, IsInjective
  <2>3. at \in Surjection(who, last'.frames)
    BY <1>6 DEF Surjection
  <2>4. QED
    BY <2>2, <2>3 DEF Bijection
<1>8. IsFiniteSet(who)
  BY UsedFinite, FS_RemoveElement DEF who
<1>9. Cardinality(last'.frames) = Cardinality(who)
  BY <1>7, <1>8, FS_Bijection DEF ExistsBijection
<1>10. QED
  BY <1>4, <1>9 DEF p, who

(* A first broadcast reaches every client but the sender, once. *)
THEOREM SenderLeftOut == Spec => ExceptSender
<1>1. PInv /\ [Next]_pktVars =>
        [last'.how = "exceptSender" /\ last'.packet.named # None =>
           /\ Cardinality(last'.frames) = Cardinality(CM!Used \ {last'.packet.named})
           /\ { frame.to : frame \in last'.frames }
                = { clients[id] : id \in CM!Used \ {last'.packet.named} }]_pktVars
  BY ExceptStep
<1>2. QED
  BY <1>1, PacketInvariant, PTL DEF Spec, ExceptSender

--------------------------------------------------------------------------------
(* binarySearchKey: a search that returns is right, for every vector of keys. *)

USE KeysAssumption, MaxKeysAssumption

KInv == SearchInv /\ FindsPosition

LEMMA InitKInv == SearchInit => KInv
<1> SUFFICES ASSUME SearchInit PROVE KInv
  OBVIOUS
<1>1. size \in Nat /\ f = 0 /\ l = -1 /\ index = 0 /\ ~done /\ ~found
  BY DEF SearchInit, USE_PKEYS_SIZE
<1>2. \A i \in 0 .. size - 1 : ~ (i < f) /\ ~ (i > l /\ entered)
  BY <1>1 DEF entered, USE_PKEYS_SIZE
<1>3. f \in 0 .. size /\ l \in -1 .. size - 1 /\ index \in 0 .. size
  BY <1>1
<1>4. found \in BOOLEAN /\ done \in BOOLEAN
  BY DEF SearchInit
<1>5. SearchInv
  BY <1>1, <1>2, <1>3, <1>4 DEF SearchInit, SearchInv
<1>6. QED
  BY <1>1, <1>5 DEF KInv, FindsPosition

(* The middle lies between the bounds. *)
LEMMA Middle ==
  ASSUME f \in Nat, l \in Int, l >= f
  PROVE  mid \in Int /\ f <= mid /\ mid <= l
  BY DEF mid

LEMMA StepKInv == KInv /\ [SearchNext]_vars => KInv'
<1> SUFFICES ASSUME KInv, [SearchNext]_vars PROVE KInv'
  OBVIOUS
<1> USE DEF KInv
<1>0. /\ size \in Nat /\ f \in 0 .. size /\ l \in -1 .. size - 1
      /\ \A i \in 0 .. size - 1 : pKeys[i] \in Int
      /\ key \in Int
  BY DEF SearchInv
<1>1. CASE UNCHANGED vars
  BY <1>1 DEF vars, SearchInv, FindsPosition, entered
<1>2. CASE WholeVector
  BY <1>0, <1>2 DEF WholeVector, SearchInv, FindsPosition, entered, USE_PKEYS_SIZE
<1>3. CASE Absent
  <2>1. entered /\ l < f /\ UNCHANGED <<pKeys, size, key, f, l>>
        /\ done' = TRUE /\ found' = FALSE /\ index' = f
    BY <1>3 DEF Absent
  <2>2. SearchInv'
    BY <1>0, <2>1 DEF SearchInv, entered
  <2>3. ASSUME NEW i \in 0 .. size - 1
        PROVE  IF i < f THEN pKeys[i] < key ELSE pKeys[i] > key
    BY <1>0, <2>1 DEF SearchInv
  <2>4. QED
    BY <2>1, <2>2, <2>3 DEF FindsPosition
<1>4. CASE UpperHalf
  <2>1. /\ entered /\ l >= f /\ pKeys[mid] < key /\ f' = mid + 1
        /\ UNCHANGED <<pKeys, size, key, l, found, index, done>>
    BY <1>4 DEF UpperHalf
  <2>2. mid \in 0 .. size - 1 /\ f <= mid /\ mid <= l
    BY <1>0, <2>1, Middle
  <2>3. \A i \in 0 .. size - 1 : i < mid + 1 => pKeys[i] < key
    BY <1>0, <2>1, <2>2 DEF SearchInv
  <2>4. SearchInv'
    BY <1>0, <2>1, <2>2, <2>3 DEF SearchInv, entered
  <2>5. QED
    BY <2>1, <2>4 DEF FindsPosition, entered
<1>5. CASE LowerHalf
  <2>1. /\ entered /\ l >= f /\ pKeys[mid] > key /\ l' = mid - 1
        /\ UNCHANGED <<pKeys, size, key, f, found, index, done>>
    BY <1>5 DEF LowerHalf
  <2>2. mid \in 0 .. size - 1 /\ f <= mid /\ mid <= l
    BY <1>0, <2>1, Middle
  <2>3. \A i \in 0 .. size - 1 : i > mid - 1 => pKeys[i] > key
    BY <1>0, <2>1, <2>2 DEF SearchInv
  <2>4. SearchInv'
    BY <1>0, <2>1, <2>2, <2>3 DEF SearchInv, entered
  <2>5. QED
    BY <2>1, <2>4 DEF FindsPosition, entered
<1>6. CASE Hit
  <2>1. /\ entered /\ l >= f /\ pKeys[mid] = key
        /\ done' = TRUE /\ found' = TRUE /\ index' = mid
        /\ UNCHANGED <<pKeys, size, key, f, l>>
    BY <1>6 DEF Hit
  <2>2. mid \in 0 .. size - 1
    BY <1>0, <2>1, Middle
  <2>3. SearchInv'
    BY <1>0, <2>1, <2>2 DEF SearchInv, entered
  <2>4. QED
    BY <1>0, <2>1, <2>2, <2>3 DEF FindsPosition
<1>7. QED
  BY <1>1, <1>2, <1>3, <1>4, <1>5, <1>6 DEF SearchNext

(* What a search rules out stays ruled out until it returns. *)
THEOREM SearchInvariant == SearchSpec => []SearchInv
  BY InitKInv, StepKInv, PTL DEF SearchSpec, KInv

(* binarySearchKey finds the key, or the place to insert it, if it returns. *)
THEOREM SearchCorrect == SearchSpec => []FindsPosition
  BY InitKInv, StepKInv, PTL DEF SearchSpec, KInv
================================================================================
