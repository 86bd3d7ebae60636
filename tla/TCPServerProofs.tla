----------------------------- MODULE TCPServerProofs -----------------------------
(***************************************************************************)
(* The server on its io thread, for every number of connections, of ids    *)
(* and of outstanding writes, whatever error modes the application sets.   *)
(***************************************************************************)
EXTENDS TCPServer, WellFoundedInduction, TLAPS

(* A socket that was not accepted yet has left no trace in the table. *)
Unaccepted ==
  \A c \in Conns : phase[c] = "none" => ~Registered(c) /\ cid[c] = 0

(***************************************************************************)
(* The inductive invariant.  SingleRead makes "the read that completed was *)
(* the only one" available to NoSilentClient and PendingRegistered,         *)
(* IdMatches says whom removeOwnId removes, and Unaccepted that addClient  *)
(* never registers a connection twice.                                     *)
(***************************************************************************)
IInv ==
  /\ TypeOK
  /\ IdMatches
  /\ Unaccepted
  /\ SingleRead
  /\ NoSilentClient
  /\ PendingRegistered

USE ConnsAssumption, MaxAssumption, ModesAssumption, WritesAssumption

--------------------------------------------------------------------------------
(* What a step does to the table. *)

(* The CHOOSE of aquireNextID is well defined: there is a least free id. *)
LEMMA NextID ==
  /\ CM!aquireNextID \in 1 .. MAX_CLIENTS
  /\ CM!aquireNextID \notin CM!Used
  /\ \A m \in 1 .. CM!aquireNextID - 1 : m \in CM!Used
<1> DEFINE Free == 1 .. MAX_CLIENTS \ CM!Used
<1>1. Free \subseteq Nat /\ Free # {}
  <2>1. MAX_CLIENTS \in Free
    BY MaxAssumption DEF CM!Used, CM!Ids
  <2>2. QED
    BY <2>1, MaxAssumption
<1>2. PICK n \in Free : \A m \in Free : ~ (<<m, n>> \in OpToRel(<, Nat))
  BY <1>1, NatLessThanWellFounded, WFMin
<1>3. \A m \in Free : ~ (m < n)
  BY <1>1, <1>2 DEF OpToRel
<1>4. n \in 1 .. MAX_CLIENTS /\ n \notin CM!Used /\ \A m \in 1 .. n - 1 : m \in CM!Used
  <2>1. ASSUME NEW m \in 1 .. n - 1 PROVE m \in CM!Used
    <3>1. m \in 1 .. MAX_CLIENTS /\ m < n
      BY MaxAssumption
    <3>2. QED
      BY <3>1, <1>3
  <2>2. QED
    BY <2>1
<1>5. QED
  BY <1>4 DEF CM!aquireNextID

LEMMA AddEffect ==
  ASSUME CM!TypeOK, NEW c \in Conns, CM!addClient(c)
  PROVE  \/ UNCHANGED <<clients, cid>> /\ CM!Used = CM!Ids
         \/ \E id \in CM!Ids :
              /\ clients[id] = None
              /\ clients' = [clients EXCEPT ![id] = c]
              /\ cid' = [cid EXCEPT ![c] = id]
<1> DEFINE id == CM!aquireNextID
<1>1. CASE id >= MAX_CLIENTS
  <2>1. \A m \in CM!Ids : m \in CM!Used
    BY <1>1, NextID, MaxAssumption DEF CM!Ids
  <2>2. UNCHANGED <<clients, cid>>
    BY <1>1, NextID, MaxAssumption DEF CM!addClient, CM!cmVars
  <2>3. QED
    BY <2>1, <2>2 DEF CM!Used
<1>2. CASE id < MAX_CLIENTS
  <2>1. id \in CM!Ids /\ clients[id] = None
    BY <1>2, NextID, MaxAssumption DEF CM!Ids, CM!Used
  <2>2. clients' = [clients EXCEPT ![id] = c] /\ cid' = [cid EXCEPT ![c] = id]
    BY <1>2, NextID, MaxAssumption DEF CM!addClient
  <2>3. QED
    BY <2>1, <2>2
<1>3. QED
  BY <1>1, <1>2, NextID, MaxAssumption

LEMMA RemoveEffect ==
  ASSUME CM!TypeOK, IdMatches, NEW c \in Conns, removeOwnId(c)
  PROVE  /\ cid' = cid
         /\ clients' = [i \in CM!Ids |-> IF i = cid[c] THEN None ELSE clients[i]]
         /\ misremoved' \in SUBSET (misremoved \cup Conns)
         /\ misremoved \subseteq misremoved'
         /\ cid[c] \in CM!Ids =>
              clients[cid[c]] \in {c, None} \cup misremoved'
         /\ \A d \in misremoved' \ misremoved :
              /\ d # c /\ d # None /\ cid[c] \in CM!Ids /\ clients[cid[c]] = d
  BY DEF removeOwnId, CM!removeClient, CM!getClient, CM!TypeOK

--------------------------------------------------------------------------------

LEMMA InitIInv == Init => IInv
<1> SUFFICES ASSUME Init PROVE IInv
  OBVIOUS
<1>1. \A c \in Conns : ~Registered(c)
  BY DEF Init, CM!Init, Registered, CM!Registered
<1>2. TypeOK
  BY DEF Init, CM!Init, TypeOK, CM!TypeOK, Phases, DEFAULT_ERROR_MODE
<1>3. IdMatches
  BY DEF Init, CM!Init, IdMatches, CM!IdMatches
<1>4. QED
  BY <1>1, <1>2, <1>3
     DEF IInv, Init, CM!Init, Unaccepted, SingleRead, NoSilentClient, PendingRegistered

(***************************************************************************)
(* The only handler that fills a slot.  Its connection was not in the      *)
(* table, so no two slots hold the same connection afterwards.             *)
(***************************************************************************)
LEMMA AcceptStep ==
  ASSUME IInv, NEW c \in Conns, AsyncAccept(c)
  PROVE  IInv'
<1> USE DEF IInv
<1>1. CM!addClient(c) /\ ~Registered(c) /\ phase[c] = "none"
  BY DEF AsyncAccept, Unaccepted
<1>2. /\ phase' = [phase EXCEPT ![c] = "ssl"]
      /\ errorMode' = [errorMode EXCEPT ![c] = DEFAULT_ERROR_MODE]
      /\ UNCHANGED <<accepting, io, reads, writes, gone, misremoved>>
  BY DEF AsyncAccept
<1>3. \/ UNCHANGED <<clients, cid>>
      \/ \E id \in CM!Ids :
           /\ clients[id] = None
           /\ clients' = [clients EXCEPT ![id] = c]
           /\ cid' = [cid EXCEPT ![c] = id]
  BY <1>1, AddEffect DEF TypeOK
<1>4. TypeOK'
  <2>1. CM!TypeOK'
    BY <1>3 DEF TypeOK, CM!TypeOK, CM!Ids
  <2>2. QED
    BY <1>2, <2>1 DEF TypeOK, Phases, DEFAULT_ERROR_MODE
<1>5. IdMatches'
  BY <1>1, <1>3 DEF TypeOK, IdMatches, CM!IdMatches, CM!TypeOK, Registered, CM!Registered
<1>6. \A d \in Conns : Registered(d)' => d = c \/ Registered(d)
  BY <1>3 DEF TypeOK, CM!TypeOK, Registered, CM!Registered
<1>7. Unaccepted'
  <2>1. \A d \in Conns : d # c => cid'[d] = cid[d] /\ phase'[d] = phase[d]
    BY <1>2, <1>3 DEF TypeOK, CM!TypeOK
  <2>2. QED
    BY <1>2, <1>6, <2>1 DEF Unaccepted, TypeOK
<1>8. SingleRead'
  BY <1>1, <1>2 DEF SingleRead, TypeOK
<1>9. NoSilentClient'
  BY <1>2, <1>6 DEF NoSilentClient, TypeOK
<1>10. PendingRegistered'
  <2>1. cid[c] = 0
    BY <1>1 DEF Unaccepted
  <2>2. ASSUME NEW d \in Conns, phase'[d] = "ssl" \/ reads'[d] > 0, cid'[d] # 0
        PROVE  clients'[cid'[d]] = d \/ d \in gone' \/ d \in misremoved'
    <3>1. CASE d = c
      BY <1>3, <2>1, <2>2, <3>1 DEF TypeOK, CM!TypeOK
    <3>2. CASE d # c
      <4>1. cid'[d] = cid[d] /\ cid[d] \in CM!Ids
        BY <1>3, <2>2, <3>2 DEF TypeOK, CM!TypeOK, CM!Ids
      <4>2. phase[d] = "ssl" \/ reads[d] > 0
        BY <1>2, <2>2, <3>2 DEF TypeOK
      <4>3. QED
        BY <1>2, <1>3, <3>2, <4>1, <4>2, <2>2 DEF PendingRegistered, TypeOK, CM!TypeOK, CM!Ids
    <3>3. QED
      BY <3>1, <3>2
  <2>3. QED
    BY <2>2 DEF PendingRegistered
<1>11. QED
  BY <1>4, <1>5, <1>7, <1>8, <1>9, <1>10

(***************************************************************************)
(* A handler that removes its own id and does not read on.  Whatever it    *)
(* removes was under its id: itself, which is then no longer read or whose *)
(* peer is gone, or another connection, which is then in misremoved.       *)
(***************************************************************************)
LEMMA RemoveStep ==
  ASSUME IInv, NEW c \in Conns, removeOwnId(c),
         UNCHANGED <<accepting, io, phase, errorMode, gone>>,
         writes' \in [Conns -> [WriteKinds -> 0 .. MaxWrites]],
         \/ reads[c] > 0 /\ reads' = completed(c)
         \/ c \in gone /\ reads' = reads
  PROVE  IInv'
<1> USE DEF IInv
<1>1. reads' \in [Conns -> Nat] /\ \A d \in Conns : d # c => reads'[d] = reads[d]
  BY DEF TypeOK, completed
<1>2. reads'[c] > 0 => c \in gone /\ reads' = reads
  BY DEF SingleRead, TypeOK, completed
<1>3. /\ cid' = cid
      /\ clients' = [i \in CM!Ids |-> IF i = cid[c] THEN None ELSE clients[i]]
      /\ misremoved' \in SUBSET (misremoved \cup Conns)
      /\ misremoved \subseteq misremoved'
      /\ cid[c] \in CM!Ids => clients[cid[c]] \in {c, None} \cup misremoved'
  BY RemoveEffect DEF TypeOK
<1>4. TypeOK'
  BY <1>1, <1>3 DEF TypeOK, CM!TypeOK
<1>5. IdMatches'
  BY <1>3 DEF TypeOK, CM!TypeOK, IdMatches, CM!IdMatches
<1>6. \A d \in Conns : Registered(d)' => Registered(d) /\ cid[d] # cid[c]
  BY <1>3 DEF TypeOK, CM!TypeOK, Registered, CM!Registered, IdMatches, CM!IdMatches
<1>7. Unaccepted'
  BY <1>3, <1>6 DEF Unaccepted
<1>8. SingleRead'
  BY <1>1, <1>2 DEF SingleRead, TypeOK, completed
<1>9. NoSilentClient'
  BY <1>1, <1>6 DEF NoSilentClient
<1>10. PendingRegistered'
  <2>1. ASSUME NEW d \in Conns, phase[d] = "ssl" \/ reads'[d] > 0, cid[d] # 0
        PROVE  clients'[cid[d]] = d \/ d \in gone \/ d \in misremoved'
    <3>1. CASE d = c
      <4>1. reads[c] > 0 => phase[c] # "ssl"
        BY DEF SingleRead, TypeOK
      <4>2. QED
        BY <1>2, <2>1, <3>1, <4>1
    <3>2. CASE d # c
      <4>1. cid[d] \in CM!Ids
        BY <2>1 DEF TypeOK, CM!TypeOK, CM!Ids
      <4>2. clients[cid[d]] = d \/ d \in gone \/ d \in misremoved
        BY <1>1, <2>1, <3>2 DEF PendingRegistered
      <4>3. QED
        BY <1>3, <3>2, <4>1, <4>2
    <3>3. QED
      BY <3>1, <3>2
  <2>2. QED
    BY <1>3, <2>1 DEF PendingRegistered
<1>11. QED
  BY <1>4, <1>5, <1>7, <1>8, <1>9, <1>10

(***************************************************************************)
(* A handler that leaves the table alone and reads on, or stops the thread.*)
(***************************************************************************)
LEMMA KeepStep ==
  ASSUME IInv, TypeOK',
         UNCHANGED <<clients, cid, misremoved>>, gone \subseteq gone',
         \A d \in Conns :
           /\ phase'[d] \in {"none", "ssl"} => phase'[d] = phase[d]
           /\ phase[d] \in {"http", "ws"} => phase'[d] \in {"http", "ws"}
           /\ phase'[d] \in {"http", "ws"} => phase[d] \in {"http", "ws"}
           /\ reads'[d] <= reads[d]
           /\ io' = "running" => reads'[d] = reads[d],
         io' = "running" => io = "running"
  PROVE  IInv'
<1> USE DEF IInv
<1>1. IdMatches'
  BY DEF IdMatches, CM!IdMatches
<1>2. Unaccepted'
  BY DEF Unaccepted, Registered, CM!Registered
<1>3. SingleRead'
  BY DEF SingleRead, TypeOK
<1>4. NoSilentClient'
  <2>1. ASSUME NEW d \in Conns, io' = "running", Registered(d)'
        PROVE  phase'[d] \in {"ssl", "sslFailed"} \/ reads'[d] = 1
    <3>1. io = "running" /\ Registered(d) /\ reads'[d] = reads[d]
      BY <2>1 DEF Registered, CM!Registered
    <3>2. phase[d] \in {"ssl", "sslFailed"} \/ reads[d] = 1
      BY <3>1 DEF NoSilentClient
    <3>3. CASE reads[d] = 1
      BY <3>1, <3>3
    <3>4. CASE phase[d] \in {"ssl", "sslFailed"}
      BY <3>4 DEF TypeOK, Phases
    <3>5. QED
      BY <3>2, <3>3, <3>4
  <2>2. QED
    BY <2>1 DEF NoSilentClient
<1>5. PendingRegistered'
  BY DEF PendingRegistered, TypeOK
<1>6. QED
  BY <1>1, <1>2, <1>3, <1>4, <1>5

(* The TLS handshake succeeded: the connection has one read outstanding. *)
LEMMA SSLHandshakeStep ==
  ASSUME IInv, NEW c \in Conns, AsyncSSLHandshake(c)
  PROVE  IInv'
<1> USE DEF IInv
<1>1. /\ phase[c] = "ssl"
      /\ phase' = [phase EXCEPT ![c] = "http"]
      /\ reads' = [reads EXCEPT ![c] = @ + 1]
      /\ UNCHANGED <<accepting, io, clients, cid, errorMode, writes, gone, misremoved>>
  BY DEF AsyncSSLHandshake, startRead
<1>2. reads[c] = 0 /\ reads'[c] = 1 /\ \A d \in Conns : d # c => reads'[d] = reads[d]
  <2>1. reads[c] \in Nat /\ reads[c] <= 1 /\ reads[c] # 1
    BY <1>1 DEF SingleRead, TypeOK
  <2>2. reads[c] = 0
    BY <2>1
  <2>3. reads'[c] = 1
    BY <1>1, <2>2 DEF TypeOK
  <2>4. QED
    BY <1>1, <2>2, <2>3 DEF TypeOK
<1>3. TypeOK'
  BY <1>1 DEF TypeOK, CM!TypeOK, Phases
<1>4. IdMatches' /\ Unaccepted'
  BY <1>1 DEF IdMatches, CM!IdMatches, Unaccepted, Registered, CM!Registered, TypeOK
<1>5. SingleRead'
  BY <1>1, <1>2 DEF SingleRead, TypeOK
<1>6. NoSilentClient'
  BY <1>1, <1>2 DEF NoSilentClient, Registered, CM!Registered, TypeOK
<1>7. PendingRegistered'
  <2>1. \A d \in Conns : phase'[d] = "ssl" \/ reads'[d] > 0 =>
                            phase[d] = "ssl" \/ reads[d] > 0
    BY <1>1, <1>2 DEF TypeOK
  <2>2. QED
    BY <1>1, <2>1 DEF PendingRegistered
<1>8. QED
  BY <1>3, <1>4, <1>5, <1>6, <1>7

--------------------------------------------------------------------------------
(* Types of the two counters that most handlers change. *)

LEMMA ReadAgain ==
  ASSUME TypeOK, NEW c \in Conns, reads[c] > 0, startRead(c, completed(c))
  PROVE  reads' = reads
  BY DEF TypeOK, startRead, completed

LEMMA CompletedType ==
  ASSUME TypeOK, NEW c \in Conns, reads[c] > 0
  PROVE  /\ completed(c) \in [Conns -> Nat]
         /\ \A d \in Conns : completed(c)[d] <= reads[d]
  BY DEF TypeOK, completed

LEMMA SendType ==
  ASSUME TypeOK, NEW c \in Conns, NEW kind \in WriteKinds, send(c, kind)
  PROVE  writes' \in [Conns -> [WriteKinds -> 0 .. MaxWrites]]
<1>1. writes[c][kind] \in 0 .. MaxWrites /\ writes[c][kind] < MaxWrites
  BY DEF TypeOK, send
<1>2. writes[c][kind] + 1 \in 0 .. MaxWrites
  BY <1>1
<1>3. QED
  BY <1>2 DEF TypeOK, send

LEMMA WriteDoneType ==
  ASSUME TypeOK, NEW c \in Conns, NEW kind \in WriteKinds, writeDone(c, kind)
  PROVE  writes' \in [Conns -> [WriteKinds -> 0 .. MaxWrites]]
<1>1. writes[c][kind] \in 0 .. MaxWrites /\ writes[c][kind] > 0
  BY DEF TypeOK, writeDone
<1>2. writes[c][kind] - 1 \in 0 .. MaxWrites
  BY <1>1
<1>3. QED
  BY <1>2 DEF TypeOK, writeDone

--------------------------------------------------------------------------------

(* A handler of asyncReceive that answers and reads on. *)
LEMMA ReadOnStep ==
  ASSUME IInv, NEW c \in Conns, reads[c] > 0, startRead(c, completed(c)),
         writes' \in [Conns -> [WriteKinds -> 0 .. MaxWrites]],
         phase' \in [Conns -> Phases],
         \A d \in Conns : \/ phase'[d] = phase[d]
                          \/ phase[d] = "http" /\ phase'[d] = "ws",
         UNCHANGED <<accepting, io, clients, cid, errorMode, gone, misremoved>>
  PROVE  IInv'
<1>1. reads' = reads
  BY ReadAgain DEF IInv
<1>2. TypeOK'
  BY <1>1 DEF IInv, TypeOK, CM!TypeOK
<1>3. QED
  BY <1>1, <1>2, KeepStep DEF IInv, TypeOK

(* A handler that ends the process. *)
LEMMA TerminateStep ==
  ASSUME IInv, terminate,
         writes' \in [Conns -> [WriteKinds -> 0 .. MaxWrites]],
         reads' \in [Conns -> Nat], \A d \in Conns : reads'[d] <= reads[d]
  PROVE  IInv'
<1>1. TypeOK'
  BY DEF IInv, TypeOK, CM!TypeOK, terminate
<1>2. QED
  BY <1>1, KeepStep DEF IInv, TypeOK, terminate

LEMMA ReceiveStep ==
  ASSUME IInv, NEW c \in Conns, AsyncReceive(c)
  PROVE  IInv'
<1>0. TypeOK /\ writes \in [Conns -> [WriteKinds -> 0 .. MaxWrites]]
  BY DEF IInv, TypeOK
<1>1. CASE ReadReset(c) \/ ReadErrorReturn(c) \/ ReadClose(c)
  BY <1>0, <1>1, RemoveStep DEF ReadReset, ReadErrorReturn, ReadClose
<1>2. CASE ReadErrorThrow(c) \/ ReadCrashes(c)
  BY <1>0, <1>2, TerminateStep, CompletedType DEF ReadErrorThrow, ReadCrashes
<1>3. CASE ReadErrorRecall(c)
  BY <1>0, <1>3, ReadOnStep DEF ReadErrorRecall, TypeOK
<1>4. CASE ReadErrorContinue(c)
  <2>1. writes' \in [Conns -> [WriteKinds -> 0 .. MaxWrites]]
    BY <1>0, <1>4, SendType DEF ReadErrorContinue, WriteKinds
  <2>2. QED
    BY <1>0, <1>4, <2>1, ReadOnStep DEF ReadErrorContinue, TypeOK
<1>5. ASSUME NEW accepted \in BOOLEAN, ReadHandshake(c, accepted)
      PROVE  IInv'
  <2>1. writes' \in [Conns -> [WriteKinds -> 0 .. MaxWrites]]
    BY <1>0, <1>5, SendType DEF ReadHandshake, WriteKinds
  <2>2. phase' \in [Conns -> Phases]
    BY <1>0, <1>5 DEF ReadHandshake, TypeOK, Phases
  <2>3. \A d \in Conns : \/ phase'[d] = phase[d]
                         \/ phase[d] = "http" /\ phase'[d] = "ws"
    BY <1>0, <1>5 DEF ReadHandshake, TypeOK
  <2>4. QED
    BY <1>5, <2>1, <2>2, <2>3, ReadOnStep DEF ReadHandshake
<1>6. CASE ReadA0(c)
  <2>1. CM!getClient(cid[c]) \in Conns \cup {None}
    BY <1>0 DEF TypeOK, CM!TypeOK, CM!getClient
  <2>2. writes' \in [Conns -> [WriteKinds -> 0 .. MaxWrites]]
    BY <1>0, <1>6, <2>1, SendType DEF ReadA0, WriteKinds
  <2>3. QED
    BY <1>0, <1>6, <2>2, ReadOnStep DEF ReadA0, TypeOK
<1>7. CASE ReadAppKey(c)
  <2>1. ASSUME NEW d \in Conns, Registered(d)
        PROVE  [writes[d] EXCEPT !["frame"] = @ + 1] \in [WriteKinds -> 0 .. MaxWrites]
    <3>1. /\ writes[d]["frame"] \in 0 .. MaxWrites
          /\ writes[d]["frame"] < MaxWrites
      BY <1>0, <1>7, <2>1 DEF ReadAppKey, WriteKinds
    <3>2. writes[d]["frame"] + 1 \in 0 .. MaxWrites
      BY <3>1
    <3>3. QED
      BY <1>0, <3>2
  <2>2. writes' \in [Conns -> [WriteKinds -> 0 .. MaxWrites]]
    BY <1>0, <1>7, <2>1 DEF ReadAppKey
  <2>3. QED
    BY <1>0, <1>7, <2>2, ReadOnStep DEF ReadAppKey, TypeOK
<1>8. QED
  BY <1>1, <1>2, <1>3, <1>4, <1>5, <1>6, <1>7 DEF AsyncReceive, ReadError

LEMMA SendStep ==
  ASSUME IInv, NEW c \in Conns, NEW kind \in WriteKinds,
         AsyncSend(c, kind) \/ AsyncSendReset(c, kind) \/ AsyncSendThrow(c, kind)
  PROVE  IInv'
<1>1. writes' \in [Conns -> [WriteKinds -> 0 .. MaxWrites]]
  BY WriteDoneType DEF IInv, AsyncSend, AsyncSendReset, AsyncSendThrow
<1>2. CASE AsyncSend(c, kind)
  <2>1. TypeOK'
    BY <1>1, <1>2 DEF IInv, TypeOK, CM!TypeOK, AsyncSend
  <2>2. QED
    BY <1>2, <2>1, KeepStep DEF IInv, TypeOK, AsyncSend
<1>3. CASE AsyncSendReset(c, kind)
  BY <1>1, <1>3, RemoveStep DEF AsyncSendReset
<1>4. CASE AsyncSendThrow(c, kind)
  BY <1>1, <1>4, TerminateStep DEF IInv, TypeOK, AsyncSendThrow
<1>5. QED
  BY <1>2, <1>3, <1>4

LEMMA EnvironmentStep ==
  ASSUME IInv,
         \/ AsyncAcceptError
         \/ \E c \in Conns :
              \/ AsyncSSLHandshakeError(c)
              \/ PeerGone(c)
              \/ \E mode \in AppModes : SetErrorMode(c, mode)
  PROVE  IInv'
<1>1. CASE AsyncAcceptError
  <2>1. TypeOK'
    BY <1>1 DEF IInv, TypeOK, CM!TypeOK, AsyncAcceptError
  <2>2. QED
    BY <1>1, <2>1, KeepStep DEF IInv, TypeOK, AsyncAcceptError
<1>2. ASSUME NEW c \in Conns, AsyncSSLHandshakeError(c) PROVE IInv'
  <2>1. TypeOK'
    BY <1>2 DEF IInv, TypeOK, CM!TypeOK, AsyncSSLHandshakeError, Phases
  <2>2. \A d \in Conns : \/ phase'[d] = phase[d]
                         \/ phase[d] = "ssl" /\ phase'[d] = "sslFailed"
    BY <1>2 DEF IInv, TypeOK, AsyncSSLHandshakeError
  <2>3. QED
    BY <1>2, <2>1, <2>2, KeepStep DEF IInv, TypeOK, AsyncSSLHandshakeError
<1>3. ASSUME NEW c \in Conns, PeerGone(c) PROVE IInv'
  <2>1. TypeOK'
    BY <1>3 DEF IInv, TypeOK, CM!TypeOK, PeerGone
  <2>2. QED
    BY <1>3, <2>1, KeepStep DEF IInv, TypeOK, PeerGone
<1>4. ASSUME NEW c \in Conns, NEW mode \in AppModes, SetErrorMode(c, mode)
      PROVE  IInv'
  <2>1. TypeOK'
    BY <1>4 DEF IInv, TypeOK, CM!TypeOK, SetErrorMode
  <2>2. QED
    BY <1>4, <2>1, KeepStep DEF IInv, TypeOK, SetErrorMode
<1>5. QED
  BY <1>1, <1>2, <1>3, <1>4

LEMMA NextIInv == IInv /\ [Next]_vars => IInv'
<1> SUFFICES ASSUME IInv, [Next]_vars PROVE IInv'
  OBVIOUS
<1>1. CASE UNCHANGED vars
  <2>1. TypeOK'
    BY <1>1 DEF IInv, TypeOK, CM!TypeOK, vars
  <2>2. QED
    BY <1>1, <2>1, KeepStep DEF IInv, TypeOK, vars
<1>2. CASE Next
  BY <1>2, AcceptStep, SSLHandshakeStep, ReceiveStep, SendStep, EnvironmentStep DEF Next
<1>3. QED
  BY <1>1, <1>2

LEMMA Inductive == Spec => []IInv
  BY InitIInv, NextIInv, PTL DEF Spec

(* Every variable keeps its type, whatever the peers send. *)
THEOREM TypeCorrect == Spec => []TypeOK
  BY Inductive, PTL DEF IInv

(* A client's key is the id its connection addresses the table with. *)
THEOREM KeysMatch == Spec => []IdMatches
  BY Inductive, PTL DEF IInv

(* No connection ever has two reads outstanding, nor one before TLS is up. *)
THEOREM OneReadEach == Spec => []SingleRead
  BY Inductive, PTL DEF IInv

(* Only a failed TLS handshake leaves a client nobody listens to. *)
THEOREM NoClientForgotten == Spec => []NoSilentClient
  BY Inductive, PTL DEF IInv

(* A connection that still waits for its peer is in the table under its id, *)
(* unless its peer is gone or another connection removed it.                *)
THEOREM PendingAreClients == Spec => []PendingRegistered
  BY Inductive, PTL DEF IInv

--------------------------------------------------------------------------------
(* Refinement: the handlers only add and remove single clients. *)

(* The actions that touch the table, told apart from all others. *)
LEMMA TableSteps ==
  ASSUME IInv, [Next]_vars
  PROVE  \/ UNCHANGED <<clients, cid, misremoved>>
         \/ \E c \in Conns : AsyncAccept(c)
         \/ \E c \in Conns :
              /\ removeOwnId(c)
              /\ reads[c] > 0 \/ \E kind \in WriteKinds : writes[c][kind] > 0
              /\ reads[c] > 0 \/ c \in gone
              /\ phase' = phase
<1>1. CASE UNCHANGED vars
  BY <1>1 DEF vars
<1>2. CASE AsyncAcceptError
  BY <1>2 DEF AsyncAcceptError
<1>3. ASSUME NEW c \in Conns, AsyncReceive(c)
      PROVE  \/ UNCHANGED <<clients, cid, misremoved>>
             \/ removeOwnId(c) /\ reads[c] > 0 /\ phase' = phase
  BY <1>3 DEF AsyncReceive, ReadError, ReadReset, ReadErrorThrow, ReadErrorReturn, ReadErrorRecall,
              ReadErrorContinue, ReadHandshake, ReadA0, ReadAppKey, ReadClose,
              ReadCrashes, terminate
<1>4. ASSUME NEW c \in Conns, NEW kind \in WriteKinds,
             AsyncSend(c, kind) \/ AsyncSendReset(c, kind) \/ AsyncSendThrow(c, kind)
      PROVE  \/ UNCHANGED <<clients, cid, misremoved>>
             \/ removeOwnId(c) /\ writes[c][kind] > 0 /\ c \in gone /\ phase' = phase
  BY <1>4 DEF AsyncSend, AsyncSendReset, AsyncSendThrow, writeDone, terminate
<1>5. ASSUME NEW c \in Conns,
             \/ AsyncSSLHandshake(c)
             \/ AsyncSSLHandshakeError(c)
             \/ PeerGone(c)
             \/ \E mode \in AppModes : SetErrorMode(c, mode)
      PROVE  UNCHANGED <<clients, cid, misremoved>>
  BY <1>5 DEF AsyncSSLHandshake, AsyncSSLHandshakeError, PeerGone, SetErrorMode
<1>6. QED
  BY <1>1, <1>2, <1>3, <1>4, <1>5 DEF Next

LEMMA TableStep ==
  ASSUME IInv, [Next]_vars
  PROVE  [CM!Next]_<<clients, cid>>
<1>1. ASSUME NEW c \in Conns, AsyncAccept(c)
      PROVE  CM!Next
  BY <1>1 DEF IInv, Unaccepted, AsyncAccept, CM!Next, CM!AddClient, Registered
<1>2. ASSUME NEW c \in Conns, removeOwnId(c)
      PROVE  [CM!Next]_<<clients, cid>>
  <2>1. CASE cid[c] \in CM!Ids
    BY <1>2, <2>1 DEF removeOwnId, CM!Next, CM!RemoveClient
  <2>2. CASE cid[c] \notin CM!Ids
    BY <1>2, <2>2 DEF IInv, TypeOK, CM!TypeOK, removeOwnId, CM!removeClient
  <2>3. QED
    BY <2>1, <2>2
<1>3. QED
  BY <1>1, <1>2, TableSteps

(* The whole server implements the abstract client table. *)
THEOREM ImplementsTable == Spec => TableSpec
<1>1. Init => CM!Init
  BY DEF Init
<1>2. IInv /\ [Next]_vars => [CM!Next]_(CM!cmVars)
  BY TableStep DEF CM!cmVars
<1>3. QED
  BY <1>1, <1>2, Inductive, PTL DEF Spec, TableSpec, CM!Spec

--------------------------------------------------------------------------------
(* Who can remove whom. *)

LEMMA MisremovalStep ==
  ASSUME IInv, [Next]_vars, NEW d \in misremoved' \ misremoved
  PROVE  \E c \in Conns :
           /\ StaleHolder(c, d)
           /\ reads[c] > 0 \/ \E kind \in WriteKinds : writes[c][kind] > 0
<1>1. PICK c \in Conns :
        /\ removeOwnId(c)
        /\ reads[c] > 0 \/ \E kind \in WriteKinds : writes[c][kind] > 0
        /\ reads[c] > 0 \/ c \in gone
  BY TableSteps DEF AsyncAccept
<1>2. d # c /\ d # None /\ cid[c] \in CM!Ids /\ clients[cid[c]] = d
  BY <1>1, RemoveEffect DEF IInv, TypeOK
<1>3. cid[d] = cid[c]
  BY <1>2 DEF IInv, IdMatches, CM!IdMatches
<1>4. ~Registered(c)
  BY <1>2 DEF IInv, IdMatches, CM!IdMatches, TypeOK, CM!TypeOK, Registered, CM!Registered
<1>5. c \in gone \cup misremoved
  <2>1. cid[c] # 0
    BY <1>2 DEF CM!Ids
  <2>2. QED
    BY <1>1, <1>2, <2>1 DEF IInv, PendingRegistered
<1>6. QED
  BY <1>1, <1>2, <1>3, <1>4, <1>5 DEF StaleHolder

(* A client is removed by another one's handler only through a reissued id. *)
THEOREM OnlyStaleRemoval == Spec => MisremovalCause
<1>1. IInv /\ [Next]_vars =>
        [\A d \in misremoved' \ misremoved :
           \E c \in Conns :
             /\ StaleHolder(c, d)
             /\ reads[c] > 0 \/ \E kind \in WriteKinds : writes[c][kind] > 0]_vars
  BY MisremovalStep
<1>2. QED
  BY <1>1, Inductive, PTL DEF Spec, MisremovalCause

--------------------------------------------------------------------------------
(* Who is left without an id. *)

LEMMA RefusalStep ==
  ASSUME IInv, [Next]_vars, NEW c \in Conns, phase[c] = "none", phase'[c] # "none"
  PROVE  Registered(c)' \/ CM!Used = CM!Ids
<1>1. ASSUME NEW d \in Conns, AsyncAccept(d)
      PROVE  Registered(c)' \/ CM!Used = CM!Ids
  <2>1. d = c /\ CM!addClient(c)
    BY <1>1 DEF AsyncAccept, IInv, TypeOK
  <2>2. QED
    BY <2>1, AddEffect DEF IInv, TypeOK, CM!TypeOK, Registered, CM!Registered
<1>2. ASSUME NEW d \in Conns, AsyncReceive(d)
      PROVE  phase'[c] = phase[c]
  BY <1>2 DEF AsyncReceive, ReadError, ReadReset, ReadErrorThrow, ReadErrorReturn, ReadErrorRecall,
              ReadErrorContinue, ReadHandshake, ReadA0, ReadAppKey, ReadClose,
              ReadCrashes, terminate, IInv, TypeOK
<1>3. ASSUME NEW d \in Conns, NEW kind \in WriteKinds,
             AsyncSend(d, kind) \/ AsyncSendReset(d, kind) \/ AsyncSendThrow(d, kind)
      PROVE  phase'[c] = phase[c]
  BY <1>3 DEF AsyncSend, AsyncSendReset, AsyncSendThrow, terminate
<1>4. ASSUME NEW d \in Conns,
             \/ AsyncSSLHandshake(d)
             \/ AsyncSSLHandshakeError(d)
             \/ PeerGone(d)
             \/ \E mode \in AppModes : SetErrorMode(d, mode)
      PROVE  phase'[c] = phase[c]
  BY <1>4 DEF AsyncSSLHandshake, AsyncSSLHandshakeError, PeerGone, SetErrorMode,
              IInv, TypeOK
<1>5. AsyncAcceptError \/ UNCHANGED vars => phase' = phase
  BY DEF AsyncAcceptError, vars
<1>6. QED
  BY <1>1, <1>2, <1>3, <1>4, <1>5 DEF Next

(* An accepted connection gets no id only when every id is in use. *)
THEOREM RefusalMeansFull == Spec => RefusedOnlyWhenFull
<1>1. IInv /\ [Next]_vars =>
        [\A c \in Conns :
           phase[c] = "none" /\ phase'[c] # "none" =>
             Registered(c)' \/ CM!Used = CM!Ids]_vars
  BY RefusalStep
<1>2. QED
  BY <1>1, Inductive, PTL DEF Spec, RefusedOnlyWhenFull

--------------------------------------------------------------------------------
(* Who is written to. *)

LEMMA AnswerStep ==
  ASSUME IInv, NEW c \in Conns, ReadA0(c), NEW d \in Conns,
         writes'[d]["frame"] > writes[d]["frame"]
  PROVE  /\ phase[c] = "ws" /\ reads[c] = 1
         /\ c = d \/ StaleHolder(c, d)
<1>0. /\ TypeOK /\ IdMatches /\ SingleRead /\ PendingRegistered
      /\ writes \in [Conns -> [WriteKinds -> 0 .. MaxWrites]]
  BY DEF IInv, TypeOK
<1>1. phase[c] = "ws" /\ reads[c] = 1
  BY <1>0 DEF ReadA0, SingleRead, TypeOK
<1>2. ASSUME CM!getClient(cid[c]) # d
      PROVE  FALSE
  BY <1>0, <1>2 DEF ReadA0, send, WriteKinds
<1>3. cid[c] \in CM!Ids /\ clients[cid[c]] = d
  BY <1>2, ConnsAssumption DEF CM!getClient
<1>4. ASSUME c # d
      PROVE  StaleHolder(c, d)
  <2>1. cid[d] = cid[c]
    BY <1>0, <1>3 DEF IdMatches, CM!IdMatches
  <2>2. ~Registered(c)
    BY <1>0, <1>3, <1>4 DEF IdMatches, CM!IdMatches, TypeOK, CM!TypeOK, Registered, CM!Registered
  <2>3. cid[c] # 0
    BY <1>3 DEF CM!Ids
  <2>4. c \in gone \cup misremoved
    BY <1>0, <1>1, <1>3, <1>4, <2>3 DEF PendingRegistered
  <2>5. QED
    BY <1>4, <2>1, <2>2, <2>4 DEF StaleHolder
<1>5. QED
  BY <1>1, <1>4

(* No other handler writes frames. *)
LEMMA FrameStep ==
  ASSUME IInv, [Next]_vars, NEW d \in Conns, writes'[d]["frame"] > writes[d]["frame"]
  PROVE  \E c \in Conns : ReadA0(c) \/ ReadAppKey(c)
<1>0. writes \in [Conns -> [WriteKinds -> 0 .. MaxWrites]]
  BY DEF IInv, TypeOK
<1>1. ASSUME NEW c \in Conns, AsyncReceive(c)
      PROVE  ReadA0(c) \/ ReadAppKey(c)
  <2>1. ASSUME NEW accepted \in BOOLEAN, ReadHandshake(c, accepted)
        PROVE  FALSE
    BY <1>0, <2>1 DEF ReadHandshake, send, WriteKinds
  <2>2. ~ReadErrorContinue(c)
    BY <1>0 DEF ReadErrorContinue, send, WriteKinds
  <2>3. writes' = writes => FALSE
    BY <1>0 DEF WriteKinds
  <2>4. QED
    BY <1>1, <2>1, <2>2, <2>3
       DEF AsyncReceive, ReadError, ReadReset, ReadErrorThrow, ReadErrorReturn,
           ReadErrorRecall, ReadClose, ReadCrashes
<1>2. ASSUME NEW c \in Conns, NEW kind \in WriteKinds,
             AsyncSend(c, kind) \/ AsyncSendReset(c, kind) \/ AsyncSendThrow(c, kind)
      PROVE  FALSE
  <2>1. writeDone(c, kind)
    BY <1>2 DEF AsyncSend, AsyncSendReset, AsyncSendThrow
  <2>2. QED
    BY <1>0, <2>1 DEF writeDone, WriteKinds
<1>3. writes' = writes => FALSE
  BY <1>0 DEF WriteKinds
<1>4. QED
  BY <1>1, <1>2, <1>3
     DEF Next, AsyncAcceptError, AsyncAccept, AsyncSSLHandshake, AsyncSSLHandshakeError,
         PeerGone, SetErrorMode, vars

(***************************************************************************)
(* A frame goes to an upgraded connection that asked for it, to whoever got *)
(* the id of one that did, or to all clients.                               *)
(***************************************************************************)
THEOREM FramesToUpgraded == Spec => FrameAfterUpgrade
<1>1. ASSUME IInv, [Next]_vars, NEW d \in Conns, writes'[d]["frame"] > writes[d]["frame"]
      PROVE  \/ phase[d] = "ws" /\ reads[d] = 1
             \/ \E c \in Conns : StaleHolder(c, d) /\ phase[c] = "ws" /\ reads[c] = 1
             \/ Registered(d) /\ Broadcast
  <2>1. PICK c \in Conns : ReadA0(c) \/ ReadAppKey(c)
    BY <1>1, FrameStep
  <2>2. CASE ReadA0(c)
    BY <1>1, <2>2, AnswerStep
  <2>3. CASE ReadAppKey(c)
    <3>1. phase[c] = "ws" /\ reads[c] = 1 /\ AppKeys
      BY <1>1, <2>3 DEF ReadAppKey, IInv, SingleRead, TypeOK
    <3>2. /\ writes \in [Conns -> [WriteKinds -> 0 .. MaxWrites]]
          /\ writes' = [e \in Conns |->
                          IF Registered(e) THEN [writes[e] EXCEPT !["frame"] = @ + 1]
                                           ELSE writes[e]]
      BY <1>1, <2>3 DEF ReadAppKey, IInv, TypeOK
    <3>3. \A e \in Conns : Registered(e) => writes'[e]["frame"] = writes[e]["frame"] + 1
      BY <3>2 DEF WriteKinds
    <3>4. Registered(d)
      BY <1>1, <3>2 DEF WriteKinds
    <3>5. QED
      BY <3>1, <3>3, <3>4 DEF Broadcast
  <2>4. QED
    BY <2>1, <2>2, <2>3
<1>2. IInv /\ [Next]_vars =>
        [\A d \in Conns :
           writes'[d]["frame"] > writes[d]["frame"] =>
             \/ phase[d] = "ws" /\ reads[d] = 1
             \/ \E c \in Conns : StaleHolder(c, d) /\ phase[c] = "ws" /\ reads[c] = 1
             \/ Registered(d) /\ Broadcast]_vars
  BY <1>1
<1>3. QED
  BY <1>2, Inductive, PTL DEF Spec, FrameAfterUpgrade
================================================================================
