------------------------------- MODULE TCPServer -------------------------------
(***************************************************************************)
(* The server as its io thread runs it: TCPAcceptor, every TCPConnection   *)
(* and the client table, from the accepted socket to the removed client.   *)
(*                                                                         *)
(* Server::asyncInitServer runs the io_service on one thread, so a handler *)
(* is one step: it starts when its asynchronous operation completes, does  *)
(* everything the code does and returns, usually leaving new operations    *)
(* behind.  What is interleaved are the completions.  An outstanding       *)
(* operation holds a shared_ptr to its connection, which is why a          *)
(* connection that left the table may still run handlers.                  *)
(*                                                                         *)
(* Byte contents are abstracted to the outcomes the handlers tell apart;   *)
(* the parsers that decide them have modules of their own.  A frame that   *)
(* is ignored (incomplete, ping, text, an unregistered key) only re-arms   *)
(* the read and is a stuttering step here.                                 *)
(***************************************************************************)
EXTENDS Integers, FiniteSets

CONSTANTS
  Conns,        \* sockets that may be accepted during a run
  None,         \* nullptr
  MAX_CLIENTS,  \* size of the id space, see ClientManager
  AppModes,     \* error modes the application may pass to setErrorMode
  AppKeys,      \* whether the application registered a broadcasting key
  MaxWrites     \* bound: outstanding writes of one kind per connection

ASSUME ConnsAssumption  == None \notin Conns
ASSUME MaxAssumption    == MAX_CLIENTS \in Nat \ {0}
ASSUME ModesAssumption  == AppModes \subseteq 0 .. 3
ASSUME KeysAssumption   == AppKeys \in BOOLEAN
ASSUME WritesAssumption == MaxWrites \in Nat \ {0}

VARIABLES
  accepting,    \* an async_accept is outstanding
  io,           \* "running", or "terminated" with the process by a handler
  clients, cid, \* the client table
  phase,        \* how far the connection got: see Phases
  errorMode,    \* TCPConnection::errorMode
  reads,        \* outstanding async_read_some operations
  writes,       \* outstanding writes, HTTP replies and packet frames apart
  gone,         \* connections whose peer left or broke the TLS session
  misremoved    \* history: clients removed by another connection's handler

vars == <<accepting, io, clients, cid, phase, errorMode, reads, writes, gone,
          misremoved>>

CM == INSTANCE ClientManager WITH clients <- clients, cid <- cid

(***************************************************************************)
(* "ssl": the async_handshake is outstanding.  "sslFailed": its handler    *)
(* reported an error and returned.  "http" and "ws": reading, with         *)
(* handshakeComplete false and true.                                       *)
(***************************************************************************)
Phases == {"none", "ssl", "sslFailed", "http", "ws"}

WriteKinds == {"reply", "frame"}

THROW_ON_ERROR     == 0
RETURN_ON_ERROR    == 1
RECALL_ON_ERROR    == 2
CONTINUE_ON_ERROR  == 3
DEFAULT_ERROR_MODE == 1

Registered(c) == CM!Registered(c)

--------------------------------------------------------------------------------
(* What the handlers are made of. *)

(* The read operation that completed is no longer outstanding. *)
completed(c) == [reads EXCEPT ![c] = @ - 1]

startRead(c, outstanding) == reads' = [outstanding EXCEPT ![c] = @ + 1]

send(c, kind) ==
  /\ writes[c][kind] < MaxWrites
  /\ writes' = [writes EXCEPT ![c][kind] = @ + 1]

(* pm->getClientManager()->removeClient(cID): by id, whoever holds it now. *)
removeOwnId(c) ==
  /\ CM!removeClient(cid[c])
  /\ misremoved' = misremoved \cup ({CM!getClient(cid[c])} \ {c, None})

(* An exception leaves io_service::run and the thread's function: the      *)
(* process ends, as it does on a stack overflow or a wild access.          *)
terminate ==
  /\ io' = "terminated"
  /\ UNCHANGED <<accepting, clients, cid, phase, errorMode, gone, misremoved>>

--------------------------------------------------------------------------------
(* TCPAcceptor *)

(* Fault: reading starts along with the TLS handshake. *)
FaultReadsAtAccept(c) ==
  /\ io = "running" /\ accepting
  /\ phase[c] = "none"
  /\ phase' = [phase EXCEPT ![c] = "ssl"]
  /\ errorMode' = [errorMode EXCEPT ![c] = DEFAULT_ERROR_MODE]
  /\ startRead(c, reads)
  /\ CM!addClient(c)
  /\ UNCHANGED <<accepting, io, writes, gone, misremoved>>

(* Fault: with a full table, the new client takes the place of the first one. *)
FaultEvicts(c) ==
  /\ io = "running" /\ accepting
  /\ phase[c] = "none"
  /\ phase' = [phase EXCEPT ![c] = "ssl"]
  /\ errorMode' = [errorMode EXCEPT ![c] = DEFAULT_ERROR_MODE]
  /\ IF CM!Used # CM!Ids
       THEN CM!addClient(c)
       ELSE clients' = [clients EXCEPT ![1] = c] /\ cid' = [cid EXCEPT ![c] = 1]
  /\ UNCHANGED <<accepting, io, reads, writes, gone, misremoved>>

(* The connection starts its handshake first and gets its id second. *)
AsyncAccept(c) ==
  /\ io = "running" /\ accepting
  /\ phase[c] = "none"
  /\ phase' = [phase EXCEPT ![c] = "ssl"]
  /\ errorMode' = [errorMode EXCEPT ![c] = DEFAULT_ERROR_MODE]
  /\ CM!addClient(c)
  /\ UNCHANGED <<accepting, io, reads, writes, gone, misremoved>>

(* The acceptor's mode is never changed from RETURN_ON_ERROR: it stops. *)
AsyncAcceptError ==
  /\ io = "running" /\ accepting
  /\ accepting' = FALSE
  /\ UNCHANGED <<io, clients, cid, phase, errorMode, reads, writes, gone, misremoved>>

--------------------------------------------------------------------------------
(* TCPConnection: the TLS handshake *)

AsyncSSLHandshake(c) ==
  /\ io = "running"
  /\ phase[c] = "ssl"
  /\ phase' = [phase EXCEPT ![c] = "http"]
  /\ startRead(c, reads)
  /\ UNCHANGED <<accepting, io, clients, cid, errorMode, writes, gone, misremoved>>

(* The error is printed; the client stays in the table. *)
AsyncSSLHandshakeError(c) ==
  /\ io = "running"
  /\ phase[c] = "ssl" /\ c \in gone
  /\ phase' = [phase EXCEPT ![c] = "sslFailed"]
  /\ UNCHANGED <<accepting, io, clients, cid, errorMode, reads, writes, gone, misremoved>>

--------------------------------------------------------------------------------
(* TCPConnection: asyncReceive *)

ReadReset(c) ==
  /\ io = "running"
  /\ reads[c] > 0 /\ c \in gone
  /\ removeOwnId(c)
  /\ reads' = completed(c)
  /\ UNCHANGED <<accepting, io, phase, errorMode, writes, gone>>

ReadErrorThrow(c) ==
  /\ io = "running"
  /\ reads[c] > 0 /\ c \in gone
  /\ errorMode[c] = THROW_ON_ERROR
  /\ terminate
  /\ reads' = completed(c)
  /\ UNCHANGED writes

(* Fault: the handler returns without removing the client. *)
FaultKeepsClient(c) ==
  /\ io = "running"
  /\ reads[c] > 0 /\ c \in gone
  /\ errorMode[c] = RETURN_ON_ERROR
  /\ reads' = completed(c)
  /\ UNCHANGED <<accepting, io, clients, cid, phase, errorMode, writes, gone, misremoved>>

ReadErrorReturn(c) ==
  /\ io = "running"
  /\ reads[c] > 0 /\ c \in gone
  /\ errorMode[c] = RETURN_ON_ERROR
  /\ removeOwnId(c)
  /\ reads' = completed(c)
  /\ UNCHANGED <<accepting, io, phase, errorMode, writes, gone>>

(* Fault: a return without startRead. *)
FaultNoRecall(c) ==
  /\ io = "running"
  /\ reads[c] > 0 /\ c \in gone
  /\ errorMode[c] = RECALL_ON_ERROR
  /\ reads' = completed(c)
  /\ UNCHANGED <<accepting, io, clients, cid, phase, errorMode, writes, gone, misremoved>>

ReadErrorRecall(c) ==
  /\ io = "running"
  /\ reads[c] > 0 /\ c \in gone
  /\ errorMode[c] = RECALL_ON_ERROR
  /\ startRead(c, completed(c))
  /\ UNCHANGED <<accepting, io, clients, cid, phase, errorMode, writes, gone, misremoved>>

(***************************************************************************)
(* CONTINUE_ON_ERROR matches no case: the handler goes on with nBytes = 0, *)
(* which both managers take for the whole, zero filled, buffer.  As a      *)
(* frame that is an empty continuation frame, which is reported and        *)
(* ignored; as a handshake it is a bad request, which is answered.         *)
(***************************************************************************)
ReadErrorContinue(c) ==
  /\ io = "running"
  /\ reads[c] > 0 /\ c \in gone
  /\ errorMode[c] = CONTINUE_ON_ERROR
  /\ IF phase[c] = "ws" THEN UNCHANGED writes ELSE send(c, "reply")
  /\ startRead(c, completed(c))
  /\ UNCHANGED <<accepting, io, clients, cid, phase, errorMode, gone, misremoved>>

(* parse_handshake answered 101, or 400 and the connection keeps waiting. *)
ReadHandshake(c, accepted) ==
  /\ io = "running"
  /\ reads[c] > 0 /\ phase[c] = "http"
  /\ phase' = [phase EXCEPT ![c] = IF accepted THEN "ws" ELSE "http"]
  /\ send(c, "reply")
  /\ startRead(c, completed(c))
  /\ UNCHANGED <<accepting, io, clients, cid, errorMode, gone, misremoved>>

(* Fault: packets are handled before the WebSocket handshake, too. *)
FaultEarlyPacket(c) ==
  LET client == CM!getClient(cid[c]) IN
  /\ io = "running"
  /\ reads[c] > 0
  /\ IF client = None THEN UNCHANGED writes ELSE send(client, "frame")
  /\ startRead(c, completed(c))
  /\ UNCHANGED <<accepting, io, clients, cid, phase, errorMode, gone, misremoved>>

(* A binary frame for key A0: the reply goes to whoever holds the id cID. *)
ReadA0(c) ==
  LET client == CM!getClient(cid[c]) IN
  /\ io = "running"
  /\ reads[c] > 0 /\ phase[c] = "ws"
  /\ IF client = None THEN UNCHANGED writes ELSE send(client, "frame")
  /\ startRead(c, completed(c))
  /\ UNCHANGED <<accepting, io, clients, cid, phase, errorMode, gone, misremoved>>

(* A binary frame for an application key whose handler calls sendToAll. *)
ReadAppKey(c) ==
  /\ io = "running" /\ AppKeys
  /\ reads[c] > 0 /\ phase[c] = "ws"
  /\ \A d \in Conns : Registered(d) => writes[d]["frame"] < MaxWrites
  /\ writes' = [d \in Conns |->
                  IF Registered(d) THEN [writes[d] EXCEPT !["frame"] = @ + 1]
                                   ELSE writes[d]]
  /\ startRead(c, completed(c))
  /\ UNCHANGED <<accepting, io, clients, cid, phase, errorMode, gone, misremoved>>

(* Fault: no return after the client was removed. *)
FaultReadsAfterClose(c) ==
  /\ io = "running"
  /\ reads[c] > 0 /\ phase[c] = "ws"
  /\ removeOwnId(c)
  /\ startRead(c, completed(c))
  /\ UNCHANGED <<accepting, io, phase, errorMode, writes, gone>>

ReadClose(c) ==
  /\ io = "running"
  /\ reads[c] > 0 /\ phase[c] = "ws"
  /\ removeOwnId(c)
  /\ reads' = completed(c)
  /\ UNCHANGED <<accepting, io, phase, errorMode, writes, gone>>

(***************************************************************************)
(* Input that ends the process.  Of a frame: a text frame with no payload  *)
(* (payload.at(0)); a binary frame whose header names recipients (at() on  *)
(* a vector that was only reserved) or is longer than the payload; a key   *)
(* below every registered one (module KeySearch).  Of a handshake: a       *)
(* header line split between two reads (module Handshake).                 *)
(***************************************************************************)
ReadCrashes(c) ==
  /\ io = "running"
  /\ reads[c] > 0
  /\ terminate
  /\ reads' = completed(c)
  /\ UNCHANGED writes

--------------------------------------------------------------------------------
(* TCPConnection: asyncSend *)

writeDone(c, kind) ==
  /\ writes[c][kind] > 0
  /\ writes' = [writes EXCEPT ![c][kind] = @ - 1]

(* Success, and every error but a reset unless the mode is THROW_ON_ERROR. *)
AsyncSend(c, kind) ==
  /\ io = "running"
  /\ writeDone(c, kind)
  /\ UNCHANGED <<accepting, io, clients, cid, phase, errorMode, reads, gone, misremoved>>

AsyncSendReset(c, kind) ==
  /\ io = "running"
  /\ c \in gone
  /\ writeDone(c, kind)
  /\ removeOwnId(c)
  /\ UNCHANGED <<accepting, io, phase, errorMode, reads, gone>>

AsyncSendThrow(c, kind) ==
  /\ io = "running"
  /\ c \in gone /\ errorMode[c] = THROW_ON_ERROR
  /\ writeDone(c, kind)
  /\ terminate
  /\ UNCHANGED reads

--------------------------------------------------------------------------------
(* The environment: the peers and the application. *)

PeerGone(c) ==
  /\ io = "running"
  /\ phase[c] # "none"
  /\ gone' = gone \cup {c}
  /\ UNCHANGED <<accepting, io, clients, cid, phase, errorMode, reads, writes, misremoved>>

(* getClient(id)->getTCPConnection()->setErrorMode(mode) *)
SetErrorMode(c, mode) ==
  /\ io = "running"
  /\ Registered(c)
  /\ errorMode' = [errorMode EXCEPT ![c] = mode]
  /\ UNCHANGED <<accepting, io, clients, cid, phase, reads, writes, gone, misremoved>>

--------------------------------------------------------------------------------

Init ==
  /\ accepting = TRUE
  /\ io = "running"
  /\ CM!Init
  /\ phase = [c \in Conns |-> "none"]
  /\ errorMode = [c \in Conns |-> DEFAULT_ERROR_MODE]
  /\ reads = [c \in Conns |-> 0]
  /\ writes = [c \in Conns |-> [kind \in WriteKinds |-> 0]]
  /\ gone = {}
  /\ misremoved = {}

ReadError(c) ==
  \/ ReadReset(c)
  \/ ReadErrorThrow(c)
  \/ ReadErrorReturn(c)
  \/ ReadErrorRecall(c)
  \/ ReadErrorContinue(c)

AsyncReceive(c) ==
  \/ ReadError(c)
  \/ \E accepted \in BOOLEAN : ReadHandshake(c, accepted)
  \/ ReadA0(c)
  \/ ReadAppKey(c)
  \/ ReadClose(c)
  \/ ReadCrashes(c)

Next ==
  \/ AsyncAcceptError
  \/ \E c \in Conns :
       \/ AsyncAccept(c)
       \/ AsyncSSLHandshake(c)
       \/ AsyncSSLHandshakeError(c)
       \/ AsyncReceive(c)
       \/ \E kind \in WriteKinds :
            AsyncSend(c, kind) \/ AsyncSendReset(c, kind) \/ AsyncSendThrow(c, kind)
       \/ PeerGone(c)
       \/ \E mode \in AppModes : SetErrorMode(c, mode)

Spec == Init /\ [][Next]_vars

(***************************************************************************)
(* The reactor reports the end of a connection to the operation that waits *)
(* on it, and the io thread runs every handler that is ready.              *)
(***************************************************************************)
Fairness ==
  \A c \in Conns : WF_vars(AsyncSSLHandshakeError(c)) /\ WF_vars(ReadError(c))

FairSpec == Spec /\ Fairness

--------------------------------------------------------------------------------

TypeOK ==
  /\ CM!TypeOK
  /\ accepting \in BOOLEAN
  /\ io \in {"running", "terminated"}
  /\ phase \in [Conns -> Phases]
  /\ errorMode \in [Conns -> 0 .. 3]
  /\ reads \in [Conns -> Nat]
  /\ writes \in [Conns -> [WriteKinds -> 0 .. MaxWrites]]
  /\ gone \subseteq Conns
  /\ misremoved \subseteq Conns

(* The key of a client is the id its connection carries. *)
IdMatches == CM!IdMatches

(***************************************************************************)
(* asyncReceive parses *receiveData, the buffer of the latest startRead: a *)
(* second outstanding read would fill a buffer nobody parses.  So at most  *)
(* one read is outstanding, and none before the TLS handshake succeeded.   *)
(***************************************************************************)
SingleRead ==
  \A c \in Conns :
    /\ reads[c] <= 1
    /\ reads[c] = 1 => phase[c] \in {"http", "ws"}

(***************************************************************************)
(* A client that is in the table can still be noticed leaving it: its TLS  *)
(* handshake or a read is outstanding.  The one exception in the code is   *)
(* the failed TLS handshake, whose client keeps its id for good.           *)
(***************************************************************************)
NoSilentClient ==
  io = "running" =>
    \A c \in Conns :
      Registered(c) => phase[c] \in {"ssl", "sslFailed"} \/ reads[c] = 1

(***************************************************************************)
(* A connection whose TLS handshake or read is outstanding and that has an *)
(* id is the client of that id.  Two exceptions: its peer left and one of  *)
(* its writes already removed it, or another connection's handler did.     *)
(***************************************************************************)
PendingRegistered ==
  \A c \in Conns :
    (phase[c] = "ssl" \/ reads[c] > 0) /\ cid[c] # 0 =>
      clients[cid[c]] = c \/ c \in gone \/ c \in misremoved

(***************************************************************************)
(* How a client can be removed by somebody else: an earlier client lost    *)
(* the same id while a second operation of it was outstanding, the id was  *)
(* handed out again, and the handler of that operation now removes "its"   *)
(* id.  The earlier client's peer is gone, or it was itself removed that   *)
(* way.  No other sequence of handlers removes a client that is not their  *)
(* own.                                                                    *)
(***************************************************************************)
StaleHolder(c, d) ==
  /\ c # d /\ cid[c] = cid[d] /\ ~Registered(c)
  /\ c \in gone \cup misremoved

MisremovalCause ==
  [][\A d \in misremoved' \ misremoved :
       \E c \in Conns :
         /\ StaleHolder(c, d)
         /\ reads[c] > 0 \/ \E kind \in WriteKinds : writes[c][kind] > 0]_vars

(***************************************************************************)
(* A packet frame is written to a connection that completed its WebSocket  *)
(* handshake and is being read.  It can be written to another one in two   *)
(* ways: as the answer to a stale holder of the same id, that is still     *)
(* being read, or by a broadcast, which no client can be left out of.      *)
(* (The handlers here answer on the io thread; what a thread answers later  *)
(* is the subject of Packets.)                                             *)
(***************************************************************************)
Broadcast ==
  /\ AppKeys
  /\ \E c \in Conns : phase[c] = "ws" /\ reads[c] = 1
  /\ \A d \in Conns : Registered(d) => writes'[d]["frame"] = writes[d]["frame"] + 1

FrameAfterUpgrade ==
  [][\A d \in Conns :
       writes'[d]["frame"] > writes[d]["frame"] =>
         \/ phase[d] = "ws" /\ reads[d] = 1
         \/ \E c \in Conns : StaleHolder(c, d) /\ phase[c] = "ws" /\ reads[c] = 1
         \/ Registered(d) /\ Broadcast]_vars

(* An accepted connection is left without an id only by a full table. *)
RefusedOnlyWhenFull ==
  [][\A c \in Conns :
       phase[c] = "none" /\ phase'[c] # "none" =>
         Registered(c)' \/ CM!Used = CM!Ids]_vars

(* Handlers change the table by single additions and removals only. *)
TableSpec == CM!Spec

(***************************************************************************)
(* The id of a client whose peer left is freed, whatever handlers are       *)
(* running, unless the peer left during the TLS handshake, the process      *)
(* ended, or the application chose to read on after errors.                 *)
(***************************************************************************)
SlotReclaimed ==
  \A c \in Conns :
    c \in gone /\ Registered(c)
      ~> \/ ~Registered(c) \/ phase[c] = "sslFailed" \/ io = "terminated"
         \/ errorMode[c] \in {RECALL_ON_ERROR, CONTINUE_ON_ERROR}
================================================================================
