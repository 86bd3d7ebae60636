---------------------------------- MODULE Packets ----------------------------------
(***************************************************************************)
(* From the packet that arrives to the frames that answer it: HeaderManager, *)
(* IPacket and OPacket, SetupManager, the send functions of ClientManager,  *)
(* and the writes that TCPConnection starts.                               *)
(*                                                                         *)
(* The io thread reads; the handler of a key runs inside the read, or later *)
(* on an application thread when the packet was given to addToProcessing.   *)
(* A handler, and any call the application makes, is one step: what several *)
(* threads do to the table meanwhile is the subject of ClientThreads.  Of a  *)
(* connection there is left what the packets depend on: its id, its read    *)
(* and its writes; TCPServer has the rest.                                  *)
(***************************************************************************)
EXTENDS Integers, FiniteSets, SequencesExt, MessageClasses

CONSTANTS
  Conns, None, MAX_CLIENTS,   \* see ClientManager
  Arrivals,     \* packets of the peers: [fits, header, data, stray], see decryptHeader
  Modes,        \* the error modes of ClientManager to start with
  MaxWrites,    \* bound: outstanding writes
  MaxQueue,     \* bound: packets in the queue
  MaxList       \* bound: recipients of a packet

ASSUME ConnsAssumption == None \notin Conns
ASSUME MaxAssumption   == MAX_CLIENTS \in Nat \ {0}
ASSUME BoundsAssumption ==
  /\ MaxWrites \in Nat \ {0} /\ MaxQueue \in Nat /\ MaxList \in Nat
  /\ Modes \subseteq 0 .. 3

VARIABLES
  clients, cid,
  errorMode,    \* ClientManager::errorMode
  reading,      \* connections with a read outstanding
  upgraded,     \* handshakeComplete
  writes,       \* outstanding writes: the connection that each one answers, or None
  syncProcess,  \* the queue, of IPackets
  kept,         \* an OPacket the application keeps, or None
  ended,        \* the process ended
  waiting,      \* peers that wait for an answer
  disturbed,    \* history: the peer did not wait, or got a frame it had not asked for
  last          \* history: the call of a send function that the last step made, or NoCall

connVars == <<clients, cid, errorMode, reading, upgraded>>
pktVars  == <<connVars, writes, syncProcess, kept, ended, waiting, disturbed, last>>

CM == INSTANCE ClientManager WITH clients <- clients, cid <- cid

KeyA0  == <<65, 48>>
KeyA1  == <<65, 49>>
AppKey == <<75, 48>>    \* a key of the application

NoCall == [how |-> "none", packet |-> None, frames |-> {}]

--------------------------------------------------------------------------------
(* HeaderManager, IPacket, OPacket *)

Headers == [arrival \in Arrivals |-> In!MergePartialFromCodedStream(In!New, arrival.header).msg]

Header(arrival) == Headers[arrival]

At(k, i) == IF i \in DOMAIN k THEN k[i] ELSE 0

(* Two characters are read: behind a string of one is its terminator, and behind an empty *)
(* one its terminator and whatever byte comes next.                                       *)
keyOf(arrival) ==
  LET k == Header(arrival).locKey IN
  IF k = <<>> THEN <<0, arrival.stray>> ELSE <<k[1], At(k, 2)>>

(* at() on a reserved vector, or a length below zero. *)
decryptFails(arrival) == ~arrival.fits \/ Header(arrival).sendToIDs # <<>>

FaultLatestID(c, arrival) ==    \* fault: the sender is the client with the greatest id
  [sentFromID |-> Max(CM!Used \cup {cid[c]}), locKey |-> keyOf(arrival),
   data |-> arrival.data, asker |-> c]

decryptHeader(c, arrival) ==
  [sentFromID |-> cid[c], locKey |-> keyOf(arrival), data |-> arrival.data, asker |-> c]

(* History: asker, whose question it answers; named, the sender it was given, None once broadcast. *)
OPacket(loc, sender, recipients, asker) ==
  [locKey |-> loc, senderID |-> sender, sendToIDs |-> recipients, data |-> <<>>,
   named |-> sender, asker |-> asker]

(* OPacket(IPacket* ), of a packet without recipients, as all are. *)
fromIPacket(iPack) ==
  [OPacket(iPack.locKey, iPack.sentFromID, <<>>, None) EXCEPT !.data = iPack.data]

encryptHeader(p, sender) ==
  Out!SerializeWithCachedSizes(Out!set_sentFromID(Out!set_locKey(Out!New, p.locKey), sender))

FaultServerId(iPack) ==    \* fault: the answer tells the id of its sender, the server
  [OPacket(KeyA1, 0, <<iPack.sentFromID>>, iPack.asker) EXCEPT
     !.data = A1!SerializeWithCachedSizes(A1!set_id(A1!New, 0))]

createPackA1(iPack) ==
  [OPacket(KeyA1, 0, <<iPack.sentFromID>>, iPack.asker) EXCEPT
     !.data = A1!SerializeWithCachedSizes(A1!set_id(A1!New, iPack.sentFromID))]

--------------------------------------------------------------------------------
(***************************************************************************)
(* The send functions of ClientManager: the set of the frames a call       *)
(* writes, each with its place in the loop.  A call writes one packet, so  *)
(* in what order a connection gets it does not matter.                     *)
(***************************************************************************)

Ids == CM!Ids

Frame(p, place, id, sender) ==
  [place |-> place, to |-> clients[id], header |-> encryptHeader(p, sender), data |-> p.data]

known(p) == { i \in DOMAIN p.sendToIDs : CM!getClient(p.sendToIDs[i]) # None }

FaultNamesRecipient(p) ==    \* fault: the sender is set as in the broadcasts
  { Frame(p, i, p.sendToIDs[i], p.sendToIDs[i]) : i \in known(p) }

send(p) == { Frame(p, i, p.sendToIDs[i], p.senderID) : i \in known(p) }

sendTo(p, id) ==
  IF CM!getClient(id) # None THEN {Frame(p, 1, id, p.senderID)}
  ELSE IF errorMode = 2 THEN send(p) ELSE {}

(* THROW_ON_ERROR, and a null pointer followed with CONTINUE_ON_ERROR. *)
sendToFails(id) == CM!getClient(id) = None /\ errorMode \in {0, 3}

others(id) == CM!Used \ {id}

sendToAllExcept(p, id) == { Frame(p, i, i, i) : i \in others(id) }

sendToAll(p) == sendToAllExcept(p, 0)

FaultLeavesOutNobody(p) == sendToAll(p)    \* fault: the sender gets it, too

sendToAllExceptSender(p) == sendToAllExcept(p, p.senderID)

(* continue leaves the inner loop only, and what is called is the list's send. *)
sendToAllExceptList(p, ids) ==
  { Frame(p, <<id, i>>, p.sendToIDs[i], id) : id \in CM!Used, i \in known(p) }

(* The map is gone through by ascending ids; the last one stays in the packet. *)
afterBroadcast(p, ids) ==
  IF ids = {} THEN p ELSE [p EXCEPT !.senderID = Max(ids), !.named = None]

--------------------------------------------------------------------------------
(* TCPConnection: a write starts at once, whatever is outstanding. *)

outstanding == FoldSet(LAMBDA c, n : n + Len(writes[c]), 0, Conns)

framesTo(frames, c) == { frame \in frames : frame.to = c }

(* Writes frames. A peer is disturbed by whatever is not an answer it waits for. *)
WriteFrames(how, p, frames, hasty) ==
  LET begun(c) == Cardinality(framesTo(frames, c)) IN
  /\ outstanding + Cardinality(frames) <= MaxWrites
  /\ writes' = [c \in Conns |-> writes[c] \o [i \in 1 .. begun(c) |-> p.asker]]
  /\ last' = [how |-> how, packet |-> p, frames |-> frames]
  /\ disturbed' = disturbed \cup hasty \cup
       { c \in Conns : begun(c) > 0 /\ ~(p.asker = c /\ c \in waiting') }

SendsNothing == last' = NoCall

(* The process ends, and its memory is gone. *)
Ends ==
  /\ ended' = TRUE
  /\ clients' = [id \in CM!Ids |-> None] /\ cid' = [c \in Conns |-> 0]
  /\ reading' = {} /\ upgraded' = {}
  /\ writes' = [c \in Conns |-> <<>>]
  /\ syncProcess' = <<>> /\ kept' = None
  /\ waiting' = {} /\ disturbed' = {}
  /\ SendsNothing
  /\ UNCHANGED errorMode

--------------------------------------------------------------------------------
(* Connections *)

Connect(c) ==
  /\ cid[c] = 0 /\ c \notin reading
  /\ CM!addClient(c)
  /\ reading' = reading \cup {c}
  /\ SendsNothing
  /\ UNCHANGED <<errorMode, upgraded, writes, syncProcess, kept, ended, waiting, disturbed>>

(* asyncReceive reports the end of the connection. *)
ReadError(c) ==
  /\ c \in reading
  /\ CM!removeClient(cid[c])
  /\ reading' = reading \ {c}
  /\ SendsNothing
  /\ UNCHANGED <<errorMode, upgraded, writes, syncProcess, kept, ended, waiting, disturbed>>

(* asyncSend reports it; the read stays outstanding. *)
WriteReset(c) ==
  /\ writes[c] # <<>>
  /\ CM!removeClient(cid[c])
  /\ writes' = [writes EXCEPT ![c] = Tail(@)]
  /\ SendsNothing
  /\ UNCHANGED <<errorMode, reading, upgraded, syncProcess, kept, ended, waiting, disturbed>>

AsyncSend(c) ==
  /\ writes[c] # <<>>
  /\ writes' = [writes EXCEPT ![c] = Tail(@)]
  /\ waiting' = IF Head(writes[c]) = c THEN waiting \ {c} ELSE waiting
  /\ SendsNothing
  /\ UNCHANGED <<connVars, syncProcess, kept, ended, disturbed>>

(* The peer sends its next message while it still waits, or is being written to. *)
hasty(c) == IF c \in waiting \/ writes[c] # <<>> THEN {c} ELSE {}

(* The reply, 101 or 400, is written from sendStorage. *)
ReadHandshake(c) ==
  /\ c \in reading \ upgraded
  /\ \E accepted \in BOOLEAN : upgraded' = IF accepted THEN upgraded \cup {c} ELSE upgraded
  /\ outstanding < MaxWrites
  /\ writes' = [writes EXCEPT ![c] = Append(@, c)]
  /\ waiting' = waiting \cup {c}
  /\ disturbed' = disturbed \cup hasty(c)
  /\ SendsNothing
  /\ UNCHANGED <<clients, cid, errorMode, reading, syncProcess, kept, ended>>

--------------------------------------------------------------------------------
(* A packet is read: asyncReceive, decryptHeader, asyncProcess and the handler. *)

(* The order of std::string; a key that is too short ends with 0. *)
Below(k, key) == k[1] < key[1] \/ (k[1] = key[1] /\ k[2] < key[2])

Reads(c, arrival) == c \in reading \cap upgraded /\ ~decryptFails(arrival)

ForServer(c, arrival, key) ==
  Reads(c, arrival) /\ Header(arrival).serverRead /\ keyOf(arrival) = key

(* A header that cannot be taken apart, or a key that is looked for without end. *)
ReadCrash(c, arrival) ==
  /\ c \in reading \cap upgraded
  /\ \/ decryptFails(arrival)
     \/ Header(arrival).serverRead /\ Below(keyOf(arrival), KeyA0)
  /\ Ends

(* Not for the server, or for a key nobody registered. *)
ReadIgnored(c, arrival) ==
  /\ Reads(c, arrival)
  /\ Header(arrival).serverRead =>
       keyOf(arrival) # AppKey /\ Below(KeyA0, keyOf(arrival))
  /\ disturbed' = disturbed \cup hasty(c)
  /\ SendsNothing
  /\ UNCHANGED <<connVars, writes, syncProcess, kept, ended, waiting>>

FaultTwice(p) ==    \* fault: the answer is sent twice
  { [frame EXCEPT !.place = <<@, n>>] : frame \in send(p), n \in {1, 2} }

answer(p) == send(p)

keyA0(c, arrival) ==
  LET p == createPackA1(decryptHeader(c, arrival)) IN
  /\ ForServer(c, arrival, KeyA0)
  /\ waiting' = waiting \cup {c}
  /\ WriteFrames("send", p, answer(p), hasty(c))
  /\ UNCHANGED <<connVars, syncProcess, kept, ended>>

(* The handlers of an application: it hands the packet on, or relays it. *)
addToProcessing(c, arrival) ==
  /\ ForServer(c, arrival, AppKey)
  /\ Len(syncProcess) < MaxQueue
  /\ syncProcess' = Append(syncProcess, decryptHeader(c, arrival))
  /\ waiting' = waiting \cup {c}
  /\ disturbed' = disturbed \cup hasty(c)
  /\ SendsNothing
  /\ UNCHANGED <<connVars, writes, kept, ended>>

Relay(c, arrival) ==
  LET p == fromIPacket(decryptHeader(c, arrival)) IN
  /\ ForServer(c, arrival, AppKey)
  /\ UNCHANGED waiting
  /\ WriteFrames("exceptSender", p, sendToAllExceptSender(p), hasty(c))
  /\ kept' = afterBroadcast(p, others(p.senderID))
  /\ UNCHANGED <<connVars, syncProcess, ended>>

--------------------------------------------------------------------------------
(* Application threads *)

(* process(): the handler answers the id in the packet. *)
Process ==
  LET iPack == Head(syncProcess)
      p     == OPacket(AppKey, 0, <<iPack.sentFromID>>, iPack.asker)
  IN
  /\ syncProcess # <<>>
  /\ syncProcess' = Tail(syncProcess)
  /\ UNCHANGED waiting
  /\ WriteFrames("send", p, send(p), {})
  /\ UNCHANGED <<connVars, kept, ended>>

(* setSenderID, addSendToID, removeSendToID and clearSendToIDs of a kept packet. *)
Prepare ==
  /\ kept # None
  /\ \/ \E id \in Ids : kept' = [kept EXCEPT !.senderID = id, !.named = id]
     \/ \E id \in Ids : Len(kept.sendToIDs) < MaxList
                          /\ kept' = [kept EXCEPT !.sendToIDs = Append(@, id)]
     \/ \E id \in Ids : kept' = [kept EXCEPT !.sendToIDs = RemoveFirst(@, id)]
     \/ kept' = [kept EXCEPT !.sendToIDs = <<>>]
  /\ SendsNothing
  /\ UNCHANGED <<connVars, writes, syncProcess, ended, waiting, disturbed>>

Call(how, frames, reached) ==
  /\ kept # None
  /\ UNCHANGED waiting
  /\ WriteFrames(how, kept, frames, {})
  /\ kept' = afterBroadcast(kept, reached)
  /\ UNCHANGED <<connVars, syncProcess, ended>>

SendKept ==
  \/ Call("send", send(kept), {})
  \/ \E id \in Ids : ~sendToFails(id) /\ Call("send", sendTo(kept, id), {})
  \/ Call("all", sendToAll(kept), others(0))
  \/ Call("exceptSender", sendToAllExceptSender(kept), others(kept.senderID))
  \/ \E id \in Ids : Call("except", sendToAllExcept(kept, id), others(id))
  \/ \E id \in Ids : Call("exceptList", sendToAllExceptList(kept, <<id>>), CM!Used)

(* setLocKey(nullptr) reads from the null pointer. *)
SetNullKey == kept # None /\ Ends

SendToFails == kept # None /\ (\E id \in Ids : sendToFails(id)) /\ Ends

--------------------------------------------------------------------------------

Init ==
  /\ CM!Init
  /\ errorMode \in Modes
  /\ reading = {} /\ upgraded = {}
  /\ writes = [c \in Conns |-> <<>>]
  /\ syncProcess = <<>> /\ kept = None /\ ended = FALSE
  /\ waiting = {} /\ disturbed = {}
  /\ last = NoCall

Next ==
  /\ ~ended
  /\ \/ \E c \in Conns :
          \/ Connect(c) \/ ReadError(c) \/ WriteReset(c) \/ AsyncSend(c) \/ ReadHandshake(c)
          \/ \E arrival \in Arrivals :
               \/ ReadCrash(c, arrival) \/ ReadIgnored(c, arrival) \/ keyA0(c, arrival)
               \/ addToProcessing(c, arrival) \/ Relay(c, arrival)
     \/ Process \/ Prepare \/ SendKept \/ SetNullKey \/ SendToFails

Spec == Init /\ [][Next]_pktVars

--------------------------------------------------------------------------------

SenderIn(frame) == Out!MergePartialFromCodedStream(Out!New, frame.header).msg.sentFromID

ReadId(frame) == A1!MergePartialFromCodedStream(A1!New, frame.data).msg.id

(***************************************************************************)
(* An answer reaches the connection that asked, or none, unless that        *)
(* connection is no client any more: only then can its id mean another one. *)
(***************************************************************************)
AnswersAsker ==
  [][\A frame \in last'.frames :
       last'.packet.asker \in Range(clients) \ {None} => frame.to = last'.packet.asker]_pktVars

(* Whoever gets an A1 is told the id of its own connection. *)
ToldOwnId ==
  [][\A frame \in last'.frames :
      last'.packet.locKey = KeyA1 => ReadId(frame) = cid'[frame.to]]_pktVars

(***************************************************************************)
(* What send writes names the sender that the packet was given last, unless *)
(* it was broadcast since.                                                  *)
(***************************************************************************)
NamedSender ==
  [][\A frame \in last'.frames :
      last'.how = "send" /\ last'.packet.named # None =>
        SenderIn(frame) = last'.packet.named]_pktVars

(***************************************************************************)
(* "set the sendID which is used to tell the client who originally sent     *)
(* this packet" (OPacket.h:47): whichever function sends the packet.        *)
(***************************************************************************)
TellsOriginalSender ==
  [][\A frame \in last'.frames :
      last'.packet.named # None => SenderIn(frame) = last'.packet.named]_pktVars

(***************************************************************************)
(* sendToAllExceptSender reaches every client but the sender, once, if the  *)
(* packet is broadcast for the first time.                                  *)
(***************************************************************************)
ExceptSender ==
  [][last'.how = "exceptSender" /\ last'.packet.named # None =>
      /\ Cardinality(last'.frames) = Cardinality(CM!Used \ {last'.packet.named})
      /\ { frame.to : frame \in last'.frames }
           = { clients[id] : id \in CM!Used \ {last'.packet.named} }]_pktVars

(***************************************************************************)
(* Two writes to a connection are outstanding at once only if its peer did  *)
(* not wait for an answer, or got what it had not asked for.  (The second    *)
(* reply overwrites the sendStorage of the first.  This says nothing of the *)
(* bytes of a frame, which one write alone reads from a temporary.)         *)
(***************************************************************************)
PoliteNotOverlapped == \A c \in Conns \ disturbed : Len(writes[c]) <= 1
====================================================================================
