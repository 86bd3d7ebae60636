# A TLA+ model of BoostHTMLServer3

The repository is a small C++ framework for WebSocket servers over TLS, built on
Boost.Asio: it accepts connections, gives each a client id, upgrades it from
HTTP to WebSocket, and hands the packets that arrive in binary frames to handlers
registered by key. This directory holds TLA+ modules that model its own logic,
configurations with which TLC checks them on small instances, and proofs of the
most important properties for every value of the constants.

Paths below are relative to `src/BoostHTMLServer3/`; `H/` stands for
`HTMLHandle/include/`.

## The system

```
 main -> Server --owns--> TCPAcceptor, HeaderManager, PacketManager, SetupManager
                |              |                        |     (keys, queue)
            io thread      asyncAccept                  owns
                |              v                        v
                +--runs--> TCPConnection <--owns-- ClientManager (id -> Client)
                           |        |
             handshake_manager   dataframe_manager
```

One detached thread (`Server::asyncInit` -> `asyncIOService`) runs the
io_service. All handlers of the acceptor and of every connection run there, one
at a time. Application threads may call into ClientManager and PacketManager
beside it.

| Component | State | Operations | Talks to |
|---|---|---|---|
| `ClientManager`, `Client` | map id -> client, a mutex, error mode | add, get, remove, acquire id, send, three broadcasts | called by Server, TCPConnection, the application; calls `setID` and `send` of connections |
| `TCPConnection` | id, error mode, `handshakeComplete`, one read buffer, two write buffers | TLS handshake, read loop, send, three completion handlers | the two H managers, `HeaderManager`, `PacketManager`, `ClientManager` by id |
| `TCPAcceptor` | error mode, the next socket | `asyncAccept` | `Server::addClient`, `startSSLHandshake` |
| `Server` | the managers, the io_service | build, run, destroy | owns everything |
| `PacketManager`, `PKey`, `PKeyOwner` | sorted vector of keys, each with a list of handlers; a packet queue; two mutexes | add/remove/search keys, queue, process | handlers of the application and of `SetupManager` |
| `SetupManager` | key A0 | answers A0 with A1 | `ClientManager::send` |
| `handshake_manager`, `request_parser`, `request_handler` | parser state | parse one read, decide 101 or 400 | called by `asyncReceive` until the upgrade |
| `dataframe_manager`, `dataframe_parser`, `dataframe` | parser state, reset per read | parse one read as one frame, write a frame | called by `asyncReceive` after the upgrade |
| `HeaderManager`, `IPacket`, `OPacket` | none of their own | packet header of a frame payload | `TCPConnection` |
| SHA1, Base64, `reply` | hash in progress | the key of a request to the bytes of its reply | `request_handler` |
| generated messages | has bits, fields, unknown fields | access, clear, merge, copy, swap, parse, serialise | `HeaderManager`, `SetupManager` |

### What is hard here

* Handlers outlive the client they belong to. A connection keeps a `shared_ptr`
  in every outstanding operation, finds itself in the table by *id* only, and
  ids are reissued as soon as they are free. A handler that runs late can
  therefore act on somebody else's slot.
* Every error branch of the read loop has to do exactly one of three things:
  give the client up, arm the next read, or end the process. Nothing enforces it.
* The smallest free id is found by walking the gaps of a sorted map.
* Recursion and default arguments meet in `binarySearchKey`: the bound of an
  empty lower half is the value that means "no bound".
* The HTTP parser keeps its state for the life of the connection while the
  request it fills is new for every read.
* Application threads share the table and the key vector with the io thread, and
  use pointers and iterators after the mutex was released.
* A frame is expected to be exactly one read, and every broadcast writes to one
  packet shared by all its recipients.
* Replies are written from one buffer, frames from temporaries, and a write starts
  whatever else is outstanding.
* SHA1 computes in words of whatever width `long` has.
* The destructor of `Server` does not wait for the detached thread it stops.

`PROJECT.json` lists each of these as a hazard at its line.

### What makes each component correct

* **ClientManager**: a key of the map is the id its connection carries; an id is
  given to one client at a time; a free id is found whenever there is one; nothing
  else than one addition or one removal ever happens to the table.
* **TCPConnection**: at most one read outstanding; no client in the table that
  nobody reads; a client removed only by its own handler or through a reissued
  id; no packet frame before the upgrade; the id of a departed peer comes back.
* **TCPAcceptor / Server**: a connection is turned away only by a full table.
* **PacketManager**: a key is found if it is registered, else reported; packets run
  in order; no handler runs after it was removed.
* **Handshake**: a complete request is recognised, an incomplete one is not;
  no access to a header that is not there.
* **Frames**: what arrives is what was sent, whatever reads it was cut into.
* **Packets**: an answer goes to who asked, or to nobody; who is named as the sender; whom a
  broadcast leaves out; two writes to one connection do not overlap.
* **Messages**: what was serialised is parsed back; a cleared message is a new one.
* **Reply**: the accept key is the one a client computes.
* **Server**: nothing is used after it was deleted, nothing is deleted twice, and the destructor
  returns.

## Modules

| Module | Models | Proofs |
|---|---|---|
| `ClientManager` | the table of `ClientManager.cpp`, as a component and as an abstract specification | `ClientThreadsProofs` |
| `ClientThreads` | the operations of `ClientManager.cpp` under several threads, between lock and unlock and outside the mutex | `ClientThreadsProofs` |
| `TCPServer` | acceptor, connections and table on the io thread | `TCPServerProofs` |
| `KeySearch` | `PacketManager::binarySearchKey`, call by call | `PacketsProofs` |
| `Dispatch` | `PacketManager` under several threads: key table, packet queue, both mutexes; `PKeyOwner`s | `DispatchProofs` |
| `Handshake` | parser, handshake manager, request handler, byte by byte | `HandshakeProofs` |
| `AcceptKey` | the reply: SHA1 round by round, Base64, `reply::to_buffer` | `HandshakeProofs` |
| `FrameParser` | `dataframe_parser` and `dataframe_manager`, byte by byte and read by read | `FrameParserProofs` |
| `FrameWriter` | the header written by `dataframe::to_buffer` | |
| `WireFormat` | what generated messages use of the protobuf library | |
| `PackHeaderIn`, `PackHeaderOut`, `PackA0`, `PackA1`, `PackA2` | the generated message classes, operators only; `MessageClasses` names them | `MessagesProofs` |
| `Messages` | two objects of a message class under every sequence of calls | `MessagesProofs` |
| `Packets` | from a packet's header to the frames that answer or broadcast it, over `ClientManager` and the messages | `PacketsProofs` |
| `Shutdown` | `Server` from its constructor to the end of its destructor, beside the io thread | `ShutdownProofs` |

`TCPServer`, `ClientThreads` and `Packets` compose the table of `ClientManager` with what uses it;
`MCHandshake` puts `AcceptKey` behind the parser that calls it, `MCPackets` puts `Messages` beside
`Packets`. TLC runs the `MC` modules. The definitions called `Fault...` are not
part of any specification: they are plausible mistakes, kept next to the code
they would replace, with which `PROJECT.json` shows that every property can fail.

### ClientManager

`clients` is the map from ids to clients (`None` where there is no entry), `cid[c]`
the `cID` of connection `c`, which starts at 0 and survives its removal.
`aquireNextID` is the least id outside the map, `addClient` refuses (id 0, map
unchanged) once every id below `MAX_CLIENTS` is used, `removeClient` erases an id if
it is there. With every caller allowed at any time this is also the abstract
specification: the table changes by single additions and removals only.

### ClientThreads

The same table at the grain of its mutex. A thread is at a place (`pc`) with a connection
in its hands (`conn`). Under the mutex: `Accept`, then the loop of `aquireNextID` one key at
a time (`Advance`, `Break`, `AtEnd`; `passed` is what lies before the iterator), `Emplace`; and
`Remove`, which deletes the Client, before `Erase`, which takes its entry out; `Find` and `Miss` (`getClient`
with and without an entry, `removeClient` without one), before `Leave`, which gives the mutex back on each of
those returns. Outside: `ReadEntry` (`getClient` reads its iterator after unlocking), `Use` (every sender), and
`Broadcast`, `SendNext`, `Increment` (the walk over the map). The history variable `freedBy` knows
who deleted a Client; `undefined` is set, and ends the behaviour, when a deleted
Client or entry is used or the map is read during a change. `TableSpec` says that all this
implements `ClientManager`, so what is true there is true of the threads.

### TCPServer

The core. A handler runs to its end on the io thread, so it is one action; what
interleaves are the completions, the departures of peers and the application's calls. For each
connection: how far it got (`phase`), its error mode, the number of outstanding
reads and writes, whether the peer is gone, and through `INSTANCE ClientManager`
its place in the table. `reads` is a number and not a Boolean because nothing in
the code prevents a second one: that there is at most one is proved.

| Action | Code |
|---|---|
| `AsyncAccept`, `AsyncAcceptError` | `TCPAcceptor::asyncAccept`, with the `startSSLHandshake` and `addClient` it calls |
| `AsyncSSLHandshake`, `AsyncSSLHandshakeError` | the two branches of `TCPConnection::asyncSSLHandshake` |
| `ReadReset`, `ReadErrorThrow/Return/Recall/Continue` | the error branches of `asyncReceive`, one per mode |
| `ReadHandshake`, `ReadA0`, `ReadAppKey`, `ReadClose` | what the bytes of a successful read lead to |
| `ReadCrashes` | input on which a handler throws or recurses without end, which ends the process |
| `AsyncSend`, `AsyncSendReset`, `AsyncSendThrow` | `asyncSend` |
| `PeerGone`, `SetErrorMode` | the peer, and the application through `getTCPConnection()` |

Which bytes lead to which outcome is left to the modules of the parsers; here every outcome
is possible at every read. Frames that are ignored only re-arm the read and are
stuttering steps. `StaleHolder` is the state the properties turn on: a connection whose id is
somebody else's by now.

### KeySearch

The vector of keys and the key searched for are chosen at the start; the arguments
`f` and `l` and the calls that follow are those of the code, `-1` as a default argument included.

### Dispatch

`pKeys` is the vector of lists, `syncProcess` the queue, `op` and `pc` the call a thread is in,
`handlers` what it has still to run. `binarySearchKey` computes in one step what module `KeySearch`
searches call by call (`searchCall` is one call), with its two fatal ends: `undefined` (the first handler of
a list is read, and the list was emptied or the handler deleted) and `endless`.

| Action | Code |
|---|---|
| `OwnerCall`, `addPKey`, `removePKey`, `deleteKey` | `PKeyOwner` and the two functions of `PacketManager` it calls; the lock is waited for between the first and the second |
| `ServerProcess`, `Enter`, `Leave` | `serverProcess` on the io thread |
| `Process`, `Pop`, `Enter`, `Leave` | the loop of `process()` on an application's thread |
| `addToProcessing` | the function of that name |
| `HandlerReturns`, `HandlerThrows`, `HandlerRegisters`, `HandlerGone`, `LockAgain` | what a handler may do while `pKeysMutex` is held: to lock `std::mutex` again is undefined, so it throws or waits for ever; to run a deleted handler ends the process |

### Handshake

Characters are the 15 classes that `consume` tells apart, `Edges` is its switch. The
never-reset parser (`state_`) runs beside one that is reset for each read (`fresh`):
the second says what the bytes of the read amount to on their own. Of the headers
the model keeps whether there is one (`headers.back()` needs it) and the fate of the
first `Sec-WebSocket-Key`.

### AcceptKey

`handle_request` once it has a key: a word is the set of its bits, of 64 where the code's
`uint32` is `unsigned long`. `Update`, `Round`, `EndTransform`, `Final` and `Length` are SHA1's loops;
`to_base64` and `to_buffer` are computed in one step. The same rounds are followed on words of 32
bits, as FIPS 180-4 has them (`RefRound`), and the reply is compared with the one RFC 6455 asks for. Keys
have at most `MAX_DATA_SIZE` bytes, a read, so 16 bits hold the length that `final` appends.

### FrameParser

The parser runs beside the stream it reads (`hdr`, `left`): framing by arithmetic
on the header, as RFC 6455 defines it, whatever reads the bytes are cut into. `first` is the
declared length of the first frame that lies whole in the current read. Each state of
`dataframe_parser` is an action; `NextRead` is the new `dataframe` and `reset()` with which
`parse_data` starts, `Skip` the bytes behind the first frame, which nobody looks at. The
extended length is kept byte by byte, because the code assembles it from the least
significant one and then converts it. Any length of 2^16 and more is `Huge`: no read holds such a
frame. Of the payload the model has its length, and how many of its bytes were combined with a byte of
the masking key that had been set (`decoded`).

### FrameWriter

One step: the first byte and the length bytes of a frame, through `hton16` and the shifts of
`to_buffer`. A shift by more than the width of `int` may produce any byte of `ShiftOutcomes`.

### Messages

A message is a record of its fields, the set `has` of those whose bit is set, and the unknown
fields that parsing keeps; a stream is a sequence of tokens, each a tag, a value and whether all of it
arrived; a group, which no class has for a field, is one token. The class modules have one operator for each function protoc generated, in the order of the
source: `Clear` looks only where a bit is set, `Field` is the `switch` of
`MergePartialFromCodedStream`. `mergeToken` and `handle_unusual` are the loop they share.

### Packets

Of a connection there is its id, its read and its writes. Headers are parsed and built with the message
modules, so what a packet names is what its frames carry.

| Action | Code |
|---|---|
| `Connect`, `ReadError`, `WriteReset`, `AsyncSend` | the table, the end of a connection as a read or a write reports it, the end of a write |
| `ReadHandshake` | a reply written from `sendStorage` |
| `keyA0` | `decryptHeader`, `asyncProcess`, `SetupManager::keyA0`, `ClientManager::send` |
| `addToProcessing`, `Process` | a handler that puts the packet in the queue; the one that answers it later |
| `Relay` | a handler that makes an `OPacket` of an `IPacket` and broadcasts it |
| `Prepare`, `SendKept` | the setters of `OPacket`; each of the send functions, with a packet that was sent before |
| `ReadIgnored`, `ReadCrash`, `SetNullKey`, `SendToFails` | packets nobody handles; what ends the process |

The send functions are operators that give the set of the frames they write, each with its place in the
loop and the sender it names. A call writes one packet, so the order in which a connection gets its
frames makes no difference.
`waiting` and `disturbed` say which peers wait for an answer before they speak again.

### Shutdown

The application's thread walks through `Server` (`main`), the io thread through its handlers
(`io`, `job`), cut where they pass from one object to the next. `alive` is what was not deleted.
`bad` collects what was undefined: a deleted object used (`stale`), the protobuf library used after it
was shut down (`library`), a second delete (`twice`), a pointer that is null or was never set
(`null`, `wild`); nothing is followed after it.

| Action | Code |
|---|---|
| `CreateManagers`, `InitServer`, `InitServerThrows`, `InitServerUnmanaged`, `SyncReturns` | `createManagers` and the three ways to start, with the exceptions of `TCPAcceptor`'s constructor |
| `RunReturns`, `RunOne`, and the handlers | `io_service::run`, `asyncAccept`, the handlers of `TCPConnection`, `serverProcess` with `pKeysMutex` |
| `Stop`, `DeleteAcceptor`, `DeleteClientManager`, `DeleteSetupManager`, `DeletePacketManager`, `Reset`, `DeleteService`, `ShutdownProtobufLibrary` | `~Server`, in its order, with the destructors it calls |
| `AddOwner`, `DeleteOwner`, `DeleteOwnerLate`, `NewServer` | an application with a `PKeyOwner` of its own, or with another server afterwards |

`overran` remembers that the destructor went on while a handler was running, which `stop` does not wait for.

## Runs

| Run | Instance | What it shows |
|---|---|---|
| `client_threads` | 4 connections, 3 ids, the io thread and one of the application's, fairness | the loop finds the least free id; the operations are atomic and give the mutex back; undefined behaviour takes two threads |
| `server` | 2 connections, one id, all error modes an application can set, a broadcasting key, fairness | the invariants of the io thread; the server implements `ClientManager`; how a client loses its slot to another one's handler; to whom frames go; the id of a departed peer is freed |
| `key_search` | sorted vectors of up to 5 of 7 keys | a search that returns is right; it returns unless the key is below all others |
| `key_search_absent` | up to 2 of 3 keys | *violated*: see Findings |
| `handshake` | complete: reads of any number and length; then the reply, for 9 lengths of keys | what the parser does with split and repeated requests; the accept key is right |
| `handshake_complete` | the same | *violated*: see Findings |
| `frames` | 5 byte values, reads of up to 12 bytes, 2 reads | a read that begins between two frames delivers its first whole frame with the declared length; what it misses is empty in an extended field; a short masked frame reaches the packet intact |
| `frame_writer_order` | sizes 0..600 and around 65536 | *violated*: see Findings |
| `dispatch` | 2 owners with 4 keys, one of which may be added twice, the io thread, and 3 packets that 2 threads process; handlers return, throw or register; fairness | the vector stays sorted around emptied lists; a packet starts all handlers of its key; when a deleted handler is reached; what ends the process; every queued packet is run once; how far packets overtake each other; the mutex comes back, unless a handler threw or waits for it itself |
| `packets` | 2 connections, 2 ids, 8 kinds of packets, 3 error modes; and two message objects | who gets an answer, whom a packet that is *sent* names, who is left out of a first broadcast, when writes overlap; messages survive their bytes, merging is concatenation, clearing forgets |
| `packets_sender` | 2 clients, no queue | *violated*: see Findings |
| `shutdown` | 2 connections, a table of one, two servers in turn, an owner of keys, fairness | what can be used or deleted after its end, and why; the destructor returns and the connections go with it |

### Bounds

* `server` has one id for two connections: the questions are what the next owner of an id
  suffers from operations of the last one, and when a full table refuses, and both happen at every
  reissue. Its safety properties are proved for every number of connections and ids;
  `packets` has two ids, `client_threads` three.
* `MaxWrites` caps the outstanding writes: of one kind in `server`, of all in
  `packets`. Two are enough for completions to overlap.
* `MaxKeys = 5` of 7 keys: gaps below, between and above, both halves of odd and even
  lengths down to the empty one.
* Three ids and four connections in `client_threads`: every pattern of gaps below a used id, and
  an id that is reissued. One application thread is enough: the
  races are between two threads, and the io thread runs the same operations. A connection
  is accepted once, and the connections are numbered by the order in which they are: nothing else tells them
  apart (`InOrder`).
* `Handshake` has no bound. The reply is computed after a request that came in one read as the first:
  nothing of the parser's past enters it. With the GUID the keys make texts of 37, 55, 56, 57, 60, 63, 64, 65 and 128 bytes: one block,
  one block that has no room for the length, two, and a text that fills its last block.
* `frames`: the byte values are a length 0, a length 2, both extended markers, one of them
  masked, and a masked 1. `MAX_DATA_SIZE = 12` holds an unmasked frame with a 64 bit length and
  two payload bytes, a masked one with a 16 bit length, and several short ones; `MaxFrame = 2`
  keeps what is declared within what fits, so that frames do end. `MaxReads = 1` gives
  one read that begins wherever the first one stopped.
* `dispatch`: three keys, so that one is inserted in the middle and a list in the middle is
  emptied; two handlers share a key; `Twice` names the handler that may be in the table
  twice. Deletions are for good, so the run is finite. Two threads process the queue, and
  `MaxPackets = 3`, so that two packets are taken while one waits. `MCNext` keeps the two apart, which
  otherwise multiply: packets in the queue are for the key of `p1`, and while the queue is in use no other
  handler than `p1` is registered. What owners do to several keys is met by the io thread, and `p1` itself is added,
  removed and deleted beside the queue.
* `packets`: the packets are for the setup key, for a key of the application, not for the server, for
  a key nobody registered, with recipients, with a header that is cut before its key (behind an empty key the byte that
  `lockey()[1]` finds is any; two are tried) and with a length that does not fit.
  `MaxQueue = 1`: an answer waits while its id is reissued. `MaxList = 1`. THROW_ON_ERROR (mode 0) differs from
  CONTINUE_ON_ERROR only in how the process ends. Message objects (`MaxRepeated = 1`, two strings, two
  numbers, fourteen streams with fields of every wire type, groups and cuts) are exercised while no packet was
  exchanged, since they share nothing. `last`, the call just made, is left out of the fingerprint: the
  properties about it are about steps, and every step is checked.
* `shutdown`: one write of a connection is outstanding at a time. `MaxServers = 2`, since the library
  is shut down for the second server. A table of one client refuses the second connection.
* `Sizes` of the frame writer: both sides of the limits of all three forms.

Connections are interchangeable in `packets` (they are compared and used as indices, never ordered),
hence its symmetry; the runs that check liveness have none.

### Fairness

`FairSpec` of `TCPServer` assumes weak fairness of exactly the handlers that a departed
peer leads to: the reactor reports the end of a connection to the operation
that waits on it, and the io thread runs every ready handler. Nothing is
assumed of peers, of the application or of writes. The loop of `KeySearch` gets
weak fairness of its next step: it runs in one thread under a mutex
that nobody else can take away. `ClientThreads` and `Dispatch` assume that a thread which *holds* the
mutex goes on (in `Dispatch`, that a handler comes to an end: it returns, throws, or locks
the mutex again, of which it may not come back); they assume nothing of a thread
that waits for it or that has not called anything. `Shutdown` assumes that neither the
destructor nor the io thread is suspended for ever. The claim that an id is freed has two exceptions that are
the code's: a TLS handshake that fails (its client is never removed) and a handler
that ended the process.

## Findings

* **A key below every registered key is searched for without end** (`PacketManager.cpp:121`,
  run `key_search_absent`). The lower half of index 0 has the bound -1, which is
  `USE_PKEYS_SIZE`: the callee starts over on the whole vector. "Could not find locKey"
  (`PacketManager.cpp:133`, and `:93` in `process`) is never reached for such a key. The run `key_search`
  and the theorem `SearchCorrect` say that this is all that is wrong with the search.
* **A complete request is rejected after a failed one** (`H/handshake_manager.cpp:26`, run
  `handshake_complete`). "The tribool return value is true when a complete request has
  been parsed" (`H/request_parser.h:21-22`); the parser is never reset, so a client that
  retries on its connection continues its earlier request. `RetryRecognised` says
  from which states a retry works, `NoRecovery` from which it never will.
* **The 16 bit length of a frame is written in little endian order** (`H/dataframe.cpp:45`, run
  `frame_writer_order`). "Convert to the big-endian." (`H/dataframe_parser.cpp:43`): the
  size is converted, and the result then written by shifts, most significant
  byte first, which exchanges the bytes again. A payload of 126 bytes announces 32256. The
  64 bit form writes one byte of the size and takes the others from a 16 bit field.
* **A broadcast tells every client that the packet comes from itself** (`ClientManager.cpp:142`, and `:158`; run
  `packets_sender`). The sender id is "used to tell the client who originally sent this packet" (`OPacket.h:47`). Every
  broadcast overwrites it with the id it sends to, in a packet all recipients share and the application
  may send again: a packet of client 1 that is relayed with `sendToAllExceptSender` names client 2 to client 2, and a second
  broadcast leaves out the last recipient instead of the sender. `NamedSender` says where the promise is kept, in
  packets that `send` writes before any broadcast, and `ExceptSender` whom a first broadcast leaves out.

Other statements of the code's comments and names that the code does not keep; the models have
what the code does:

* `setLocKey` takes a null pointer according to `OPacket.h:29`, and reads from it (`SetNullKey`).
* `sendToAllExcept` with a list leaves nobody out (`ClientManager.cpp:172`).
* The results of all `Parse...` calls are ignored: a header that was cut is used as far as it was
  read.

`MisremovalCause` describes behaviour a reader may also want to change: a handler of a client
that lost its id (a write that met a reset) can remove the next owner of the
id. The property pins down that this is the *only* way to lose a slot to another
connection.

## Proofs

All proofs are for every number of connections, ids, threads and keys, and use only the
assumptions named in the modules (`None` is no connection, `MAX_CLIENTS` is positive, threads are
distinct and those that process packets finitely many, the
modes are those of `PacketMacros.h`, strings are sequences of bytes and what arrives is a sequence of tokens; a
`Sec-WebSocket-Key` has at least one byte and no more than a read, `MAX_DATA_SIZE`).

* **`TCPServerProofs`** rests on the inductive invariant `IInv`: `TypeOK`, `IdMatches`,
  `SingleRead`, `NoSilentClient`, `PendingRegistered` and `Unaccepted` (a connection
  not yet accepted is in no slot and has nothing outstanding). None of
  the parts is inductive alone. `NoSilentClient` needs `SingleRead`, because a handler
  that returns without re-arming leaves *no* read only if it was the only one, and
  `IdMatches`, because it removes by id; `PendingRegistered` needs `IdMatches` and
  `Unaccepted`, because a slot may only be filled for a connection that holds none.
  One lemma per group of handlers shows that its actions preserve `IInv`. From it follow the
  action properties `MisremovalCause`, `RefusedOnlyWhenFull` and `FrameAfterUpgrade`, and the refinement
  `ImplementsTable`: every step is one addition, one removal or a stutter of
  `ClientManager`.
* **`ClientThreadsProofs`** begins with the table alone: the least free id exists (by well-foundedness of the
  naturals over the finite id space), so `addClient` is well defined; from that the types, the
  match of keys and ids, and the least free slot. Then the threads: whoever is in the middle of a change holds the mutex (`Holds`), so what it
  found when it took the mutex still holds: the new connection is in no slot (`Adding`), the entry to
  be erased is in its own (`Erasing`). With the loop invariant this gives the id that the
  abstract table chooses, and with it the refinement `ImplementsTable`: every
  step is one whole addition, one whole removal or a stutter. `TypeOK`, `IdMatches`
  and `LeastFreeId` then follow from those of the table. A second invariant, `HInv`, follows
  deleted Clients: one that is still in the map is about to be erased by the thread that deleted it, and
  an entry in the hands of a thread is there until *another* one deletes it. From it,
  `UndefinedNeedsTwo`.
* **`HandshakeProofs`**: types; the access to an empty header vector happens only after a read
  that ended inside a header line; once the parser waits for the last line feed after a 400, no
  read is ever answered 101. `RetryNeedsMethod` compares the parser with one that is reset for each
  read: its invariant `RInv` says that as long as what was read is the beginning of a request, the two are
  `Apart` unless the old one started in or before the method. Apart means that the old one
  gets no further than the version or a header's name, or meets `headers.back()` without a header. The
  edges of the parser are enumerated by lemma (`RequestEdges`, `TokenEdges`, `VersionEdges`,
  `HeaderNameEdges`), which is as much a check of the `switch` as the proof of the invariant.

  `AcceptKeyCorrect` is about `AcceptKey` by itself (`AkSpec`): the reply carries what RFC 6455
  asks for, for every key a read can hold; `HashFollowsStandard` is the invariant it rests on. A
  sum in 64 bits has in its lower half the sum of the lower halves (`PlusLow`), and `SHA1_ROL`
  masks what it shifts down (`LowRol`), so the upper halves never come down. The code adds the
  five terms of a round in another order than the standard: addition with carries is associative
  (`PlusAssociates`, by induction on the places). `AkInv` is inductive and has three parts.
  `HashInv`: between two blocks the lower halves of the digest are the hash value. `RoundInv`:
  within one, the variables `a` to `e` by their changing roles are the working variables, and the
  ring of sixteen words is the end of the schedule. `PlaceInv`: what was not hashed yet is the end
  of the message (`Left`), and when no block is to come, the blocks are as many as the padded
  message has. That last part is where the sizes at which a block overflows matter: `FinalPiece`
  says what `final` pads with, from 56 bytes on and below, `LastWords` and `LengthWords` that the
  length is in the right block. At the end the groups of six bits are those of RFC 4648
  (`CharsAreGroups`). TLC checked `AkInv` with the keys of `MCHandshake` before it was proved.
* **`DispatchProofs`**: what a step can do with the packets comes down to four effects: nothing, push, take
  one, end one (`CallEffect`, `Effect`). The invariant `QInv` says that the queue holds the highest numbers in order
  (`Numbered`), that what was popped is done or in the hands of exactly one thread (`Handed`), and that
  for whatever is done one processor has gone on to a later packet or to none (`Later`). `OncePerPacket`
  is the first two; `BoundedReordering` counts: the older packets still waiting inject into the
  processors without that one. `MutualExclusion` needs of this only where threads are.

  The table comes next. `SearchAnswers` says what the caller learns from `binarySearchKey` on any sorted
  table (`Answers`): the list of the key, the place for a new one with smaller keys before and greater ones behind it,
  or why it went astray. Its proof is an induction over the recursion: the calls for fewer
  positions (`span`) determine a call (`CallsLess`, from which the recursive function exists) and, if they answer, it answers
  (`CallAnswers`). The provers take no predicates, so induction is stated for a set of numbers
  (`StrongInduction`, from the well-foundedness of the naturals). `InsertKeeps` and `EraseKeeps` say what
  `insert`, `push_back` and `remove` then make of the lists. `DInv` is inductive: it adds to the above
  the types and `TInv`, that the table is sorted, holds what the owners have registered and nothing else unless it was added
  twice, each key once, that an owner's thread touches its own keys only and not after their
  deletion (`Holds`), and that handlers come from the table and run under the mutex. No part is
  inductive alone: the table stays sorted because searches answer, they do so because it
  is sorted, and an entry goes with its only copy. TLC checked `TInv` on the constants of the `dispatch` run before it was proved.
  `TableSorted`, `NothingDangles`, `CrashesExplained` and `DispatchComplete` follow from it.
* **`FrameParserProofs`**: types, for every set of bytes, every size of reads and every division of the stream. The
  number of a state stays within its field, a header in progress agrees with its own length
  byte (`StreamOK`), and the payload never exceeds what was read. `DeliversFirst`, `MissesOnlyEmpty` and `PacketIntact` follow from a
  second invariant, `SInv`: in a read that began between two frames, parser and stream are at the same place of the
  first frame (`InFrame`, one disjunct for each state of the parser), or a length of 0 in an extended
  field left the parser waiting (`Lost`), or the frame is delivered (`Delivered`).
* **`PacketsProofs`**: first the packets, for any number of clients, ids, queued packets and
  outstanding writes, and whatever bytes arrive. `PInv` is the invariant: a connection carries the id of its slot; the id in a
  queued packet is 0 or that of its asker (`QueueInv`), which holds because a connection gets its id
  once; a peer that nobody disturbed has at most one question in the queue, or one answer on its way, and never both
  (`PoliteInv`); a kept packet answers nobody and names who it was given until it is broadcast (`KeptInv`). TLC checked
  `PInv` with three writes and two queued packets before it was proved. `PoliteNotOverlapped` is a part of it. The action
  properties follow from what a call can send (`WhatIsSent`): an answer, the kept packet, or a broadcast. What a *client*
  learns needs the messages: `HeaderParsed` and `A1Parsed` say that what the server serialises is parsed back, by
  giving the recursive function behind the fold over its tokens in full. Then `binarySearchKey`: what lies outside
  the bounds was ruled out; hence a search that returns is right, for any sorted vector.
* **`MessagesProofs`**: the loops of the generated classes (over the tokens of a stream, the sizes of tokens and of
  packed numbers) are folds, and the library's fold is a `CHOOSE` of a recursive function. `FoldsExist` and
  `FoldsUnique` show by induction, stated for a set, that the function exists and is determined; from that come the equations to
  compute with, one for the empty sequence, one for a sequence with a token more (`MergedAppend`, `WireSteps`, `PayloadSteps`) and
  one for two streams in a row (`MergedConcat`, `WireJoin`). Each class then has the same lemmas: a message is a record in which a
  field without its bit has its default value (`InMessage`, ...), which is what `Clear` and `ByteSize` rely on and what
  a call must not break; a token that is written sets the field it was written from (`InReads`); so to parse what a message is written as is
  to merge the message (`InParsed`), and `ByteSize` counts it (`InMeasured`). `MessagesInv` says that both
  objects are messages of their class. It is inductive: accessors, and a turn of the parser with any token (`InTurns`), keep
  it. `RoundTrip`, `MergeIsConcat` and `ClearForgets` are consequences. They hold for strings, numbers and
  repeated fields of any length, where TLC has two of each.
* **`ShutdownProofs`**: types; and an invariant that holds as long as nothing undefined happened (`Core`): a
  destructor that did not overrun the io thread finds it outside of handlers with the service
  stopped, so that none begins until `run` was left; a handler that runs while the server is up finds all its
  objects (`IoInv`); pointers without a value mean that nothing was ever accepted (`BoundInv`); a key that was deleted is not
  in the `PacketManager` (`KeyInv`). `UndefinedCause` and `DeletedOnce` are the steps that leave `Core`.

Only model-checked: liveness (`SlotReclaimed`, `MutexReturned`, `LockReturned`, `ReturnsAboveFirst`, `ShutdownCompletes`), which
is beyond the prover. Every other property of a passing run is a theorem.

## Not modelled

* Wording of replies and logs; the text of a status line is one symbol. Memory that is never freed.
* The TLS layer and Boost.Asio, except for what their completions report. That `async_write_some` may
  write a part of a frame, or read the temporary it is given (`TCPConnection.cpp:156`) after the call, is a choice of
  the library and of TLS that would decide any property about it. `PoliteNotOverlapped` is about the buffer of
  replies, `sendStorage`, and about how many writes are outstanding, not about that temporary.
* What reaches a packet of an unmasked frame, or of one with an extended length: `PacketIntact` is about masked frames
  of up to 125 bytes, and the other kinds are known not to arrive as they were sent (`dataframe_parser.cpp:306`,
  `TCPConnection.cpp:114`).
* Of a frame that is read: its opcode, which is any in `TCPServer`, and the fin bit, which the parser ignores.
* The handlers that end the process do so in `TCPServer` and `Packets`; `Shutdown` leaves them out.
* Of packets: `convertToOPacks`, which needs recipients that no `IPacket` can carry (`HeaderManager.cpp:138`
  throws first); an `OPacket` without data, for which `encryptHeader` throws; the variants for big endian
  hosts, which always throw; the functions of `PacketManager` for vectors of keys, which repeat the one for
  a key.
* Of the generated code: descriptors and reflection, which the program does not use. The repository has it
  twice, byte for byte; one copy is mapped.
