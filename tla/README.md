# Verification of the AVL receiver

TLA+ specifications of `404minds/avl-receiver`, a Go server that accepts TCP
connections of vehicle trackers (five binary and text protocols), keeps a
websocket connection for a sixth one, converts what the devices report to one
record type and hands the records to a gRPC store or to JSON-lines files. The
modules are checked on small instances with TLC; the theorems are checked with
TLAPS for all values of the constants.

Paths below are relative to `src/`.

| module | what it is |
|---|---|
| `TcpHandler` | `HandleConnection`, the three shared maps, `SendCommand` |
| `MCTcpHandler`, `TcpHandlerProofs` | its small instances, its theorems |
| `DeviceLogin` | `attemptDeviceLogin`: five `Login` functions on one buffered reader |
| `DeviceLoginProofs` | its theorems, among them that it implements `TcpHandler`'s login |
| `AsyncStore` | queues, close channels and workers of one connection's store |
| `StatusPipe` | what a connection's store promises about records and responses |
| `AsyncStoreProofs` | that `AsyncStore` implements `StatusPipe` and `TcpHandler`'s service |
| `Bytes` | reading and writing of numbers, the two checksums |
| `Fm1200Packet` | packets of FM1200: codecs 8, 8E, 12, and what is stored of them |
| `Fm1200Session` | `ConsumeStream` of FM1200 and a tracker that keeps its batches |
| `Delivery` | what such a tracker is promised |
| `MCFm1200Session`, `Fm1200SessionProofs` | small instance, theorems |
| `Gt06Packet` | packets of GT06 and what is stored of them |
| `Gt06Session` | login reply and `ConsumeStream` of GT06, and a device with heartbeats |
| `MCGt06Session`, `Gt06SessionProofs` | small instance, theorems |
| `IntelliTracPacket` | binary and ASCII messages of IntelliTrac A |
| `Obdii2gPacket` | lines of OBDII2G with their OBD parameters |
| `StreamSession` | `ConsumeStream` of IntelliTrac A and of OBDII2G, and their devices |
| `MCStreamSession`, `StreamSessionProofs` | small instance, theorems |
| `HowenMessage` | JSON messages of the Howen platform and what is stored of them |
| `WebSocketLoop` | `startWebSocket`, `HandleMessage`, `ConsumeConnection` |
| `MCWebSocketLoop`, `WebSocketLoopProofs` | small instance, theorems |
| `SequenceFacts` | facts on sequences of anything and of bytes, for the proofs |

To check: `tlc -config <cfg> <module>` for a run of the table under "Runs",
`tlapm <module>` for the modules whose names end in `Proofs`, and `SequenceFacts`.

## 1. Inventory

### Components, their state and their operations

**Receiver process** (`cmd/receiver/receiver.go`). `main` starts three
goroutines: the TCP accept loop, the gRPC server and the websocket loop.
Each accepted socket gets a goroutine of its own. State: flags, one client of the
remote store, one `TcpHandler`, one `WebSocketHandler`.

**TCP handler** (`internal/handlers/tcpHandler.go`, `handlers.go`). State shared
by all connections: `connToProtocolMap` and `connToStoreMap` by remote
address, `imeiToConnMap` by IMEI, and the mutex `mu`. `HandleConnection` sets the
deadlines, logs the device in, records it in the maps, makes its store, starts the
store's two workers, writes the acknowledgement, starts a goroutine that pushes the
deadlines forward every 5 s, and runs the protocol's `ConsumeStream` until it
returns. A deferred function signals the workers, closes their channels and
deletes the map entries. Correct when: the maps name what is served and nothing
else, under every order in which connections of one device come and go; nobody
waits with `mu` held; a connection whose peer is gone is released.

**Device login** (`attemptDeviceLogin`, `VerifyDevice`, the `Login` of each
protocol, `internal/protocols/protocol.go`). The protocols are tried in a fixed
order on the same reader until one does not answer `ErrUnknownProtocol`.
State: the reader's buffer. Correct when: a protocol that declines has not taken
bytes, each device reaches its own protocol, and `ConsumeStream` starts at a
message boundary.

**SendCommand service** (`receiver.go:123-160`). A gRPC call looks a device up by
IMEI, without the mutex, and writes a command to the socket it found. Correct when
the command reaches the device it was meant for, whatever happens to connections
meanwhile, and each call is answered truthfully.

**Asynchronous stores** (`internal/store/remoteRpcStore.go`, `jsonLinesStore.go`,
`store.go`). Per connection: `ProcessChan`, `ResponseChan` (200 each), two close
channels, a context, a `Process` and a `Response` worker. Correct when records and
responses are handed on once and in order, workers live as long as the service
and end after it, and the cleanup never blocks.

**WebSocket handler** (`webSocketHandler.go`) and **websocket loop**
(`receiver.go:191-275`). One message loop with one store and one worker; the loop
around it fetches a token, dials, subscribes and dials again when anything fails.

**Protocol sessions** (`internal/protocols/*`). `ConsumeStream`, framing, records,
acknowledgements and command responses of FM1200, GT06, TR06, IntelliTrac A,
OBDII2G; `ConsumeConnection` of HOWEN. State: IMEI, device type, login
information. Correct when the stream stays aligned with message boundaries, what is
acknowledged has been queued, and lengths and checksums are computed as the
devices do.

**Checksums** (`internal/crc`), **store client** (`internal/store/client.go`),
**errors, logger, generated code, test store**: no state of their own.

### How they interact

```
 accept loop --go--> HandleConnection --call--> Login x5, VerifyDevice --rpc--> store
                        |  |   |
            mu, 3 maps <+  |   +--chan--> Process, Response workers --rpc/file--> store
                 ^         +--go--> deadline ticker
                 |
   SendCommand --+ (lookup without mu) --write--> the same socket
```

### What is hard here

* Handlers of one device overlap: a tracker reconnects, often from the same NAT
  address, long before its old socket is noticed to be dead.
* `SendCommand` reads a map while others write it, and uses the result later.
* Cleanup runs in a deferred function that itself sends on channels and takes a lock.
* Three goroutines per connection must end, in the right order, on every path;
  one of them calls a store under a context nobody cancels.
* The login is a conversation between five recognisers and one stream, with bytes
  arriving in arbitrary pieces.
* A nil store (failed `Mkdir`) and a failed `OpenFile` are panics on a goroutine
  without `recover`.
* Streams have no resynchronisation: one wrong length or one lost line end shifts
  everything after it, and damage is not always noticed.
* A device gives up what is acknowledged; an acknowledgement may be lost after the
  records are queued, and an older handler may still be queueing the same batch.
* The websocket loop has many paths back to its next dial, each with a socket to
  close and a worker to stop, and a token that may have gone stale.

`PROJECT.json` lists these hazards at their lines.

## 2. The model and the code

### TcpHandler

A handler is named by its connection; `pc[c]` is the place its goroutine has
reached.

| place | `tcpHandler.go` | actions leaving it |
|---|---|---|
| `new` | not accepted | `Accept` |
| `login` | 52-65, 229-289 | `LoginReads`, `LoginFails` |
| `verify` | 192-209 | `VerifySucceeds`, `VerifyRefuses` |
| `lockLogin`, `recordLogin` | 67-79 | `Lock`, `RecordLogin` |
| `makeStore` | 81-104 | `MakeAsyncStore`, `OpenFilePanics` |
| `lockStore`, `recordStore` | 128-131 | `Lock`, `RecordStore` |
| `ack` | 133-151 | `WriteAck`, `WriteAckFails` |
| `serve`, `blocked` | 159-167 | `Backpressure`, `WorkerDrains`, `ConsumeReturns` |
| `closeStore` | 106-110 | `CloseStore`, `CloseNilStorePanics` |
| `lockClean`, `clean` | 111-126 | `Lock`, `CleanMaps` |
| `finish` | deferred cancel and close | `Finish` |

The maps are functions with `None` for an absent key. An entry of `imeiToConnMap`
holds a socket and a protocol object; the protocol object is named by the
connection it was made for, so that a mixed-up or torn entry is visible. A call of
`SendCommand` is `idle`, at its `lookup`, about to `send`, or `replied`; the steps
between are where other goroutines run. The unlocked lookup is undefined behaviour
when it overlaps a write. Its outcomes are all modelled: it sees the map before or
after the write, the runtime aborts the process (`LookupAborts`), or the two-word
entry is torn (`LookupTears`).

A panic on a handler's goroutine ends the process: `process = "crashed"`, after
which nothing happens. It is not restarted in the model, since no state survives it.

Abstractions, and where they lose something:

* Login and stream are reduced to how they end; `DeviceLogin` has the login, the
  session modules have the streams. A panic during the login is recovered
  (`tcpHandler.go:230`) and is one of the errors of `LoginFails`. A panic inside a
  `ConsumeStream` is not modelled.
* `blocked` is a `ConsumeStream` that waits for room in a full queue. OBDII2G
  drops the record after 100 ms instead, so for it the place is an
  over-approximation; `AsyncStore` tells the two apart.
* `ConsumeReturns` is possible at any time: end of stream, a read error and a
  malformed packet have the same effect here.
* Deadlines appear as what they make possible: `LoginFails` needs no act of the
  peer, and `WriteAckFails` and `CommandFlushFails` may be a write whose deadline has
  passed. The ticker is `started` by the acknowledgement and `ticking` once it has
  set its first deadlines (`Tick`); from then on no deadline passes. How it defeats
  read timeouts needs a clock (see section 6).
* A peer is `open`, `full` or `gone`, the latter also once the handler has closed the
  socket. A `full` one has stopped reading until the
  buffers between are full (`PeerStopsReading`), and need never read again: a write to
  it neither succeeds nor, behind the ticker, fails. `WaitsForPeer` is a call in this
  position. It returns when the peer goes away or the handler closes the socket. The
  acknowledgements of a `ConsumeStream` block in the same way, which here is a `serve`
  that does not return.
* A remote address can be taken again once the peer of its former socket is gone,
  which is what TCP allows; the handler may notice much later.

### AsyncStore

One connection's handler, `Process` and `Response`. `setup` fixes who they are:
`RemoteRpcStore` or `JsonLinesStore`, the TCP or the websocket handler, a protocol
that waits for a full queue or OBDII2G that drops. Channels carry the numbers of
the records. A close channel is a count of buffered tokens and whether it is
closed; a `select` with several ready cases takes any of them. Differences that
matter and are kept: the capacity of the close channels is 1 for the remote store
and that of the data channels for the JSON one; `JsonLinesStore.Response` listens
on `CloseChan`, the channel meant for `Process`; only `RemoteRpcStore` looks at the
context; `Process` saves under `context.Background()` and `Response` under the
connection's context; the websocket handler sends one token and does nothing else.

The abstract specification `StatusPipe` says what a store promises: each accepted
item is handed to the backend once, in order; a worker stops only after the
connection has begun to close, and then whatever is still queued is lost. Both
queues implement it, with the refinement mapping `phase <- Phase(worker)`.

Seen as a handler (`Place`), `AsyncStore` also implements `TcpHandler`: `serve` and
`blocked` are its stream with and without a queue that is full, `closeStore` is the
deferred sends and closes, and every step of the queues, of the workers and of a
store that hangs is a step of `TcpHandler` or none (`ServiceIsHandlers`). So what
`TcpHandler` says of the end of a service is what the channels really do.

### DeviceLogin

A stream is described by what the five `Login` functions can tell of it: its first
two bytes, whether the next two are `00 02`, and whether a login message of the
opening's protocol follows. `sender` is the device behind it, used by properties
only. `fetched` counts bytes the buffered reader has got from the socket,
`consumed` those handed out; peeking needs `fetched` and leaves `consumed` alone.
`tried` is the index in `allowedProtocols`, `step` the place: deciding on the head,
getting the rest, verifying, accepted, rejected. Bytes arrive in pieces (`Fetch`)
and may stop anywhere (`ReadFails`: end of file, reset, deadline).

Details of the code that the abstraction relies on: OBDII2G peeks at 40 bytes and
leaves the line in the reader, where `ConsumeStream` reads it as the first record;
FM1200 peeks and returns a number of bytes to skip; GT06, TR06 and IntelliTrac
read. The error branch of GT06 for a failed read of its two head bytes cannot be
reached behind IntelliTrac, which has already peeked at four. A `7979` frame is
given the length of a `7878` one, and frames of GT06 and TR06 have the length of a
login frame: a stranger's frame of another length ends in the same two ways,
`ReadFails` or `LoginFails`. Devices' own message sizes are external: they are not
in the code.

`Place` maps it to `TcpHandler`: all the reading and declining is `login`, and one
`LoginReads` or `LoginFails` at its end (`LoginIsHandlers`).

### Bytes and packets

The packet modules work on real bytes: a parser takes what has arrived and returns
a message with its size, `Waits` when the stream ends inside it, or `Ends` when the
code returns an error. Each field is read at the offset and with the width the
code uses; a chain of reads is a chain of `Advance`, and a read past the end is
`Eof`, as the error of `binary.Read` is. Lengths that the code keeps in bytes wrap
at 256. The tables of `internal/crc` are given by their polynomials
(`CrcTeltonika`, `CrcWanway`). Fields that are stored are kept as integers;
floating-point scales are left out, conversions that lose or change something
(integer divisions, a byte multiplied in a byte, levels and percentages, flags)
are not.

### Fm1200Session

Per connection: `read` (`consumeMessage` on what has arrived), `queue` (records of one
packet into `ProcessChan`, one by one, in time order), `check` (a codec 12 response is
queued, its checksum is next), `ended`. `TakeRecords` is `fm1200.go:160-252`,
`QueueRecord` and `WriteAck` are 253-270, `TakeResponse` and `CheckResponse` 206-240.
Records of one time stay in any order, as `sort.Slice` is not stable. A test of the
repository expects the order of the packet instead (`RecordsLeaveInPacketOrder`), so
the batches of run `fm1200` are in the order of time. The tracker, which is external,
keeps a batch until it reads an acknowledgement with its number of records, sends it
again over the same or a new connection, answers commands, and may damage a packet or
break a connection with bytes lost. The handler of an older connection goes on beside
the newer one.

### Gt06Session

Per connection: `login` (the login packet and its reply), `read`, `reply` (a
heartbeat is replied to before it is queued), `queue`, `ended`. `zone` is the time
zone of the login, with which later packets are read. The device waits for the
replies to its login and its heartbeats, and repeats a heartbeat that got none over
a new connection; it sends everything else once. A damaged byte, a broken
connection with bytes lost, and messages that the receiver refuses are its faults.

### StreamSession

One connection: `read`, `queue`, `ack`, `ended`. `format` is that of the login:
IntelliTrac binary (four kinds of messages, told apart by two bytes), IntelliTrac
ASCII (lines, with the heartbeats in between that have no line end), OBDII2G
(lines of fields; an element of the stream is a field, its text read as a number
or as OBD parameters). A command may be written between any two frames.

`wire` is what was sent and not read; a turn of `ConsumeStream` (`consume`) waits for
more of it, ends the connection, or takes a message off its front (`Behind`). In the
code a turn may find only part of that yet: it then waits, or reads what it would read
of the whole, which is lemma `ConsumeBeginning`. The definitions from `Stream` to
`StreamCodec` are not code: they say what the device's messages should be taken for.
`Stream(f, n)` is the bytes of the first n messages of a format, `Statuses`,
`Responses` and `AcksFor` what they should put into the queues and get as
acknowledgements. `Starts(f)` are the places where a turn may begin as long as nothing
is damaged: behind a message, and in ASCII behind any line end, since a heartbeat has
none of its own and its bytes may read as one.

`StreamCodec` is the assumption that the code takes each message for what it
should: a turn that begins at one of these places and reads a message ends at
another, with what the messages between the two say (`ReadsWhole`), and one that
waits there leaves nothing unsaid of the messages that are there
(`WaitsForNothing`). It is a computation over the bytes of the instance, which
TLC makes before the run. With ASCII it cannot be said of each message alone, as it
is of GT06 and FM1200: a heartbeat is glued to the line behind it.

### WebSocketLoop

`place` is where the one goroutine of `startWebSocket` is: `token`, `dial`, `sleep`,
`login`, `response`, then in `HandleMessage` `store`, `consume`, `queue`, `signal`,
`close`, and `exited` (`log.Fatal`) or `crashed` (a panic nobody recovers).
Connections are numbered; each keeps its queue and its worker, which runs on when the
loop has gone round. The deferred `Close` of the loop (`receiver.go:238`) is held
until the loop ends, which it does not, so it is no step. The platform answers a login
by its token, feeds its messages, may break a connection and end its session with it,
may send what cannot be parsed; the store may hang, and a save may fail:
`remoteRpcStore.go:40-43` logs the error and goes on with the next status
(`ProcessFails`). `tried` are the statuses the worker has given to the store, whatever
it answered. All faults come out of one bound, and each connection that ends and each
failed save takes one.

## 3. Runs

| run | configuration | question | states |
|---|---|---|---|
| `registry` | `MCTcpHandler_registry` | do the maps name what is served? | 1,383,416 |
| `commands` | `MCTcpHandler_commands` | does a command reach its device? | 1,148,982 |
| `liveness` | `MCTcpHandler_liveness` | is everything released and answered? | 165,576 |
| `race` | `MCTcpHandler_race` | does a lookup avoid the writers? (no) | |
| `not_found` | `MCTcpHandler_not_found` | does "Device not found" mean so? (no) | |
| `flow` | `AsyncStore_flow` | do items flow, and do workers end? | 36,879 |
| `login` | `DeviceLogin_routing` | which protocol takes which stream? | 4,593 |
| `ascii_heartbeat` | `DeviceLogin_ascii` | is an ASCII heartbeat 8 bytes? (no) | |
| `fm1200` | `MCFm1200Session` | does the store get what was measured? | 12,091 |
| `gt06` | `MCGt06Session` | does the queue hold what was sent? | 14,243 |
| `stream` | `MCStreamSession` | do streams stay aligned and answered? | 41,149 |
| `websocket` | `MCWebSocketLoop` | does the feed resume, is anything left? | 286,768 |

Deadlock is checked in every run. Each module has an action `Rest` that names the
states in which the system may come to rest, so a deadlock report means a place
where nobody expected to wait.

### What they show

* `registry`: `MutexDiscipline`, `RegistryNamesServedDevice`,
  `AddressEntriesHaveOwner` and the action property `EntryOutlivesOlderHandlers`:
  an old handler's cleanup never takes a reconnected device's entry away, although
  it deletes by remote address first and both may share one.
* `commands`: `CommandReachesItsDevice`, also for a torn read. The torn entry can
  combine the socket and the protocol object of two connections, but of one device.
* `liveness`: `GonePeerIsReleased` (with its ticker) and `LoginIsDecided`. Exceptions
  are stated in the formulas: the process has died, or a handler waits for a store
  that hung (`Stuck`). `CallsAreAnswered`: a call remains unanswered only if the
  process dies, or if its device stays connected for ever without reading
  (`[](WaitsForPeer(k))`): then `Flush` (`receiver.go:149`) waits behind a write
  deadline that the ticker (`tcpHandler.go:145-151`) moves every 5 s. A connection
  that is reset, closed or replaced in the meantime does not keep a call waiting.
* `flow`: `RecordsFlow`, `ResponsesFlow` (refinements of `StatusPipe`),
  `ServiceIsHandlers` (refinement of `TcpHandler`), `WorkersEnd`,
  `BackpressureClears`, `AcceptedIsAttempted`, and the parts of `IInv`:
  `QueuesInOrder`, `CleanupNeverBlocks`, `WorkersOutliveService`.
* `login`: `DeclinedLeaveStream`, `GenuineLoginIsRouted`, `LoginNeedsNoMoreBytes`,
  `StreamStartsAtBoundary`, `AcceptedTypeSpeaksProtocol`, and `LoginIsHandlers`
  (refinement of `TcpHandler`).
* `fm1200`: `StoredAsReported`: on each connection the store reads what was
  measured, once and in order from the batch the connection began with, in spite
  of damage, losses, and an older handler that still queues the same records.
  `AckedAreQueued` and `Delivered` (the refinement of `Delivery`): a tracker gives
  up no batch that the store has not been given. `WrongResponseIsLast`: a response
  queued with a wrong checksum is the last thing of its connection.
  `EverythingIsAcked`: every batch is acknowledged in the end, a command with its
  own preamble and its answer between the batches notwithstanding.
* `gt06`: `QueueIsWhatWasSent`: packet by packet, up to the first damaged one,
  nothing is skipped, merged or made up, whatever the length bytes wrap to.
  `ReplyConfirms`: a device that reads a heartbeat's reply may forget all it sent
  before; not the heartbeat itself, which is queued after its reply.
  `EverythingIsSent`: no heartbeat waits for ever.
* `stream`: `QueuesAreWhatWasSent`, `AckConfirms`, `MessagesAreAnswered`, with text
  messages, heartbeats whose bytes read as a comma and a line end, lines that
  are no packets, unknown kinds, and dropped records between the others.
* `websocket`: `FeedIsAccountedFor`: each status is given to the store once and in
  order, or is in hand, or in the queue its worker left. What the store makes of it is
  another matter: a failed save loses its status, and no other. `FeedResumes`: after
  the faults there is a connection whose whole feed was given to the store, if the
  token is that of the platform's session. `LeftWorkersEnd`, and `IInv`: no socket and
  no worker is left behind on any path back to `Dial`, and the send of the close token
  never blocks.

### What the violated ones show

* `race`: `GetConnInfoByIMEI` (`tcpHandler.go:298`) takes no lock. A lookup is in
  progress while a handler is in the critical section that changes the map.
* `not_found`: a device connects twice; the second login overwrites the IMEI's
  entry; the second connection ends first and deletes it. The first connection
  is still served, and `SendCommand` answers "Device not found".
* `ascii_heartbeat`: `Login` tests bytes 2-3 for `00 02` before it tests bytes 0-1
  for `FA F8` (`intellitrac.go:56`). An ASCII heartbeat with sequence id 2 is read
  as a binary one of 22 bytes. `TakenForBinary` excludes this case from
  `LoginNeedsNoMoreBytes` and `StreamStartsAtBoundary`; it would violate both.

### What comments and a test say of the data otherwise

In six cases a comment or a test of the repository says of a stored value what the code
does not do. The modules have them as the code has them, but the instances of the runs
above leave them out: `fm1200`, `gt06`, `stream` and `websocket` claim nothing of
them. Each case has a property and a configuration of its own, with one message or
one batch, which are no runs of the table, as there is nothing to explore:
TLC finds the property violated at once.

* `MCFm1200Session_unsorted`: `consumeMessage` sorts the records of a packet by time
  before it queues them (`fm1200.go:248`); the data packet test (`fm1200_test.go:66`,
  78, 90) asserts that they leave in the packet's order, newest first.
* `MCGt06Session_ignition`: `ACCHigh` compares one bit with another (`gt06.go:677`)
  and is never true; the comment of the line says bit 1. A heartbeat with the bit set
  is stored with the ignition off.
* `MCGt06Session_alarm`: the case of an alarm in `ToProtobufDeviceStatus`
  (`gt06/types.go:320-337`) is of a pointer, and the parser returns a value, so
  position, ignition and battery of an alarm are lost.
* `MCStreamSession_fuel`: the last parameter of an OBDII2G line still has the `*` and
  the checksum behind it, though the comment (`obdii2g/types.go:302`) has the
  parameters end before the `*`. A fuel level in this place is stored as zero.
* `MCStreamSession_odometer`: `handlePositionalData` of IntelliTrac divides the
  odometer by 1000 (`intellitrac.go:234`); the comment on the field stored
  (`intellitrac_a/types.go:109`) says metres.
* `MCWebSocketLoop_distraction`: the vehicle status of a HOWEN alarm is attached for
  four of its flags (`howen/types.go:464`), and the comment says "if populated". A
  driver distraction alarm loses the status it sets.

### Met while modelling, without a run

These too are in the modules as they are in the code; what the repository says of
them is nothing, or too vague to check.

* GT06 and TR06: `SendCommandToDevice` writes nothing and returns nil, so
  `SendCommand` flushes an empty buffer and reports success (`NothingToFlush`).
* FM1200: a temperature is multiplied by 10 in a byte and wraps; the battery level
  of more than 4200 mV falls again; a command response is queued before its
  checksum is compared.
* GT06: the mask for charging of a heartbeat has no effect either, but nothing of it is
  stored; the comparison of the checksum is commented out, so damage inside a
  packet is stored; a message type that is not known, and a packet longer than its
  length byte, end the connection (the latter by its stop bits only).
* IntelliTrac: after the login, ASCII heartbeats are not acknowledged, and are read
  as the beginning of the next line; AT responses of ASCII devices are not queued.
  A heartbeat with enough comma bytes would make its line a position.
* OBDII2G: checksums are not compared; a lost line end makes one packet of two
  lines; a command ends with a backslash, `r`, backslash, `n` (`obdii2g.go:159`).
* HOWEN: a number of satellites written as a decimal is stored as 0.
* Websocket loop: a failed HTTP login ends the whole process with the TCP listener;
  the token is fetched once, so that a platform that ends its session refuses every
  later login, which the loop does not notice, since it takes any first message
  for the response; one message that cannot be parsed ends the connection; records
  left in the queue are lost when the worker takes its close token first; after a
  failed login the loop dials again without the delay it has after a failed dial.

### Bounds, and why they are enough

* Connections: three in `registry` (an old one, a newer one, and one between or
  after them, sharing or not sharing an address), two in the others. An entry is
  touched by the connection it names and by one that takes its place; the third
  is there to reuse the address of either. The theorems hold for any number.
* Addresses: two, so that connections both share and differ. Devices: one in
  `registry`, because entries of different devices are independent except through
  `EntriesOf`, and two in `commands`, where mixing them up is the question.
* Calls: one. A call writes nothing that another call reads.
* Stores: `commands` has both, with the panics of the local one. `registry` and
  `liveness` have the remote one, whose handlers do all that the local one's do but
  panic, and a panic ends the process.
* `Capacity = 2`, `MaxRecords = 4`, `MaxResponses = 3`: both queues fill, a record
  is offered on a full one, and at least one more follows.
* `Fetches` in `login` are the sizes at which some comparison changes, and their
  predecessors. The theorems hold for every subset of `Nat`.
* `fm1200`: two connections, one giving up on the other; two batches, one of codec
  8 with two records in the order of time and with a property of each width, one of
  codec 8E with a VIN; one damaged packet at the bytes of length, codec, count, time or
  property; one command with its answer. The last connection is not damaged and not
  given up, or nothing could be promised.
* `gt06`: six messages: a position, a heartbeat, a packet longer than a byte can say,
  a packet with the long start, another position, and a second heartbeat that confirms
  what came between. The bits of the terminal information that a comment reads
  otherwise are clear, and there is no alarm. Three connections and one fault: the
  refused packet takes one connection, the fault another.
* `stream`: four or five messages per format, with every kind the code knows and
  one it does not, two faults (one message damaged and a break, or two damaged),
  one command. The OBDII2G line ends with a negative response, which has no value
  either way; the odometer of the IntelliTrac position is 0.
* `websocket`: a queue of one and one message in flight, so that the reader waits
  for the worker and the platform for the reader; three messages, one of them
  without a status and an alarm whose status is attached; two
  faults, so up to three connections, or a failed save and two.

* Symmetry: connections and addresses are interchangeable in `registry` and
  `commands`, which check safety only. `liveness` uses none.

### Fairness, and why the code justifies it

* `WF(Proceeds(c))`: a goroutine that can run is scheduled. The steps are those
  that do not wait for the device. `LoginFails` is among them because
  `SetReadDeadline` at line 52 is not refreshed during the login: after 20 s a
  pending read fails. `Verify` and `WorkerDrains` are disabled while the store
  hangs, so fairness does not promise an answer that the code does not bound. (A
  worker that is between two saves may take one more item after the store hung;
  nothing obliges it to.)
* `SF(peer gone /\ ConsumeReturns(c))`: when the peer is gone only finitely many
  bytes are left, so `ConsumeStream` meets the error. It is strong fairness because
  `Backpressure` disables it between records.
* `WF(TickerReturns(c))`, `WF(SendCommand(k))`: a goroutine that can run is scheduled.
  A call that waits for a peer that does not read cannot run: no step of it is enabled
  once the ticker is ticking. Nothing obliges a peer to read again, nor to go away.
* `AsyncStore`: `WF` of `Handles`, `Process` and `Response`, the three goroutines.
  Nothing obliges the device to send, or `StoreHangs` not to happen.
* `DeviceLogin` has no liveness property; `LoginIsDecided` is the one of the whole.
* The session modules and `WebSocketLoop` state weak fairness as
  `[]<>~Runnable \/ []<><<A>>_vars` with the condition `Runnable` written out,
  which is what `WF` means when `Runnable` is `ENABLED A`: TLC would parse the bytes
  of every state again for `ENABLED`. `fm1200`: each connection's goroutine, the
  tracker's own steps, and its loss of patience, without which an acknowledgement
  lost with a connection would be waited for. `gt06`, `stream`: the handlers and the
  device; no fault. `websocket`: the loop, the workers together, the platform; no
  fault, a failed save included. `FeedResumes` has as its premise that the token, the
  store and the process are well infinitely often, which with bounded faults is from
  some time on.

## 4. Proofs

Assumptions: the store types are among `local` and `remote`, `None` is not a
connection, address, device or entry, `Commandable` is a set of devices,
`Capacity` is positive, the bounds are naturals, `Fetches` is a set of naturals
(`Fm1200Assumption`, `Gt06Assumption`, `LoopAssumption`, ...: what devices send is
bytes; `Fm1200Codec`, `Gt06Codec`: and it is read, alone, as what they meant;
`StreamAssumption`, `CommandAssumption`, `StreamCodec`: see below). TLC evaluates each
of them in the runs.

**TcpHandlerProofs.** `Invariance` proves `Spec => []IInv` for any sets of
connections, addresses, devices and calls. The registry invariants are not
inductive alone. `MutexDiscipline` is needed since otherwise two handlers could be
between their look at a map and their write. `HandlerFacts` (a handler has an
address once accepted and a device once recognised) makes the map updates well
typed. `CallFacts` says that what a call has looked up is past its login, so that
no later `LoginReads` can change its device. Most steps move one handler between
two places outside the critical sections; lemma `HandlerMoves` handles them
together. Corollaries: `TypeCorrect`, `MutualExclusion`, `RegistryIsRight`,
`AddressMapsDoNotLeak`, `CommandsReachTheirDevice`. The action property is
`ReconnectedDeviceKeepsItsEntry`.

**AsyncStoreProofs.** `Invariance` for every capacity and bound and all setups. The
strengthening is `SignalsInOrder`: no close token, closed channel or cancelled
context before the deferred call that raises it. From it follow
`CleanupGoesThrough` (the deferred sends never block) and `ServiceKeepsWorkers`.
`RecordsImplementPipe` and `ResponsesImplementPipe` prove the two refinements of
`StatusPipe`, initial state and every step, with `QueuesInOrder` for the contents.
`ServiceImplementsHandler` proves that every step is a step of `TcpHandler` under
the mapping of section 2, or leaves its variables alone.

**DeviceLoginProofs.** `Invariance` for any set of fetch sizes. `Passed` carries
what the failed protocols have excluded, which routing needs; `ReaderFacts` carries
what is buffered and consumed at each place, which the boundary and the waiting
properties need. `LoginImplementsHandler` is the refinement of `TcpHandler`'s login.

**Fm1200SessionProofs.** Two invariants.

1. `IInv` (`Invariance`, `AcknowledgedRecordsAreQueued`), for any tracker, any number
   of connections and any bytes. The strengthening is `Accounting`: records queued and
   left of the packet in hand are as many as were and will be acknowledged. Of the
   parser the proof uses one lemma, `RecordsAreCounted`: a packet has as many records
   as its `NumberOfData`; sorting keeps their number (`InTimeOrderCounts`).
2. `SessionInv` (`SessionInvariance`), if damage is seen. From it follow that the store
   reads what was measured (`ReadAsReported`), that a wrong response is the last thing
   its connection yields (`WrongResponseEndsIt`), and, step by step, that the session
   implements `Delivery` (`BatchesAreDelivered`), with the mapping of `Fm1200Session`:
   a batch is stored when all its records are in some queue, and the tracker's `batch`
   is one more than the batches it has been told are.

None of these three is near to inductive: they compare a queue with what was measured,
while the steps move bytes. `Holds` says, of one connection, what is between the two.
The bytes to the store that have not been read begin a stream of answers, with at most
one batch in it, up to a damaged packet (`Up`); they are all of it on the tracker's own
connection and a beginning of it on one that the tracker has lost. The bytes to the
tracker are commands with at most one acknowledgement among them (`Down`). What is
queued, and what will be of the records in hand, is exactly what was reported of the
batches from the connection's first up to the one that may be in the stream (`Queued`,
`Recorded`). `Due` relates the three on the tracker's connection: the batch it waits
for is on its way, or in hand, or queued with its acknowledgement on its way. `Tracked`
adds that it has one connection at a time. A response in hand whose checksum is not
read yet is kept as the bytes it was read of (`Checks`), so that the later comparison
is one of the whole packet.

Of the parser the proof uses that the first bytes of a stream decide what is read of it
(`ConsumeBeginning`), that records are read to their last byte (`RecordsAreWithin`) and
a response of the bytes up to its checksum (`ResponseIsWithin`). That each batch, the
answer, a command and an acknowledgement *on their own* are read as what was written is
the assumption `Fm1200Codec`; that streams of them, cut anywhere, are, is proved, with
the relation `Chain` of `SequenceFacts`.

`DamageIsSeen` says that on the bytes of each damaged packet, or with the next byte,
`consumeMessage` fails or finds a wrong checksum. It is a premise and no assumption of
the module, as a checksum of 16 bits does not see every damage. `MCFm1200Session`
assumes it of its instance, where TLC evaluates it. That damage is *used* to show that
no record of it is stored (`NoRecordsOfDamaged`) and that a response of it is found
wrong (`WrongOfDamaged`).

**Gt06SessionProofs.** Lemmas on what is read of a stream of packets and of replies,
then three invariants, each using the ones before it.

1. `IInv` (`Invariance`): every packet read is queued once and in order, and every
   heartbeat has exactly one reply, written before it is queued
   (`QueueFollowsPackets`, `HeartbeatsAreReplied`). Nothing is used of the parser, so
   this holds for any stream of bytes.
2. `FInv` (`Faithful`, which is `Spec => []QueueIsWhatWasSent`): what is read is
   what was sent. `QueueIsWhatWasSent` says nothing of the bytes on the way, so it is
   far from inductive. `Stream` says what they are: the packets sent lie one behind
   the other (`LaidOut`), each as it was sent or damaged (`Carry`); those read are the
   first of them (`ReadOf`), and the bytes not yet read are those behind (`Ahead`),
   all of them on the device's own connection and the beginning of them on one that
   broke. From the first damaged packet on nothing is known, unless damage is seen
   (`Known`). What the proof needs of the 250 lines of the parser are two facts:
   whatever `parsePacket` makes of the first bytes of a stream it makes of the whole
   stream (`ParseBeginning`), and a packet is not longer than what it was read of
   (`PacketIsWithin`); `FramedReads` combines them. That each message *on its own*, with
   nothing before it and nothing behind, is read as what it reports is the assumption
   `Gt06Codec`; that a stream of them is read one by one is proved.
3. `RInv` (`Confirmation`, which is `Spec => [](DamageIsSeen => ReplyConfirms)`): the
   bytes on the way to the device are replies of ten bytes to packets that are read
   and past their reply (`Replies`), and what the device has sent over a connection
   is in order (`Ordered`), so that the reply with the serial number of the
   last heartbeat confirms all before it.

`DamageIsSeen` is a premise of the second theorem and no assumption of the module,
because the code does not give it for every device: the checksum of a packet is read
and not compared (`gt06.go:238-251`), so damage that happens to leave stop bits
behind the wrong length makes one packet of two, and damage in a serial number makes
a heartbeat look like another. Then the reply to a heartbeat can arrive while a
message before it is lost. The premise says of each message and each of its damages
that it is still read to its end, is refused, or is refused with the next byte
(`Framed`), and that a damaged packet has the serial number of no other heartbeat.
`MCGt06Session` assumes it of its instance, where TLC evaluates it.
`Faithful` needs no such premise: it stops at the first damaged packet.

**StreamSessionProofs.** One invariant, `IInv` (`Invariance`), and from it
`QueuesAreWhatWasSent` (`QueuesKept`) and `AckConfirms` (`AcksConfirm`), for any
messages, damage, numbers of elements lost, number of faults and command that satisfy
three assumptions. `StreamAssumption`: bounds are naturals. `CommandAssumption`: a
command is text without the byte 4 of an acknowledgement's type, or it could pass for
one in `Acks`. `StreamCodec`: turns that begin at a start of the undamaged stream read
what the messages say (section 2, StreamSession). Nothing is assumed of a damaged
message but that it is bytes or fields: unlike in the other sessions no check value
covers a message, so from the first damaged one on nothing is promised, and nothing
has to be.

Neither property is inductive, since both compare queues with messages while the bytes
lie on the wire. `Within(s, q, a)` says what is between: the handler has read the
undamaged stream up to the start s; of the messages whole before s the first q are in
the queues, exactly or, with OBDII2G, as a subsequence, and the first a are
acknowledged; the message in hand is what is missing from q and a to s (`InHand`); and
what is unread of the stream agrees with the wire (`UnreadOf`) - is all of it, or has
damaged bytes behind, or has lost its end with the connection. `Beyond` is the other
half: damage has been read or run into, and all that is due of the messages before it
is at the front of the queues and of the acknowledgements. The handler goes over from
one to the other in `TakeMessage` only, when the wire yields a message where the
undamaged bytes alone would have made it wait; `WaitsForNothing` says that nothing is
due then. `AckConfirms` holds in spite of `MayDrop` because only a format without
acknowledgements may drop.

What the proof uses of the parsers is a theorem, not an assumption: what a turn makes
of the first elements of a stream, other than wait, it makes of the stream
(`ConsumeBeginning`, over the four binary messages, the ASCII line and the OBDII2G
line), and a message is not longer than what it was read of, with an acknowledgement
that has the form of one (`ConsumeTakes`). Hence a turn on part of a stream that was
sent ends where a turn on all of it would (`TurnWithin`). `CommandsAreNoAcks` shows of
the three command frames that they do not count as acknowledgements, and `PairedAll`
that the n-th acknowledgement due is that of the n-th message that gets one.

**WebSocketLoopProofs.** `Invariance`: `OneSocket` and `NoWorkerForgotten`, for any
feed, queue and number of faults; each needs the other only through the place of the
loop. `AccountsOnlyGrow`: the account of a connection (given to the store, being
given, queued, in hand) grows by what a message says when it is consumed and is
otherwise unchanged; so a failed save, which is given and not repeated, takes no other
status with it, and neither does any other fault. The strengthening `FlowOK` types the
queues and says that nothing is in hand or in work at the places where nothing should
be.

`FeedReachesStore` (same module) proves `FeedIsAccountedFor`, for any feed that can be
parsed. The invariant it needs besides is `WireOK`: what is on the wire of the
connection being read, up to the first message that cannot be parsed, is the feed
behind the messages consumed (`Follows`), with the answer to the login ahead of it
until that is read. It says what reaches the store's call, and not what the store
keeps: which saves fail is the store's choice. The lemmas `Follows...` say how each
thing that can happen to a wire keeps this. What the feed should put into the store is
`ReportedUpTo`, a recursive function; the proof does not unfold it, but uses the two
equations of `FeedAssumption`, which TLC evaluates, and with them the conversion of
each message of the instance.

Only model-checked:

* everything under fairness (`GonePeerIsReleased`, `LoginIsDecided`,
  `CallsAreAnswered`, `WorkersEnd`, `BackpressureClears`, `AcceptedIsAttempted`,
  `EverythingIsAcked`, `EverythingIsSent`, `MessagesAreAnswered`, `FeedResumes`,
  `LeftWorkersEnd`), as liveness and `ENABLED` are outside what the prover handles;
  so is the absence of deadlock;
* that a parser gives back what a device encoded: a computation over data, checked on
  the bytes of the instances (`Gt06Codec`, `Fm1200Codec`, `StreamCodec` and the runs).
  The library's induction theorems take an operator as a parameter, which the provers
  cannot instantiate; where the proofs need an induction over numbers (what a
  `FlattenSeq` of one more sequence is), they take it over a set of numbers
  (`Induction` in `SequenceFacts`, from `LeastNumber`).

## 5. Plan

Every safety property that a run checks is also a theorem. What could come next:

1. A module with a clock for the deadlines: the ticker that keeps a silent device's
   read deadline from ever passing (`tcpHandler.go:145`), and the delay between
   two dials.
2. A session in place of the abstract stream of `AsyncStore`, so that the queues of
   the session modules are the bounded ones.

## 6. Not modelled, and why

* `ConsumeStream` of TR06 and its packets: GT06 is tried first and takes every
  stream that TR06's `Login` would, so they are never run (`DeviceLogin` has both
  logins). The component is marked as partly modelled.
* The store client: one `Invoke` per method; it appears as replies and saves.
* The times of deadlines after the login, and the delay between dials: they need a
  clock. That the ticker keeps a write to a peer that does not read from failing is
  modelled (`CallsAreAnswered`). Of reads, from the code: the ticker extends their
  deadline every 5 s whether or not the device sends, so a device that disappears
  without closing is noticed only by TCP.
* Floating-point scales of fields (coordinates, speeds, voltages).
* Two writers on one socket (`SendCommand` and the handler's acknowledgements):
  `net.Conn` serialises single writes and each frame is one write.
* File descriptors of `JsonLinesStore`, which nobody closes: a counter would only
  restate that.
* Flags, listeners, logging, the gRPC server's plumbing, generated code, the test
  store: no behaviour of their own.
