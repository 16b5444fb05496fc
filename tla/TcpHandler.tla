------------------------------ MODULE TcpHandler ------------------------------
(***************************************************************************)
(* The TCP side of the receiver: one HandleConnection goroutine per        *)
(* accepted connection, the three maps they share under the mutex mu, and  *)
(* the gRPC SendCommand calls that look a device up by its IMEI.           *)
(*                                                                         *)
(* A handler is named by its connection.  pc[c] is the place its goroutine *)
(* has reached in HandleConnection; the goroutine holds mu exactly in the  *)
(* places of Critical.  The login dialogue, the stream of records and the  *)
(* store's queues are reduced to their effect on this control flow; the    *)
(* modules DeviceLogin and AsyncStore open them up.                        *)
(***************************************************************************)
EXTENDS FiniteSets

CONSTANTS
    Conns,        \* accepted sockets, each used once
    Addrs,        \* remote addresses, the keys of the connection maps
    Devices,      \* IMEIs
    Commandable,  \* the devices whose protocol encodes a command at all
    Calls,        \* gRPC SendCommand calls
    StoreTypes,   \* the values of the -storeType flag to start with
    None

\* DeviceConnectionInfo: a socket and a protocol object, the latter named by
\* the connection it was made for.
Info == [conn : Conns, protocol : Conns]

ASSUME StoreTypesAssumption == StoreTypes \subseteq {"local", "remote"}
ASSUME NoneAssumption == None \notin Conns \cup Addrs \cup Devices \cup Info
ASSUME CommandableAssumption == Commandable \subseteq Devices

VARIABLES
    process,      \* the receiver process: "up" or "crashed"
    storeType,    \* the -storeType flag, which no step changes
    storeHung,    \* the remote store no longer answers calls without deadline
    pc, addr, device, dataStore, peer, ticker,               \* per connection
    mu, connToProtocolMap, connToStoreMap, imeiToConnMap,    \* TcpHandler
    callPc, callImei, target, reply                          \* per call

server   == <<process, storeType, storeHung>>
handlers == <<pc, addr, device, dataStore, peer, ticker>>
maps     == <<connToProtocolMap, connToStoreMap, imeiToConnMap>>
calls    == <<callPc, callImei, target, reply>>
vars     == <<server, handlers, mu, maps, calls>>

-----------------------------------------------------------------------------
(* Places of a handler.                                                      *)

Waiting  == {"lockLogin", "lockStore", "lockClean"}
Critical == {"recordLogin", "recordStore", "clean"}
Entered  == [w \in Waiting |-> CASE w = "lockLogin" -> "recordLogin"
                                 [] w = "lockStore" -> "recordStore"
                                 [] w = "lockClean" -> "clean"]

\* From the write of the login maps to the deferred deletes.
Registered == {"makeStore", "lockStore", "recordStore", "ack", "serve",
               "blocked", "closeStore", "lockClean", "clean"}
\* From the write of connToStoreMap to the deferred deletes.
Stored     == {"ack", "serve", "blocked", "closeStore", "lockClean", "clean"}
Places     == {"new", "login", "verify", "lockLogin", "recordLogin", "finish",
               "done"} \cup Registered

\* Handlers that hold an open socket.
Open(c) == pc[c] \notin {"new", "done"}

Init ==
    /\ process = "up" /\ storeType \in StoreTypes /\ storeHung = FALSE
    /\ pc = [c \in Conns |-> "new"]
    /\ addr = [c \in Conns |-> None]
    /\ device = [c \in Conns |-> None]
    /\ dataStore = [c \in Conns |-> "none"]
    /\ peer = [c \in Conns |-> "open"]
    /\ ticker = [c \in Conns |-> "off"]
    /\ mu = None
    /\ connToProtocolMap = [a \in Addrs |-> None]
    /\ connToStoreMap = [a \in Addrs |-> None]
    /\ imeiToConnMap = [d \in Devices |-> None]
    /\ callPc = [k \in Calls |-> "idle"]
    /\ callImei = [k \in Calls |-> None]
    /\ target = [k \in Calls |-> None]
    /\ reply = [k \in Calls |-> "none"]

Go(c, place) == pc' = [pc EXCEPT ![c] = place]

\* The deferred conn.Close: the handler is done and its peer cut off.
Closes(c) == Go(c, "done") /\ peer' = [peer EXCEPT ![c] = "gone"]

Crash ==
    process' = "crashed" /\ UNCHANGED <<storeType, storeHung, handlers, mu, maps, calls>>

-----------------------------------------------------------------------------
(* Environment.                                                              *)

\* A remote address is free again once the peer of its old socket is gone,
\* which can be long before the old handler has noticed.
Accept(c, a) ==
    /\ process = "up" /\ pc[c] = "new"
    /\ \A o \in Conns : Open(o) /\ peer[o] # "gone" => addr[o] # a
    /\ Go(c, "login")
    /\ addr' = [addr EXCEPT ![c] = a]
    /\ UNCHANGED <<server, device, dataStore, peer, ticker, mu, maps, calls>>

\* The device resets the connection or closes its end.
PeerGone(c) ==
    /\ process = "up" /\ Open(c) /\ peer[c] # "gone"
    /\ peer' = [peer EXCEPT ![c] = "gone"]
    /\ UNCHANGED <<server, pc, addr, device, dataStore, ticker, mu, maps, calls>>

\* The device stays connected and reads no more, and the socket's buffers are
\* full of what was written to it: the next write blocks.
PeerStopsReading(c) ==
    /\ process = "up" /\ pc[c] \in Registered /\ peer[c] = "open"
    /\ peer' = [peer EXCEPT ![c] = "full"]
    /\ UNCHANGED <<server, pc, addr, device, dataStore, ticker, mu, maps, calls>>

\* VerifyDevice and SaveDeviceStatus run under context.Background(): nothing
\* bounds how long the store may take to answer.
StoreHangs ==
    /\ process = "up" /\ storeType = "remote" /\ ~storeHung
    /\ storeHung' = TRUE
    /\ UNCHANGED <<process, storeType, handlers, mu, maps, calls>>

-----------------------------------------------------------------------------
(* HandleConnection, in program order.                                       *)

\* Mutant: no read deadline during the login.
LoginFails_NoDeadline(c) ==
    /\ process = "up" /\ pc[c] = "login" /\ peer[c] = "gone"
    /\ Closes(c)
    /\ UNCHANGED <<server, addr, device, dataStore, ticker, mu, maps, calls>>

\* Any error return of attemptDeviceLogin, and of the two Set...Deadline
\* calls before it: the only deferred call so far is conn.Close.
LoginFails(c) ==
    /\ process = "up" /\ pc[c] = "login"
    /\ Closes(c)
    /\ UNCHANGED <<server, addr, device, dataStore, ticker, mu, maps, calls>>

\* Mutant: one protocol object serves every connection, so that a login
\* overwrites the IMEI of the others.
LoginReads_SharedProtocol(c, d) ==
    /\ process = "up" /\ pc[c] = "login"
    /\ Go(c, "verify")
    /\ device' = [o \in Conns |-> IF o = c \/ device[o] # None THEN d ELSE None]
    /\ UNCHANGED <<server, addr, dataStore, peer, ticker, mu, maps, calls>>

\* Some protocol recognised the stream; a device always logs in under a
\* non-empty IMEI, because an empty one makes the loop try the next protocol.
LoginReads(c, d) ==
    /\ process = "up" /\ pc[c] = "login"
    /\ Go(c, "verify")
    /\ device' = [device EXCEPT ![c] = d]
    /\ UNCHANGED <<server, addr, dataStore, peer, ticker, mu, maps, calls>>

VerifySucceeds(c) ==
    /\ process = "up" /\ pc[c] = "verify" /\ ~storeHung
    /\ Go(c, "lockLogin")
    /\ UNCHANGED <<server, addr, device, dataStore, peer, ticker, mu, maps, calls>>

\* The store answers with an error, another IMEI or a device type that does
\* not speak the protocol.
VerifyRefuses(c) ==
    /\ process = "up" /\ pc[c] = "verify" /\ ~storeHung
    /\ storeType = "remote"
    /\ Closes(c)
    /\ UNCHANGED <<server, addr, device, dataStore, ticker, mu, maps, calls>>

Lock(c) ==
    /\ process = "up" /\ pc[c] \in Waiting
    /\ mu = None
    /\ mu' = c
    /\ Go(c, Entered[pc[c]])
    /\ UNCHANGED <<server, addr, device, dataStore, peer, ticker, maps, calls>>

RecordLogin(c) ==
    /\ process = "up" /\ pc[c] = "recordLogin"
    /\ connToProtocolMap' = [connToProtocolMap EXCEPT ![addr[c]] = c]
    /\ IF device[c] = None
       THEN UNCHANGED imeiToConnMap
       ELSE imeiToConnMap' = [imeiToConnMap EXCEPT ![device[c]] =
                                 [conn |-> c, protocol |-> c]]
    /\ mu' = None
    /\ Go(c, "makeStore")
    /\ UNCHANGED <<server, addr, device, dataStore, peer, ticker,
                   connToStoreMap, calls>>

\* makeAsyncStore, and the start of the two workers on what it returns.  A
\* failed Mkdir of the log directory yields a nil store, whose workers panic
\* and recover; the handler carries on with it.
MakeAsyncStore(c, made) ==
    /\ process = "up" /\ pc[c] = "makeStore"
    /\ made = "nil" => storeType = "local"
    /\ dataStore' = [dataStore EXCEPT ![c] = made]
    /\ Go(c, "lockStore")
    /\ UNCHANGED <<server, addr, device, peer, ticker, mu, maps, calls>>

\* makeJsonStore panics when it cannot open the device's file, and nothing
\* on the handler's goroutine recovers.
OpenFilePanics(c) ==
    /\ process = "up" /\ pc[c] = "makeStore"
    /\ storeType = "local"
    /\ Crash

\* Mutant: no Unlock after the second map write.
RecordStore_NoUnlock(c) ==
    /\ process = "up" /\ pc[c] = "recordStore"
    /\ connToStoreMap' = [connToStoreMap EXCEPT ![addr[c]] = c]
    /\ Go(c, "ack")
    /\ UNCHANGED <<server, addr, device, dataStore, peer, ticker, mu,
                   connToProtocolMap, imeiToConnMap, calls>>

RecordStore(c) ==
    /\ process = "up" /\ pc[c] = "recordStore"
    /\ connToStoreMap' = [connToStoreMap EXCEPT ![addr[c]] = c]
    /\ mu' = None
    /\ Go(c, "ack")
    /\ UNCHANGED <<server, addr, device, dataStore, peer, ticker,
                   connToProtocolMap, imeiToConnMap, calls>>

\* The login acknowledgement; the deadline ticker starts only after it.
WriteAck(c) ==
    /\ process = "up" /\ pc[c] = "ack" /\ peer[c] # "full"
    /\ ticker' = [ticker EXCEPT ![c] = "started"]
    /\ Go(c, "serve")
    /\ UNCHANGED <<server, addr, device, dataStore, peer, mu, maps, calls>>

\* The peer is gone, or the write deadline set at accept has passed while
\* the login was being verified or the peer read nothing.
WriteAckFails(c) ==
    /\ process = "up" /\ pc[c] = "ack"
    /\ Go(c, "closeStore")
    /\ UNCHANGED <<server, addr, device, dataStore, peer, ticker, mu, maps, calls>>

\* ConsumeStream sends a record to a ProcessChan that is full.
Backpressure(c) ==
    /\ process = "up" /\ pc[c] = "serve" /\ dataStore[c] = "made"
    /\ Go(c, "blocked")
    /\ UNCHANGED <<server, addr, device, dataStore, peer, ticker, mu, maps, calls>>

\* The store worker takes an item, so the blocked send completes, or OBDII2G
\* drops its record.  A worker between two saves takes one more item after the
\* store has hung.
WorkerDrains(c) ==
    /\ process = "up" /\ pc[c] = "blocked"
    /\ Go(c, "serve")
    /\ UNCHANGED <<server, addr, device, dataStore, peer, ticker, mu, maps, calls>>

\* ConsumeStream returns: end of stream, a read error, a malformed packet.
ConsumeReturns(c) ==
    /\ process = "up" /\ pc[c] = "serve"
    /\ Go(c, "closeStore")
    /\ UNCHANGED <<server, addr, device, dataStore, peer, ticker, mu, maps, calls>>

\* Mutant: unbuffered close channels, so that the sends wait for the workers.
CloseStore_Unbuffered(c) ==
    /\ process = "up" /\ pc[c] = "closeStore" /\ dataStore[c] = "made" /\ ~storeHung
    /\ Go(c, "lockClean")
    /\ UNCHANGED <<server, addr, device, dataStore, peer, ticker, mu, maps, calls>>

\* The head of the deferred cleanup: a token for each worker, then both
\* channels are closed.
CloseStore(c) ==
    /\ process = "up" /\ pc[c] = "closeStore" /\ dataStore[c] = "made"
    /\ Go(c, "lockClean")
    /\ UNCHANGED <<server, addr, device, dataStore, peer, ticker, mu, maps, calls>>

\* On a nil store the deferred cleanup panics itself, and with it the process.
CloseNilStorePanics(c) ==
    /\ process = "up" /\ pc[c] = "closeStore" /\ dataStore[c] = "nil"
    /\ Crash

\* The loop over imeiToConnMap stops at the first entry that names c.
EntriesOf(c) ==
    {d \in Devices : imeiToConnMap[d] # None /\ imeiToConnMap[d].conn = c}

\* Mutants: the cleanup forgets one map, or deletes the device's entry
\* without looking whose connection it names.
CleanMaps_KeepsImei(c) ==
    /\ process = "up" /\ pc[c] = "clean"
    /\ connToProtocolMap' = [connToProtocolMap EXCEPT ![addr[c]] = None]
    /\ connToStoreMap' = [connToStoreMap EXCEPT ![addr[c]] = None]
    /\ mu' = None
    /\ Go(c, "finish")
    /\ UNCHANGED <<server, addr, device, dataStore, peer, ticker, imeiToConnMap, calls>>

CleanMaps_KeepsStore(c) ==
    /\ process = "up" /\ pc[c] = "clean"
    /\ connToProtocolMap' = [connToProtocolMap EXCEPT ![addr[c]] = None]
    /\ imeiToConnMap' = [d \in Devices |->
                            IF d \in EntriesOf(c) THEN None ELSE imeiToConnMap[d]]
    /\ mu' = None
    /\ Go(c, "finish")
    /\ UNCHANGED <<server, addr, device, dataStore, peer, ticker, connToStoreMap, calls>>

CleanMaps_ByDevice(c) ==
    /\ process = "up" /\ pc[c] = "clean"
    /\ connToProtocolMap' = [connToProtocolMap EXCEPT ![addr[c]] = None]
    /\ connToStoreMap' = [connToStoreMap EXCEPT ![addr[c]] = None]
    /\ imeiToConnMap' = [imeiToConnMap EXCEPT ![device[c]] = None]
    /\ mu' = None
    /\ Go(c, "finish")
    /\ UNCHANGED <<server, addr, device, dataStore, peer, ticker, calls>>

CleanMaps(c) ==
    /\ process = "up" /\ pc[c] = "clean"
    /\ connToProtocolMap' = [connToProtocolMap EXCEPT ![addr[c]] = None]
    /\ connToStoreMap' = [connToStoreMap EXCEPT ![addr[c]] = None]
    /\ IF EntriesOf(c) = {}
       THEN UNCHANGED imeiToConnMap
       ELSE \E d \in EntriesOf(c) :
               imeiToConnMap' = [imeiToConnMap EXCEPT ![d] = None]
    /\ mu' = None
    /\ Go(c, "finish")
    /\ UNCHANGED <<server, addr, device, dataStore, peer, ticker, calls>>

\* The remaining deferred calls: cancel the context, close the socket.
Finish(c) ==
    /\ process = "up" /\ pc[c] = "finish"
    /\ Closes(c)
    /\ UNCHANGED <<server, addr, device, dataStore, ticker, mu, maps, calls>>

\* The first tick moves the deadlines of accept 20 s into the future, and the
\* following ticks, 5 s apart, keep them there.
Tick(c) ==
    /\ process = "up" /\ ticker[c] = "started" /\ pc[c] # "done"
    /\ ticker' = [ticker EXCEPT ![c] = "ticking"]
    /\ UNCHANGED <<server, pc, addr, device, dataStore, peer, mu, maps, calls>>

\* The ticker goroutine sees ctx.Done or fails to set a deadline.
TickerReturns(c) ==
    /\ process = "up" /\ ticker[c] # "off" /\ pc[c] = "done"
    /\ ticker' = [ticker EXCEPT ![c] = "off"]
    /\ UNCHANGED <<server, pc, addr, device, dataStore, peer, mu, maps, calls>>

-----------------------------------------------------------------------------
(* SendCommand.  GetConnInfoByIMEI reads imeiToConnMap without taking mu.    *)

Request(k, d) ==
    /\ process = "up" /\ callPc[k] = "idle"
    /\ callPc' = [callPc EXCEPT ![k] = "lookup"]
    /\ callImei' = [callImei EXCEPT ![k] = d]
    /\ UNCHANGED <<server, handlers, mu, maps, target, reply>>

\* The call returns, and its request and what it looked up go out of scope.
Replies(k, r) ==
    /\ callPc' = [callPc EXCEPT ![k] = "replied"]
    /\ reply' = [reply EXCEPT ![k] = r]
    /\ callImei' = [callImei EXCEPT ![k] = None]
    /\ target' = [target EXCEPT ![k] = None]

GetConnInfoByIMEI(k) ==
    /\ process = "up" /\ callPc[k] = "lookup"
    /\ imeiToConnMap[callImei[k]] # None
    /\ target' = [target EXCEPT ![k] = imeiToConnMap[callImei[k]]]
    /\ callPc' = [callPc EXCEPT ![k] = "send"]
    /\ UNCHANGED <<server, handlers, mu, maps, callImei, reply>>

DeviceNotFound(k) ==
    /\ process = "up" /\ callPc[k] = "lookup"
    /\ imeiToConnMap[callImei[k]] = None
    /\ Replies(k, "Device not found")
    /\ UNCHANGED <<server, handlers, mu, maps>>

\* The holder of mu is in the middle of changing imeiToConnMap.
ImeiMapBeingWritten ==
    /\ mu # None
    /\ \/ pc[mu] = "recordLogin" /\ device[mu] # None
       \/ pc[mu] = "clean" /\ EntriesOf(mu) # {}

\* The unlocked read overlaps a write.  Go's runtime aborts the process when
\* it notices ("concurrent map read and map write") ...
LookupAborts(k) ==
    /\ process = "up" /\ callPc[k] = "lookup"
    /\ ImeiMapBeingWritten
    /\ Crash

\* ... and when it does not, the copy of an entry being overwritten can take
\* one field from before the write and the other from after it.
LookupTears(k) ==
    /\ process = "up" /\ callPc[k] = "lookup"
    /\ ImeiMapBeingWritten
    /\ pc[mu] = "recordLogin" /\ device[mu] = callImei[k]
    /\ imeiToConnMap[callImei[k]] # None
    /\ LET old == imeiToConnMap[callImei[k]]
       IN  \E torn \in {[old EXCEPT !.conn = mu], [old EXCEPT !.protocol = mu]} :
              target' = [target EXCEPT ![k] = torn]
    /\ callPc' = [callPc EXCEPT ![k] = "send"]
    /\ UNCHANGED <<server, handlers, mu, maps, callImei, reply>>

\* The protocol object writes a command frame to the buffered writer, unless
\* its SendCommandToDevice is the empty one of GT06 and TR06.
Encodes(k) == device[target[k].protocol] \in Commandable

CommandFlushed(k) ==
    /\ process = "up" /\ callPc[k] = "send" /\ Encodes(k)
    /\ pc[target[k].conn] # "done" /\ peer[target[k].conn] # "full"
    /\ Replies(k, "Command sent successfully")
    /\ UNCHANGED <<server, handlers, mu, maps>>

\* Mutant: the write to a socket closed since the lookup is not noticed.
CommandFlushFails_PeerOnly(k) ==
    /\ process = "up" /\ callPc[k] = "send" /\ Encodes(k)
    /\ pc[target[k].conn] # "done" /\ peer[target[k].conn] = "gone"
    /\ Replies(k, "Failed to flush writer")
    /\ UNCHANGED <<server, handlers, mu, maps>>

\* The socket is closed or the peer has reset it since the lookup, or the
\* write is still blocked when its deadline passes, which no deadline does
\* that the ticker keeps moving.
CommandFlushFails(k) ==
    /\ process = "up" /\ callPc[k] = "send" /\ Encodes(k)
    /\ \/ pc[target[k].conn] = "done" \/ peer[target[k].conn] = "gone"
       \/ peer[target[k].conn] = "full" /\ ticker[target[k].conn] # "ticking"
    /\ Replies(k, "Failed to flush writer")
    /\ UNCHANGED <<server, handlers, mu, maps>>

\* Neither of the two: Flush is blocked on a peer that has stopped reading, and
\* returns only once that peer is gone or its handler closes the socket.
WaitsForPeer(k) ==
    /\ callPc[k] = "send" /\ Encodes(k)
    /\ pc[target[k].conn] # "done" /\ peer[target[k].conn] = "full"
    /\ ticker[target[k].conn] = "ticking"

\* Flushing an empty buffer succeeds on any socket.
NothingToFlush(k) ==
    /\ process = "up" /\ callPc[k] = "send" /\ ~Encodes(k)
    /\ Replies(k, "Command sent successfully")
    /\ UNCHANGED <<server, handlers, mu, maps>>

-----------------------------------------------------------------------------
Verify(c) == VerifySucceeds(c) \/ VerifyRefuses(c)
MakeStore(c) ==
    OpenFilePanics(c) \/ \E made \in {"made", "nil"} : MakeAsyncStore(c, made)
Cleanup(c) == CloseStore(c) \/ CloseNilStorePanics(c) \/ CleanMaps(c) \/ Finish(c)

\* The steps of a handler that the device cannot hold up for ever: the read
\* deadline of the login, locks, map writes, the deferred calls; and, as long
\* as the store answers, a blocked send.
Proceeds(c) ==
    \/ LoginFails(c) \/ Verify(c) \/ Lock(c) \/ RecordLogin(c) \/ MakeStore(c)
    \/ RecordStore(c) \/ WriteAck(c) \/ WriteAckFails(c) \/ Cleanup(c)
    \/ ~storeHung /\ WorkerDrains(c)

HandleConnection(c) ==
    \/ Proceeds(c) \/ Backpressure(c) \/ WorkerDrains(c) \/ ConsumeReturns(c)
    \/ \E d \in Devices : LoginReads(c, d)

SendCommand(k) ==
    \/ GetConnInfoByIMEI(k) \/ DeviceNotFound(k) \/ LookupAborts(k)
    \/ LookupTears(k) \/ CommandFlushed(k) \/ CommandFlushFails(k)
    \/ NothingToFlush(k)

\* A handler that waits for a store that will never answer.
Stuck(c) == storeHung /\ pc[c] \in {"verify", "blocked"}

\* Every place where the receiver may come to rest; the deadlock check says
\* that it never rests anywhere else.
Rest ==
    /\ \/ process = "crashed"
       \/ /\ \A c \in Conns : (pc[c] = "done" /\ ticker[c] = "off") \/ Stuck(c)
          /\ \A k \in Calls : callPc[k] = "replied"
    /\ UNCHANGED vars

Next ==
    \/ \E c \in Conns :
          \/ \E a \in Addrs : Accept(c, a)
          \/ PeerGone(c) \/ PeerStopsReading(c)
          \/ HandleConnection(c) \/ Tick(c) \/ TickerReturns(c)
    \/ \E k \in Calls : SendCommand(k) \/ \E d \in Devices : Request(k, d)
    \/ StoreHangs
    \/ Rest

Spec == Init /\ [][Next]_vars

\* A handler that never waits for others is scheduled; once its peer is gone
\* the bytes left to read are finite, so ConsumeStream eventually returns.
Fairness ==
    /\ \A c \in Conns :
          /\ WF_vars(Proceeds(c)) /\ WF_vars(TickerReturns(c))
          /\ SF_vars(peer[c] = "gone" /\ ConsumeReturns(c))
    /\ \A k \in Calls : WF_vars(SendCommand(k))

FairSpec == Spec /\ Fairness

-----------------------------------------------------------------------------
(* Properties.                                                               *)

TypeOK ==
    /\ process \in {"up", "crashed"}
    /\ storeType \in StoreTypes /\ storeHung \in BOOLEAN
    /\ pc \in [Conns -> Places]
    /\ addr \in [Conns -> Addrs \cup {None}]
    /\ device \in [Conns -> Devices \cup {None}]
    /\ dataStore \in [Conns -> {"none", "made", "nil"}]
    /\ peer \in [Conns -> {"open", "full", "gone"}]
    /\ ticker \in [Conns -> {"off", "started", "ticking"}]
    /\ mu \in Conns \cup {None}
    /\ connToProtocolMap \in [Addrs -> Conns \cup {None}]
    /\ connToStoreMap \in [Addrs -> Conns \cup {None}]
    /\ imeiToConnMap \in [Devices -> Info \cup {None}]
    /\ callPc \in [Calls -> {"idle", "lookup", "send", "replied"}]
    /\ callImei \in [Calls -> Devices \cup {None}]
    /\ target \in [Calls -> Info \cup {None}]
    /\ reply \in [Calls -> {"none", "Device not found", "Failed to flush writer",
                            "Command sent successfully"}]

\* mu is held in the critical sections and nowhere else: no handler waits for
\* its device, for the store or for a full queue with the maps locked, and no
\* two handlers change the maps at once (tcpHandler.go, lines 68 to 131).
MutexDiscipline == \A c \in Conns : mu = c <=> pc[c] \in Critical

\* Whatever order connections of one device come and go in, an entry of
\* imeiToConnMap names a connection that logged in under that IMEI and has
\* not run its deferred deletes, together with that connection's own protocol.
RegistryNamesServedDevice ==
    \A d \in Devices : imeiToConnMap[d] # None =>
        LET info == imeiToConnMap[d]
        IN  /\ pc[info.conn] \in Registered
            /\ device[info.conn] = d
            /\ info.protocol = info.conn

\* The maps keyed by remote address never keep an entry nobody will delete,
\* although a new connection may use the address before the old handler has
\* cleaned up: the socket an entry was written for is still to delete it.
AddressEntriesHaveOwner ==
    \A a \in Addrs :
        /\ connToProtocolMap[a] # None =>
              /\ addr[connToProtocolMap[a]] = a
              /\ pc[connToProtocolMap[a]] \in Registered
        /\ connToStoreMap[a] # None =>
              /\ addr[connToStoreMap[a]] = a
              /\ pc[connToStoreMap[a]] \in Stored

\* SendCommand keeps what it looked up while connections close, reconnect and
\* overwrite each other's entries, even when its unlocked read was torn: the
\* command still goes to a socket and a protocol of the device it was for.
CommandReachesItsDevice ==
    \A k \in Calls : target[k] # None =>
        /\ device[target[k].conn] = callImei[k]
        /\ device[target[k].protocol] = callImei[k]

\* What the invariants above rest on: a handler knows its address once
\* accepted and its device once recognised, and a call its device while it
\* is being served.
LoggedIn == Registered \cup {"verify", "lockLogin", "recordLogin", "finish"}

\* The places in which a connection may still be named by a looked up entry.
Named == Registered \cup {"recordLogin", "finish", "done"}

HandlerFacts ==
    \A c \in Conns :
        /\ pc[c] # "new" => addr[c] \in Addrs
        /\ pc[c] \in LoggedIn => device[c] \in Devices

CallFacts ==
    \A k \in Calls :
        /\ callPc[k] \in {"lookup", "send"} => callImei[k] \in Devices
        /\ callPc[k] = "send" => target[k] \in Info
        /\ callPc[k] = "idle" => target[k] = None
        /\ target[k] # None =>
              pc[target[k].conn] \in Named /\ pc[target[k].protocol] \in Named

\* The inductive invariant: the registry invariants and what keeps them true.
IInv ==
    /\ TypeOK /\ MutexDiscipline /\ HandlerFacts
    /\ RegistryNamesServedDevice /\ AddressEntriesHaveOwner
    /\ CallFacts /\ CommandReachesItsDevice

\* A device that reconnects stays reachable: its entry disappears only with
\* the deferred deletes of the very connection it names, and is replaced only
\* by a newer login under the same IMEI, never by an older handler's cleanup.
EntryOutlivesOlderHandlers ==
    [][\A d \in Devices :
         imeiToConnMap[d] # None /\ imeiToConnMap'[d] # imeiToConnMap[d] =>
            IF imeiToConnMap'[d] = None
            THEN /\ pc[imeiToConnMap[d].conn] = "clean"
                 /\ pc'[imeiToConnMap[d].conn] = "finish"
            ELSE /\ pc[imeiToConnMap'[d].conn] = "recordLogin"
                 /\ device[imeiToConnMap'[d].conn] = d]_vars

\* A connection whose peer is gone, or which its handler has closed, is closed
\* and forgotten, and no deadline ticker outlives its connection, unless the process dies or the handler
\* waits for a store that hung.
GonePeerIsReleased ==
    \A c \in Conns : peer[c] = "gone" ~>
                        \/ pc[c] = "done" /\ ticker[c] = "off"
                        \/ process = "crashed" \/ Stuck(c)

\* The login read deadline is not refreshed, so even a silent peer gets its
\* login decided; only the store can delay the decision for ever.
LoginIsDecided ==
    \A c \in Conns : pc[c] = "login" ~>
                        \/ pc[c] \in Registered \cup {"done"}
                        \/ process = "crashed" \/ Stuck(c)

\* A SendCommand call is answered whatever becomes of the connection it found,
\* one closed, reset or never read since included.  Besides the death of the
\* process only one thing can leave it unanswered: its device stays connected
\* for ever without ever reading again, because the write deadline that would
\* end the wait (tcpHandler.go:56) is moved by the ticker (tcpHandler.go:149).
CallsAreAnswered ==
    \A k \in Calls : callPc[k] = "lookup" ~>
        callPc[k] = "replied" \/ process = "crashed" \/ [](WaitsForPeer(k))

\* What the comment "Lock for map writes" (tcpHandler.go:67) is for: nobody
\* uses imeiToConnMap while it is being written.
LookupsAvoidWrites ==
    ~ (ImeiMapBeingWritten /\ \E k \in Calls : callPc[k] = "lookup")

\* What the message "Device not found" (receiver.go:129) says: when a lookup
\* fails, no connection is being served under that IMEI.
NotFoundMeansNotServed ==
    [][\A k \in Calls :
         reply[k] = "none" /\ reply'[k] = "Device not found" =>
            ~ \E c \in Conns : device[c] = callImei[k] /\ pc[c] = "serve"]_vars

===============================================================================
