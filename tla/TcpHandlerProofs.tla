-------------------------- MODULE TcpHandlerProofs --------------------------
(***************************************************************************)
(* IInv is an inductive invariant of TcpHandler, for any number of         *)
(* connections, addresses, devices and calls.  Every conjunct needs the    *)
(* others: an entry of imeiToConnMap stays right only because no two       *)
(* handlers write the maps at once (MutexDiscipline) and because a handler *)
(* registers the device it was verified for (HandlerFacts); a looked up    *)
(* entry stays right only because the registry was (RegistryNames...) and  *)
(* because a connection never changes its device afterwards (CallFacts).   *)
(***************************************************************************)
EXTENDS TcpHandler, TLAPS

\* What the registry invariants read; a step that leaves it alone and keeps
\* the types keeps the invariant.
view == <<pc, addr, device, mu, maps, callPc, callImei, target>>

LEMMA InitIInv == Init => IInv
<1> SUFFICES ASSUME Init PROVE IInv OBVIOUS
<1> USE NoneAssumption DEF Init
<1>1. TypeOK BY DEF TypeOK, Places
<1>2. MutexDiscipline BY DEF MutexDiscipline, Critical
<1>3. HandlerFacts BY DEF HandlerFacts, LoggedIn, Registered
<1>4. RegistryNamesServedDevice BY DEF RegistryNamesServedDevice
<1>5. AddressEntriesHaveOwner BY DEF AddressEntriesHaveOwner
<1>6. CallFacts BY DEF CallFacts
<1>7. CommandReachesItsDevice BY DEF CommandReachesItsDevice
<1> QED BY <1>1, <1>2, <1>3, <1>4, <1>5, <1>6, <1>7 DEF IInv

\* The connections that entries and looked up entries name, and where they are.
Names ==
    /\ \A d \in Devices : imeiToConnMap[d] # None =>
          /\ imeiToConnMap[d] \in Info
          /\ imeiToConnMap[d].conn \in Conns
          /\ pc[imeiToConnMap[d].conn] \in Named
    /\ \A a \in Addrs :
          /\ connToProtocolMap[a] # None =>
                connToProtocolMap[a] \in Conns /\ pc[connToProtocolMap[a]] \in Named
          /\ connToStoreMap[a] # None =>
                connToStoreMap[a] \in Conns /\ pc[connToStoreMap[a]] \in Named
    /\ \A k \in Calls : target[k] # None =>
          /\ target[k] \in Info
          /\ target[k].conn \in Conns /\ pc[target[k].conn] \in Named
          /\ target[k].protocol \in Conns /\ pc[target[k].protocol] \in Named

LEMMA EntriesName == IInv => Names
<1> SUFFICES ASSUME IInv PROVE Names OBVIOUS
<1>1. Registered \subseteq Named /\ Stored \subseteq Named
  BY DEF Named, Registered, Stored
<1>2. \A i \in Info : i.conn \in Conns /\ i.protocol \in Conns BY DEF Info
<1>3. \A d \in Devices : imeiToConnMap[d] # None => imeiToConnMap[d] \in Info
  BY DEF IInv, TypeOK
<1>4. \A d \in Devices : imeiToConnMap[d] # None =>
         pc[imeiToConnMap[d].conn] \in Named
  BY <1>1 DEF IInv, RegistryNamesServedDevice
<1>5. \A a \in Addrs :
         /\ connToProtocolMap[a] \in Conns \cup {None}
         /\ connToStoreMap[a] \in Conns \cup {None}
  BY DEF IInv, TypeOK
<1>6. \A a \in Addrs :
         /\ connToProtocolMap[a] # None => pc[connToProtocolMap[a]] \in Named
         /\ connToStoreMap[a] # None => pc[connToStoreMap[a]] \in Named
  BY <1>1 DEF IInv, AddressEntriesHaveOwner
<1>7. \A k \in Calls : target[k] # None => target[k] \in Info
  BY DEF IInv, TypeOK
<1>8. \A k \in Calls : target[k] # None =>
         pc[target[k].conn] \in Named /\ pc[target[k].protocol] \in Named
  BY DEF IInv, CallFacts
<1> QED BY <1>2, <1>3, <1>4, <1>5, <1>6, <1>7, <1>8 DEF Names

-----------------------------------------------------------------------------
(* Steps by what they change.                                                *)

LEMMA ViewUnchanged ==
  ASSUME IInv, TypeOK', UNCHANGED view
  PROVE  IInv'
BY DEF IInv, view, maps, MutexDiscipline, HandlerFacts, CallFacts,
   RegistryNamesServedDevice, AddressEntriesHaveOwner, CommandReachesItsDevice

\* A handler goes from one place outside the critical sections to another and
\* leaves the maps, its address and its device alone.
LEMMA HandlerMoves ==
  ASSUME IInv, TypeOK', NEW c \in Conns, NEW place \in Places \ Critical,
         pc' = [pc EXCEPT ![c] = place], pc[c] \in Places \ Critical,
         UNCHANGED <<addr, device, mu, maps, callPc, callImei, target>>,
         pc[c] # "new", place # "new",
         place \in LoggedIn => pc[c] \in LoggedIn,
         pc[c] \in Registered => place \in Registered,
         pc[c] \in Stored => place \in Stored,
         pc[c] \in Named => place \in Named
  PROVE  IInv'
<1>1. pc \in [Conns -> Places] BY DEF IInv, TypeOK
<1>2. \A o \in Conns :
         /\ pc[o] \in Registered => pc'[o] \in Registered
         /\ pc[o] \in Stored => pc'[o] \in Stored
         /\ pc[o] \in Named => pc'[o] \in Named
         /\ pc'[o] \in LoggedIn => pc[o] \in LoggedIn
         /\ pc'[o] # "new" => pc[o] # "new"
         /\ pc'[o] \in Critical <=> pc[o] \in Critical
  BY <1>1
<1>3. UNCHANGED <<addr, device, mu, connToProtocolMap, connToStoreMap,
                  imeiToConnMap, callPc, callImei, target>>
  BY DEF maps
<1>4. MutexDiscipline' BY <1>2, <1>3 DEF IInv, MutexDiscipline
<1>5. HandlerFacts' BY <1>2, <1>3 DEF IInv, HandlerFacts
<1>6. RegistryNamesServedDevice'
  <2>1. \A d \in Devices : imeiToConnMap[d] # None => imeiToConnMap[d].conn \in Conns
    BY DEF IInv, TypeOK, Info
  <2> QED BY <2>1, <1>2, <1>3 DEF IInv, RegistryNamesServedDevice
<1>7. AddressEntriesHaveOwner'
  <2>1. \A a \in Addrs : /\ connToProtocolMap[a] \in Conns \cup {None}
                        /\ connToStoreMap[a] \in Conns \cup {None}
    BY DEF IInv, TypeOK
  <2> QED BY <2>1, <1>2, <1>3 DEF IInv, AddressEntriesHaveOwner
<1>8. CallFacts'
  <2>1. \A k \in Calls : target[k] # None =>
           target[k].conn \in Conns /\ target[k].protocol \in Conns
    BY DEF IInv, TypeOK, Info
  <2> QED BY <2>1, <1>2, <1>3 DEF IInv, CallFacts
<1>9. CommandReachesItsDevice' BY <1>3 DEF IInv, CommandReachesItsDevice
<1> QED BY <1>4, <1>5, <1>6, <1>7, <1>8, <1>9 DEF IInv

\* A call advances; handlers and maps are untouched.
LEMMA CallAdvances ==
  ASSUME IInv, TypeOK', CallFacts', CommandReachesItsDevice',
         UNCHANGED <<handlers, mu, maps>>
  PROVE  IInv'
BY DEF IInv, handlers, maps, MutexDiscipline, HandlerFacts,
   RegistryNamesServedDevice, AddressEntriesHaveOwner

-----------------------------------------------------------------------------
(* The actions that change what the invariants read.                         *)

\* A step that only moves the handler c to a place keeps the types.
LEMMA MoveTypeOK ==
  ASSUME TypeOK, NEW c \in Conns, NEW place \in Places, Go(c, place),
         UNCHANGED <<server, addr, device, mu, maps, calls>>,
         peer' \in [Conns -> {"open", "full", "gone"}],
         dataStore' \in [Conns -> {"none", "made", "nil"}],
         ticker' \in [Conns -> {"off", "started", "ticking"}]
  PROVE  TypeOK'
BY DEF TypeOK, Go, server, maps, calls

LEMMA AcceptIInv ==
  ASSUME IInv, NEW c \in Conns, NEW a \in Addrs, Accept(c, a)
  PROVE  IInv'
<1> USE DEF Accept, Go, server, maps, calls
<1>1. /\ pc \in [Conns -> Places] /\ pc[c] = "new"
      /\ addr \in [Conns -> Addrs \cup {None}]
  BY DEF IInv, TypeOK
<1>2. TypeOK' BY DEF IInv, TypeOK, Places
<1>3. \A o \in Conns : pc[o] \in Named =>
         pc'[o] = pc[o] /\ addr'[o] = addr[o] /\ device'[o] = device[o]
  BY <1>1 DEF Named, Registered
<1>4. Names BY EntriesName
<1>5. MutexDiscipline' BY <1>1 DEF IInv, MutexDiscipline, Critical
<1>6. HandlerFacts' BY <1>1 DEF IInv, HandlerFacts, LoggedIn, Registered
<1>7. RegistryNamesServedDevice' BY <1>3, <1>4 DEF Names, IInv, RegistryNamesServedDevice
<1>8. AddressEntriesHaveOwner' BY <1>3, <1>4 DEF Names, IInv, AddressEntriesHaveOwner
<1>9. CallFacts' BY <1>3, <1>4 DEF Names, IInv, CallFacts
<1>10. CommandReachesItsDevice' BY <1>3, <1>4 DEF Names, IInv, CommandReachesItsDevice
<1> QED BY <1>2, <1>5, <1>6, <1>7, <1>8, <1>9, <1>10 DEF IInv

LEMMA LoginReadsIInv ==
  ASSUME IInv, NEW c \in Conns, NEW d \in Devices, LoginReads(c, d)
  PROVE  IInv'
<1> USE DEF LoginReads, Go, server, maps, calls
<1>1. /\ pc \in [Conns -> Places] /\ pc[c] = "login"
      /\ device \in [Conns -> Devices \cup {None}]
  BY DEF IInv, TypeOK
<1>2. TypeOK' BY DEF IInv, TypeOK, Places
<1>3. \A o \in Conns : pc[o] \in Named =>
         pc'[o] = pc[o] /\ addr'[o] = addr[o] /\ device'[o] = device[o]
  BY <1>1 DEF Named, Registered
<1>4. Names BY EntriesName
<1>5. MutexDiscipline' BY <1>1 DEF IInv, MutexDiscipline, Critical
<1>6. HandlerFacts' BY <1>1 DEF IInv, HandlerFacts, LoggedIn, Registered
<1>7. RegistryNamesServedDevice' BY <1>3, <1>4 DEF Names, IInv, RegistryNamesServedDevice
<1>8. AddressEntriesHaveOwner' BY <1>3, <1>4 DEF Names, IInv, AddressEntriesHaveOwner
<1>9. CallFacts' BY <1>3, <1>4 DEF Names, IInv, CallFacts
<1>10. CommandReachesItsDevice' BY <1>3, <1>4 DEF Names, IInv, CommandReachesItsDevice
<1> QED BY <1>2, <1>5, <1>6, <1>7, <1>8, <1>9, <1>10 DEF IInv

LEMMA LockIInv ==
  ASSUME IInv, NEW c \in Conns, Lock(c)
  PROVE  IInv'
<1> USE DEF Lock, Go, server, maps, calls
<1>1. /\ pc \in [Conns -> Places] /\ pc[c] \in Waiting
      /\ Entered[pc[c]] \in Critical
      /\ pc' = [pc EXCEPT ![c] = Entered[pc[c]]]
  BY DEF IInv, TypeOK, Waiting, Entered, Critical
<1>2. /\ pc[c] \in LoggedIn /\ pc[c] # "new"
      /\ pc[c] \in Registered => Entered[pc[c]] \in Registered
      /\ pc[c] \in Stored => Entered[pc[c]] \in Stored
      /\ Entered[pc[c]] \in Named
  BY <1>1 DEF Waiting, Entered, LoggedIn, Registered, Stored, Named
<1>3. \A o \in Conns :
         /\ pc[o] \in Registered => pc'[o] \in Registered
         /\ pc[o] \in Stored => pc'[o] \in Stored
         /\ pc[o] \in Named => pc'[o] \in Named
  BY <1>1, <1>2
<1>4. Names BY EntriesName
<1>5. TypeOK'
  <2>1. pc' \in [Conns -> Places] BY <1>1 DEF Places, Registered, Critical
  <2> QED BY <2>1 DEF IInv, TypeOK
<1>6. MutexDiscipline'
  BY <1>1, NoneAssumption DEF IInv, MutexDiscipline
<1>7. HandlerFacts' BY <1>1, <1>2 DEF IInv, HandlerFacts
<1>8. RegistryNamesServedDevice' BY <1>3, <1>4 DEF Names, IInv, RegistryNamesServedDevice
<1>9. AddressEntriesHaveOwner' BY <1>3, <1>4 DEF Names, IInv, AddressEntriesHaveOwner
<1>10. CallFacts' BY <1>3, <1>4 DEF Names, IInv, CallFacts
<1>11. CommandReachesItsDevice' BY DEF IInv, CommandReachesItsDevice
<1> QED BY <1>5, <1>6, <1>7, <1>8, <1>9, <1>10, <1>11 DEF IInv

\* Leaving a critical section frees mu, which no other handler can hold.
LEMMA UnlockMutex ==
  ASSUME IInv, NEW c \in Conns, NEW place \in Places \ Critical,
         pc[c] \in Critical, pc' = [pc EXCEPT ![c] = place], mu' = None
  PROVE  MutexDiscipline'
<1>1. pc \in [Conns -> Places] BY DEF IInv, TypeOK
<1>2. \A o \in Conns : o # c => pc[o] \notin Critical
  BY DEF IInv, MutexDiscipline
<1> QED BY <1>1, <1>2, NoneAssumption DEF MutexDiscipline

LEMMA RecordLoginIInv ==
  ASSUME IInv, NEW c \in Conns, RecordLogin(c)
  PROVE  IInv'
<1>1. /\ pc \in [Conns -> Places] /\ pc[c] = "recordLogin"
      /\ pc' = [pc EXCEPT ![c] = "makeStore"]
      /\ addr[c] \in Addrs /\ device[c] \in Devices /\ device[c] # None
      /\ mu' = None
  BY NoneAssumption DEF IInv, TypeOK, HandlerFacts, LoggedIn, RecordLogin, Go
<1>2. /\ [conn |-> c, protocol |-> c] \in Info
      /\ imeiToConnMap' = [imeiToConnMap EXCEPT
                              ![device[c]] = [conn |-> c, protocol |-> c]]
      /\ connToProtocolMap' = [connToProtocolMap EXCEPT ![addr[c]] = c]
  BY <1>1 DEF RecordLogin, Info
<1>3. UNCHANGED <<process, storeType, storeHung, addr, device, dataStore, peer, ticker,
                  connToStoreMap, callPc, callImei, target, reply>>
  BY DEF RecordLogin, server, calls
<1>4. \A o \in Conns :
         /\ pc[o] \in Registered => pc'[o] \in Registered
         /\ pc[o] \in Stored => pc'[o] \in Stored
         /\ pc[o] \in Named => pc'[o] \in Named
  BY <1>1 DEF Registered, Stored, Named
<1>5. pc'[c] \in Registered BY <1>1 DEF Registered
<1>6. Names BY EntriesName
<1>7. TypeOK'
  <2>1. pc' \in [Conns -> Places] BY <1>1 DEF Places, Registered
  <2>2. imeiToConnMap' \in [Devices -> Info \cup {None}]
    BY <1>1, <1>2 DEF IInv, TypeOK
  <2>3. connToProtocolMap' \in [Addrs -> Conns \cup {None}]
    BY <1>1, <1>2 DEF IInv, TypeOK
  <2> QED BY <1>1, <1>3, <2>1, <2>2, <2>3 DEF IInv, TypeOK
<1>8. MutexDiscipline' BY <1>1, UnlockMutex DEF Critical, Places, Registered
<1>9. HandlerFacts' BY <1>1, <1>3 DEF IInv, HandlerFacts, LoggedIn, Registered
<1>10. RegistryNamesServedDevice'
  <2>1. \A d \in Devices : imeiToConnMap'[d] =
           IF d = device[c] THEN [conn |-> c, protocol |-> c] ELSE imeiToConnMap[d]
    BY <1>2 DEF IInv, TypeOK
  <2> QED BY <2>1, <1>3, <1>4, <1>5, <1>6
          DEF Names, IInv, RegistryNamesServedDevice
<1>11. AddressEntriesHaveOwner'
  <2>1. \A a \in Addrs : connToProtocolMap'[a] =
           IF a = addr[c] THEN c ELSE connToProtocolMap[a]
    BY <1>2 DEF IInv, TypeOK
  <2> QED BY <2>1, <1>3, <1>4, <1>5, <1>6 DEF Names, IInv, AddressEntriesHaveOwner
<1>12. CallFacts' BY <1>3, <1>4, <1>6 DEF Names, IInv, CallFacts
<1>13. CommandReachesItsDevice' BY <1>3 DEF IInv, CommandReachesItsDevice
<1> QED BY <1>7, <1>8, <1>9, <1>10, <1>11, <1>12, <1>13 DEF IInv

LEMMA RecordStoreIInv ==
  ASSUME IInv, NEW c \in Conns, RecordStore(c)
  PROVE  IInv'
<1>1. /\ pc \in [Conns -> Places] /\ pc[c] = "recordStore"
      /\ pc' = [pc EXCEPT ![c] = "ack"]
      /\ addr[c] \in Addrs /\ mu' = None
      /\ connToStoreMap' = [connToStoreMap EXCEPT ![addr[c]] = c]
  BY DEF IInv, TypeOK, HandlerFacts, RecordStore, Go
<1>2. UNCHANGED <<process, storeType, storeHung, addr, device, dataStore, peer, ticker,
                  connToProtocolMap, imeiToConnMap,
                  callPc, callImei, target, reply>>
  BY DEF RecordStore, server, calls
<1>3. \A o \in Conns :
         /\ pc[o] \in Registered => pc'[o] \in Registered
         /\ pc[o] \in Stored => pc'[o] \in Stored
         /\ pc[o] \in Named => pc'[o] \in Named
  BY <1>1 DEF Registered, Stored, Named
<1>4. pc'[c] \in Stored BY <1>1 DEF Stored
<1>5. Names BY EntriesName
<1>6. TypeOK'
  <2>1. pc' \in [Conns -> Places] BY <1>1 DEF Places, Registered
  <2>2. connToStoreMap' \in [Addrs -> Conns \cup {None}]
    BY <1>1 DEF IInv, TypeOK
  <2> QED BY <1>1, <1>2, <2>1, <2>2 DEF IInv, TypeOK
<1>7. MutexDiscipline' BY <1>1, UnlockMutex DEF Critical, Places, Registered
<1>8. HandlerFacts' BY <1>1, <1>2 DEF IInv, HandlerFacts, LoggedIn, Registered
<1>9. RegistryNamesServedDevice'
  BY <1>2, <1>3, <1>5 DEF Names, IInv, RegistryNamesServedDevice
<1>10. AddressEntriesHaveOwner'
  <2>1. \A a \in Addrs : connToStoreMap'[a] =
           IF a = addr[c] THEN c ELSE connToStoreMap[a]
    BY <1>1 DEF IInv, TypeOK
  <2> QED BY <2>1, <1>2, <1>3, <1>4, <1>5 DEF Names, IInv, AddressEntriesHaveOwner
<1>11. CallFacts' BY <1>2, <1>3, <1>5 DEF Names, IInv, CallFacts
<1>12. CommandReachesItsDevice' BY <1>2 DEF IInv, CommandReachesItsDevice
<1> QED BY <1>6, <1>7, <1>8, <1>9, <1>10, <1>11, <1>12 DEF IInv

LEMMA CleanMapsIInv ==
  ASSUME IInv, NEW c \in Conns, CleanMaps(c)
  PROVE  IInv'
<1>1. /\ pc \in [Conns -> Places] /\ pc[c] = "clean"
      /\ pc' = [pc EXCEPT ![c] = "finish"]
      /\ addr[c] \in Addrs /\ mu' = None
      /\ connToProtocolMap' = [connToProtocolMap EXCEPT ![addr[c]] = None]
      /\ connToStoreMap' = [connToStoreMap EXCEPT ![addr[c]] = None]
  BY DEF IInv, TypeOK, HandlerFacts, CleanMaps, Go
<1>2. UNCHANGED <<process, storeType, storeHung, addr, device, dataStore, peer, ticker,
                  callPc, callImei, target, reply>>
  BY DEF CleanMaps, server, calls
<1>3. \A o \in Conns \ {c} : pc'[o] = pc[o]
  BY <1>1
<1>4. \A o \in Conns : pc[o] \in Named => pc'[o] \in Named
  BY <1>1 DEF Named
<1>5. Names BY EntriesName
<1>6. imeiToConnMap \in [Devices -> Info \cup {None}] BY DEF IInv, TypeOK
\* The loop with its break removes every entry that names c: there is at most
\* one, the entry of c's own device.
<1>7. /\ imeiToConnMap' \in [Devices -> Info \cup {None}]
      /\ \A d \in Devices : imeiToConnMap'[d] # None =>
            imeiToConnMap'[d] = imeiToConnMap[d] /\ imeiToConnMap[d].conn # c
  <2>1. \A d \in EntriesOf(c) : d = device[c]
    BY DEF EntriesOf, IInv, RegistryNamesServedDevice
  <2>2. CASE EntriesOf(c) = {}
    BY <1>6, <2>2 DEF CleanMaps, EntriesOf
  <2>3. CASE EntriesOf(c) # {}
    <3>1. PICK d \in EntriesOf(c) :
             imeiToConnMap' = [imeiToConnMap EXCEPT ![d] = None]
      BY <2>3 DEF CleanMaps
    <3> QED BY <1>6, <2>1, <3>1 DEF EntriesOf
  <2> QED BY <2>2, <2>3
<1>8. TypeOK'
  <2>1. pc' \in [Conns -> Places] BY <1>1 DEF Places
  <2>2. /\ connToProtocolMap' \in [Addrs -> Conns \cup {None}]
        /\ connToStoreMap' \in [Addrs -> Conns \cup {None}]
    BY <1>1 DEF IInv, TypeOK
  <2> QED BY <1>1, <1>2, <1>7, <2>1, <2>2 DEF IInv, TypeOK
<1>9. MutexDiscipline'
  BY <1>1, UnlockMutex DEF Critical, Places, Registered
<1>10. HandlerFacts' BY <1>1, <1>2 DEF IInv, HandlerFacts, LoggedIn, Registered
<1>11. RegistryNamesServedDevice'
  BY <1>2, <1>3, <1>5, <1>7 DEF Names, IInv, RegistryNamesServedDevice
<1>12. AddressEntriesHaveOwner'
  <2>1. \A a \in Addrs :
           /\ connToProtocolMap'[a] = IF a = addr[c] THEN None ELSE connToProtocolMap[a]
           /\ connToStoreMap'[a] = IF a = addr[c] THEN None ELSE connToStoreMap[a]
    BY <1>1 DEF IInv, TypeOK
  <2> QED BY <2>1, <1>2, <1>3, <1>5 DEF Names, IInv, AddressEntriesHaveOwner
<1>13. CallFacts' BY <1>2, <1>4, <1>5 DEF Names, IInv, CallFacts
<1>14. CommandReachesItsDevice' BY <1>2 DEF IInv, CommandReachesItsDevice
<1> QED BY <1>8, <1>9, <1>10, <1>11, <1>12, <1>13, <1>14 DEF IInv

\* The steps of a handler that only move it, none of them in or out of a
\* critical section.
LEMMA MovesIInv ==
  ASSUME IInv, NEW c \in Conns,
         \/ LoginFails(c) \/ VerifySucceeds(c) \/ VerifyRefuses(c)
         \/ \E made \in {"made", "nil"} : MakeAsyncStore(c, made)
         \/ WriteAck(c) \/ WriteAckFails(c) \/ Backpressure(c)
         \/ WorkerDrains(c) \/ ConsumeReturns(c) \/ CloseStore(c) \/ Finish(c)
  PROVE  IInv'
<1> DEFINE Edges == {<<"login", "done">>, <<"verify", "lockLogin">>,
                     <<"verify", "done">>, <<"makeStore", "lockStore">>,
                     <<"ack", "serve">>, <<"ack", "closeStore">>,
                     <<"serve", "blocked">>, <<"blocked", "serve">>,
                     <<"serve", "closeStore">>, <<"closeStore", "lockClean">>,
                     <<"finish", "done">>}
<1>1. PICK place : Go(c, place) /\ <<pc[c], place>> \in Edges
  BY DEF LoginFails, VerifySucceeds, VerifyRefuses, MakeAsyncStore, WriteAck,
         WriteAckFails, Backpressure, WorkerDrains, ConsumeReturns, CloseStore,
         Finish, Closes
<1>2. /\ UNCHANGED <<server, addr, device, mu, maps, calls>>
      /\ peer' \in [Conns -> {"open", "full", "gone"}]
      /\ dataStore' \in [Conns -> {"none", "made", "nil"}]
      /\ ticker' \in [Conns -> {"off", "started", "ticking"}]
  <2>0. /\ peer \in [Conns -> {"open", "full", "gone"}]
        /\ dataStore \in [Conns -> {"none", "made", "nil"}]
        /\ ticker \in [Conns -> {"off", "started", "ticking"}]
    BY DEF IInv, TypeOK
  <2>1. CASE \E made \in {"made", "nil"} : MakeAsyncStore(c, made)
    BY <2>0, <2>1 DEF MakeAsyncStore
  <2>2. CASE WriteAck(c)
    BY <2>0, <2>2 DEF WriteAck
  <2>3. CASE UNCHANGED <<server, addr, device, dataStore, peer, ticker, mu, maps, calls>>
    BY <2>0, <2>3
  <2>4. CASE LoginFails(c) \/ VerifyRefuses(c) \/ Finish(c)
    BY <2>0, <2>4 DEF LoginFails, VerifyRefuses, Finish, Closes
  <2> QED
    BY <2>1, <2>2, <2>3, <2>4
    DEF VerifySucceeds, WriteAckFails, Backpressure, WorkerDrains,
        ConsumeReturns, CloseStore
<1>3. place \in Places \ Critical /\ pc[c] \in Places \ Critical
  BY <1>1 DEF Places, Critical, Registered
<1>4. /\ pc[c] # "new" /\ place # "new"
      /\ place \in LoggedIn => pc[c] \in LoggedIn
      /\ pc[c] \in Registered => place \in Registered
      /\ pc[c] \in Stored => place \in Stored
      /\ pc[c] \in Named => place \in Named
  BY <1>1 DEF LoggedIn, Registered, Stored, Named
<1>5. TypeOK' BY <1>1, <1>2, <1>3, MoveTypeOK DEF IInv, server
<1> QED BY <1>1, <1>2, <1>3, <1>4, <1>5, HandlerMoves DEF Go, calls

\* The steps of SendCommand and the arrival of a call.
LEMMA CallsIInv ==
  ASSUME IInv, NEW k \in Calls,
         \/ \E d \in Devices : Request(k, d)
         \/ GetConnInfoByIMEI(k) \/ DeviceNotFound(k) \/ LookupTears(k)
         \/ CommandFlushed(k) \/ CommandFlushFails(k) \/ NothingToFlush(k)
  PROVE  IInv'
<1>1. Names BY EntriesName
<1>2. /\ callPc \in [Calls -> {"idle", "lookup", "send", "replied"}]
      /\ callImei \in [Calls -> Devices \cup {None}]
      /\ target \in [Calls -> Info \cup {None}]
      /\ reply \in [Calls -> {"none", "Device not found", "Failed to flush writer",
                              "Command sent successfully"}]
  BY DEF IInv, TypeOK
<1>3. CASE \E d \in Devices : Request(k, d)
  <2>1. PICK d \in Devices : Request(k, d) BY <1>3
  <2>2. TypeOK' BY <1>2, <2>1 DEF Request, server, handlers, maps, IInv, TypeOK
  <2>3. CallFacts'
    BY <1>2, <2>1 DEF Request, handlers, IInv, CallFacts
  <2>4. CommandReachesItsDevice'
    BY <1>2, <2>1 DEF Request, handlers, IInv, CallFacts, CommandReachesItsDevice
  <2> QED BY <2>1, <2>2, <2>3, <2>4, CallAdvances DEF Request
\* A lookup whose result names connections of the device that are past their
\* login; which of the two lookups it was does not matter.
<1>4. ASSUME NEW info \in Info, callPc[k] = "lookup",
             info.conn \in Conns /\ info.protocol \in Conns,
             pc[info.conn] \in Named /\ pc[info.protocol] \in Named,
             device[info.conn] = callImei[k] /\ device[info.protocol] = callImei[k],
             target' = [target EXCEPT ![k] = info],
             callPc' = [callPc EXCEPT ![k] = "send"],
             UNCHANGED <<server, handlers, mu, maps, callImei, reply>>
      PROVE  IInv'
  <2>1. TypeOK' BY <1>2, <1>4 DEF server, handlers, maps, IInv, TypeOK
  <2>2. CallFacts' BY <1>2, <1>4 DEF handlers, IInv, CallFacts
  <2>3. CommandReachesItsDevice'
    BY <1>2, <1>4 DEF handlers, IInv, CommandReachesItsDevice
  <2> QED BY <1>4, <2>1, <2>2, <2>3, CallAdvances
<1>5. ASSUME callPc[k] = "lookup"
      PROVE  /\ callImei[k] \in Devices
             /\ imeiToConnMap[callImei[k]] # None =>
                  LET info == imeiToConnMap[callImei[k]]
                  IN  /\ info \in Info /\ info.conn \in Conns
                      /\ info.protocol = info.conn
                      /\ pc[info.conn] \in Named
                      /\ device[info.conn] = callImei[k]
  BY <1>1, <1>5 DEF Names, IInv, CallFacts, RegistryNamesServedDevice
<1>6. CASE GetConnInfoByIMEI(k)
  BY <1>4, <1>5, <1>6 DEF GetConnInfoByIMEI
<1>7. CASE LookupTears(k)
  <2> DEFINE old == imeiToConnMap[callImei[k]]
  <2>1. /\ mu \in Conns /\ pc[mu] \in Named /\ device[mu] = callImei[k]
    BY <1>7 DEF LookupTears, ImeiMapBeingWritten, IInv, TypeOK, Named
  <2>2. PICK torn \in {[old EXCEPT !.conn = mu], [old EXCEPT !.protocol = mu]} :
           target' = [target EXCEPT ![k] = torn]
    BY <1>7 DEF LookupTears
  <2>3. /\ torn \in Info
        /\ torn.conn \in {old.conn, mu} /\ torn.protocol \in {old.protocol, mu}
    BY <1>5, <1>7, <2>1, <2>2 DEF LookupTears, Info
  <2> QED BY <1>4, <1>5, <1>7, <2>1, <2>2, <2>3 DEF LookupTears
<1>8. CASE DeviceNotFound(k) \/ CommandFlushed(k) \/ CommandFlushFails(k) \/ NothingToFlush(k)
  <2>1. /\ callPc' = [callPc EXCEPT ![k] = "replied"]
        /\ \E r \in {"Device not found", "Failed to flush writer",
                     "Command sent successfully"} : reply' = [reply EXCEPT ![k] = r]
        /\ callImei' = [callImei EXCEPT ![k] = None]
        /\ target' = [target EXCEPT ![k] = None]
        /\ UNCHANGED <<server, handlers, mu, maps>>
    BY <1>2, <1>8 DEF DeviceNotFound, CommandFlushed, CommandFlushFails,
                      NothingToFlush, Replies
  <2>2. TypeOK'
    <3>1. callPc' \in [Calls -> {"idle", "lookup", "send", "replied"}]
      BY <1>2, <2>1
    <3>2. reply' \in [Calls -> {"none", "Device not found", "Failed to flush writer",
                               "Command sent successfully"}]
      BY <1>2, <2>1
    <3>3. /\ callImei' \in [Calls -> Devices \cup {None}]
          /\ target' \in [Calls -> Info \cup {None}]
      BY <1>2, <2>1
    <3> QED BY <2>1, <3>1, <3>2, <3>3 DEF server, handlers, maps, IInv, TypeOK
  <2>3. CallFacts' BY <1>2, <2>1 DEF handlers, IInv, CallFacts
  <2>4. CommandReachesItsDevice'
    BY <1>2, <2>1 DEF handlers, IInv, CommandReachesItsDevice
  <2> QED BY <2>1, <2>2, <2>3, <2>4, CallAdvances
<1> QED BY <1>3, <1>6, <1>7, <1>8

\* What kills the process, what the environment does, and stuttering.
LEMMA ElsewhereIInv ==
  ASSUME IInv,
         \/ Crash \/ StoreHangs \/ UNCHANGED vars
         \/ \E c \in Conns : PeerGone(c) \/ PeerStopsReading(c)
         \/ \E c \in Conns : Tick(c) \/ TickerReturns(c)
  PROVE  IInv'
<1>1. TypeOK'
  <2>1. CASE Crash \/ StoreHangs \/ UNCHANGED vars
    BY <2>1, ZenonT(30) DEF Crash, StoreHangs, vars, server, handlers, maps, calls, IInv, TypeOK
  <2>2. ASSUME NEW c \in Conns, PeerGone(c) \/ PeerStopsReading(c) PROVE TypeOK'
    BY <2>2 DEF PeerGone, PeerStopsReading, server, maps, calls, IInv, TypeOK
  <2>3. ASSUME NEW c \in Conns, Tick(c) \/ TickerReturns(c) PROVE TypeOK'
    <3>1. ticker \in [Conns -> {"off", "started", "ticking"}]
      BY DEF IInv, TypeOK
    <3>2. /\ ticker' \in [Conns -> {"off", "started", "ticking"}]
          /\ UNCHANGED <<server, pc, addr, device, dataStore, peer, mu, maps, calls>>
      BY <2>3, <3>1 DEF Tick, TickerReturns
    <3> QED BY <3>2 DEF server, maps, calls, IInv, TypeOK
  <2> QED BY <2>1, <2>2, <2>3
<1>2. UNCHANGED view
  BY DEF Crash, StoreHangs, PeerGone, PeerStopsReading, Tick, TickerReturns, vars,
         server, handlers, maps, calls, view
<1> QED BY <1>1, <1>2, ViewUnchanged

LEMMA NextIInv == IInv /\ [Next]_vars => IInv'
<1> SUFFICES ASSUME IInv, [Next]_vars PROVE IInv' OBVIOUS
<1>1. ASSUME NEW c \in Conns, HandleConnection(c) PROVE IInv'
  <2>1. CASE Lock(c) BY <2>1, LockIInv
  <2>2. CASE RecordLogin(c) BY <2>2, RecordLoginIInv
  <2>3. CASE RecordStore(c) BY <2>3, RecordStoreIInv
  <2>4. CASE CleanMaps(c) BY <2>4, CleanMapsIInv
  <2>5. CASE \E d \in Devices : LoginReads(c, d) BY <2>5, LoginReadsIInv
  <2>6. CASE OpenFilePanics(c) \/ CloseNilStorePanics(c)
    BY <2>6, ElsewhereIInv DEF OpenFilePanics, CloseNilStorePanics
  <2> QED
    BY <1>1, <2>1, <2>2, <2>3, <2>4, <2>5, <2>6, MovesIInv
    DEF HandleConnection, Proceeds, Verify, MakeStore, Cleanup
<1>2. ASSUME NEW k \in Calls, SendCommand(k) PROVE IInv'
  BY <1>2, CallsIInv, ElsewhereIInv DEF SendCommand, LookupAborts
<1>3. CASE Rest \/ UNCHANGED vars BY <1>3, ElsewhereIInv DEF Rest
<1> QED BY <1>1, <1>2, <1>3, AcceptIInv, CallsIInv, ElsewhereIInv DEF Next

-----------------------------------------------------------------------------
\* In every reachable state the registry invariants and all they rest on hold.
THEOREM Invariance == Spec => []IInv
BY InitIInv, NextIInv, PTL DEF Spec

\* The three maps hold what their Go types say (tcpHandler.go:32-40), and
\* every handler and call is at a place of the model.
THEOREM TypeCorrect == Spec => []TypeOK
<1>1. IInv => TypeOK BY DEF IInv
<1> QED BY <1>1, Invariance, PTL

\* mu is held exactly in the critical sections of HandleConnection: the map
\* writes exclude each other and nobody waits elsewhere holding it.
THEOREM MutualExclusion == Spec => []MutexDiscipline
<1>1. IInv => MutexDiscipline BY DEF IInv
<1> QED BY <1>1, Invariance, PTL

\* However many connections a device opens, and in whatever order their
\* handlers run, imeiToConnMap names only connections that logged in under
\* that IMEI and have not been cleaned up.
THEOREM RegistryIsRight == Spec => []RegistryNamesServedDevice
<1>1. IInv => RegistryNamesServedDevice BY DEF IInv
<1> QED BY <1>1, Invariance, PTL

\* The address-keyed maps never leak an entry, even when addresses are reused
\* before the old handler has cleaned up.
THEOREM AddressMapsDoNotLeak == Spec => []AddressEntriesHaveOwner
<1>1. IInv => AddressEntriesHaveOwner BY DEF IInv
<1> QED BY <1>1, Invariance, PTL

\* A command never reaches another device's socket, torn lookups included.
THEOREM CommandsReachTheirDevice == Spec => []CommandReachesItsDevice
<1>1. IInv => CommandReachesItsDevice BY DEF IInv
<1> QED BY <1>1, Invariance, PTL

-----------------------------------------------------------------------------
(* The action property, from the same invariant.                             *)

\* What a step may do to imeiToConnMap.
RegistryStep ==
    \A d \in Devices :
        imeiToConnMap[d] # None /\ imeiToConnMap'[d] # imeiToConnMap[d] =>
           IF imeiToConnMap'[d] = None
           THEN /\ pc[imeiToConnMap[d].conn] = "clean"
                /\ pc'[imeiToConnMap[d].conn] = "finish"
           ELSE /\ pc[imeiToConnMap'[d].conn] = "recordLogin"
                /\ device[imeiToConnMap'[d].conn] = d

LEMMA NextRegistryStep == IInv /\ [Next]_vars => RegistryStep
<1> SUFFICES ASSUME IInv, [Next]_vars PROVE RegistryStep OBVIOUS
<1>1. ASSUME NEW c \in Conns, RecordLogin(c) PROVE RegistryStep
  <2>1. /\ device[c] \in Devices /\ device[c] # None /\ pc[c] = "recordLogin"
        /\ imeiToConnMap \in [Devices -> Info \cup {None}]
    BY <1>1, NoneAssumption DEF IInv, TypeOK, HandlerFacts, LoggedIn, RecordLogin
  <2>2. imeiToConnMap' = [imeiToConnMap EXCEPT
                            ![device[c]] = [conn |-> c, protocol |-> c]]
    BY <1>1, <2>1 DEF RecordLogin
  <2>3. [conn |-> c, protocol |-> c] # None
    BY NoneAssumption DEF Info
  <2> QED BY <2>1, <2>2, <2>3 DEF RegistryStep
<1>2. ASSUME NEW c \in Conns, CleanMaps(c) PROVE RegistryStep
  <2>1. /\ pc \in [Conns -> Places] /\ pc[c] = "clean"
        /\ pc' = [pc EXCEPT ![c] = "finish"]
        /\ imeiToConnMap \in [Devices -> Info \cup {None}]
    BY <1>2 DEF IInv, TypeOK, CleanMaps, Go
  <2>2. CASE EntriesOf(c) = {} BY <1>2, <2>2 DEF CleanMaps, RegistryStep
  <2>3. CASE EntriesOf(c) # {}
    <3>1. PICK d \in EntriesOf(c) :
             imeiToConnMap' = [imeiToConnMap EXCEPT ![d] = None]
      BY <1>2, <2>3 DEF CleanMaps
    <3>2. imeiToConnMap[d].conn = c BY DEF EntriesOf
    <3> QED BY <2>1, <3>1, <3>2 DEF RegistryStep
  <2> QED BY <2>2, <2>3
<1>3. CASE UNCHANGED imeiToConnMap BY <1>3 DEF RegistryStep
<1>4. CASE UNCHANGED vars BY <1>3, <1>4 DEF vars, maps
<1>5. ASSUME NEW c \in Conns, HandleConnection(c),
             ~RecordLogin(c), ~CleanMaps(c)
      PROVE  UNCHANGED imeiToConnMap
  BY <1>5 DEF HandleConnection, Proceeds, LoginFails, LoginReads, Verify,
     VerifySucceeds, VerifyRefuses, Lock, MakeStore, OpenFilePanics,
     MakeAsyncStore, RecordStore, WriteAck, WriteAckFails, WorkerDrains, Cleanup,
     CloseStore, CloseNilStorePanics, Finish, Backpressure, ConsumeReturns,
     Crash, maps
<1>6. ASSUME NEW k \in Calls, SendCommand(k) \/ \E d \in Devices : Request(k, d)
      PROVE  UNCHANGED imeiToConnMap
  BY <1>6 DEF SendCommand, Request, GetConnInfoByIMEI, DeviceNotFound,
     LookupAborts, LookupTears, CommandFlushed, CommandFlushFails,
     NothingToFlush, Crash, maps
<1>7. ASSUME NEW c \in Conns,
             \/ PeerGone(c) \/ PeerStopsReading(c) \/ Tick(c) \/ TickerReturns(c)
             \/ \E a \in Addrs : Accept(c, a)
      PROVE  UNCHANGED imeiToConnMap
  BY <1>7 DEF PeerGone, PeerStopsReading, Tick, TickerReturns, Accept, maps
<1>8. CASE StoreHangs \/ Rest BY <1>3, <1>4, <1>8 DEF StoreHangs, Rest, maps
<1> QED BY <1>1, <1>2, <1>3, <1>4, <1>5, <1>6, <1>7, <1>8 DEF Next

\* A device that reconnects stays reachable: an older handler's cleanup never
\* removes or replaces the entry of a newer login.
THEOREM ReconnectedDeviceKeepsItsEntry == Spec => EntryOutlivesOlderHandlers
<1>1. IInv /\ [Next]_vars => [RegistryStep]_vars BY NextRegistryStep
<1>2. [][RegistryStep]_vars => EntryOutlivesOlderHandlers
  BY PTL DEF EntryOutlivesOlderHandlers, RegistryStep
<1> QED BY <1>1, <1>2, Invariance, PTL DEF Spec
=============================================================================
