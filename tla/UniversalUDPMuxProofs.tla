----------------------- MODULE UniversalUDPMuxProofs ------------------------
(***************************************************************************)
(* The safety of the UDP mux and of the universal UDP mux, for any keys,   *)
(* addresses, connections, writers, servers and queries.                   *)
(***************************************************************************)
EXTENDS UniversalUDPMux, TLAPS

-----------------------------------------------------------------------------
\* The inductive invariant of the UDP mux.

\* A connection whose addresses have not been swept out of addressMap.
Unswept(c) == Listed(c) \/ \E S \in sweeps : c \in S

\* No connection is swept twice, and one that has not been made has no state.
SweepsOK ==
    /\ \A S, T \in sweeps : S # T => S \cap T = {}
    /\ muxClosed => \A s \in Slots : conns[s] = NoConn
    /\ \A c \in Conns : ~Made(c) => addresses[c] = {} /\ c \notin closedChan
    /\ \A w \in Writers : writer[w] # Idle => Made(writer[w].conn)

\* RoutesIntact, extended to closed connections and to those that wait for their
\* sweep: what a sweep deletes is its own.
Routes ==
    ~raced /\ ~muxClosed => \A c \in Conns : \A a \in addresses[c] :
        Unswept(c) /\ ~InFlight(c, a) => addressMap[a] = c

IInv == TypeOK /\ SweepsOK /\ Routes /\ ListedWhileOpen

-----------------------------------------------------------------------------
\* What leaves the lists waits for its sweep instead.
LEMMA Delisting ==
    ASSUME TypeOK, SweepsOK, NEW C \in SUBSET Conns, \A c \in C : Listed(c),
           delist(C), slot' = slot,
           sweeps' = IF C = {} THEN sweeps ELSE sweeps \cup {C}
    PROVE  /\ conns' \in [Slots -> Conns \cup {NoConn}]
           /\ \A c \in Conns : Listed(c)' <=> Listed(c) /\ c \notin C
           /\ \A c \in Conns : Unswept(c)' <=> Unswept(c)
           /\ \A s \in Slots : conns'[s] # NoConn => slot[conns'[s]] = s
           /\ sweeps' \subseteq SUBSET Conns
           /\ \A S \in sweeps' : \A c \in S : Made(c) /\ ~Listed(c)'
           /\ \A S, T \in sweeps' : S # T => S \cap T = {}
           /\ muxClosed => \A s \in Slots : conns'[s] = NoConn
  <1> USE UDPMuxAssumption
  <1>1. conns' \in [Slots -> Conns \cup {NoConn}]
    BY DEF delist, TypeOK
  <1>2. \A c \in Conns : Listed(c)' <=> Listed(c) /\ c \notin C
    BY <1>1 DEF delist, Listed, Made, TypeOK
  <1>3. \A s \in Slots : conns'[s] # NoConn => slot[conns'[s]] = s
    BY DEF delist, TypeOK
  <1>4. sweeps' \subseteq SUBSET Conns
    BY DEF TypeOK
  <1>5. \A S \in sweeps' : \A c \in S : Made(c) /\ ~Listed(c)'
    BY <1>2 DEF TypeOK, Listed
  <1>6. \A c \in Conns : Unswept(c)' <=> Unswept(c)
    BY <1>2 DEF Unswept
  <1>7. \A S, T \in sweeps' : S # T => S \cap T = {}
    BY DEF TypeOK, SweepsOK
  <1>8. muxClosed => \A s \in Slots : conns'[s] = NoConn
    BY DEF SweepsOK, delist
  <1> QED
    BY <1>1, <1>2, <1>3, <1>4, <1>5, <1>6, <1>7, <1>8

\* What is found under a key is listed and has this key.
LEMMA UnderKey ==
    ASSUME TypeOK, NEW k \in Keys
    PROVE  \A c \in listedUnder(k) : c \in Conns /\ Listed(c) /\ slot[c][1] = k
  BY UDPMuxAssumption DEF TypeOK, listedUnder, Listed, Made, Slots, Families

\* A new connection has no addresses, and takes a slot that is free.
LEMMA Step_GetConn ==
    ASSUME IInv, NEW c \in Conns, GetConn(c)
    PROVE  IInv'
  <1> USE UDPMuxAssumption
  <1>1. TypeOK'
    BY DEF GetConn, IInv, TypeOK, Made, Listed
  <1>2. SweepsOK'
    BY DEF GetConn, IInv, SweepsOK, Made
  <1>3. Routes'
    BY DEF GetConn, IInv, SweepsOK, Listed, Routes, Unswept, InFlight
  <1>4. ListedWhileOpen'
    BY DEF GetConn, IInv, TypeOK, Made, Listed, ListedWhileOpen, SameKey
  <1> QED
    BY <1>1, <1>2, <1>3, <1>4 DEF IInv

\* The removed connections wait for their sweep, so no route changes.
LEMMA Step_RemoveConnByUfrag ==
    ASSUME IInv, NEW k \in Keys, RemoveConnByUfrag(k)
    PROVE  IInv'
  <1> USE UDPMuxAssumption
  <1> DEFINE removed == listedUnder(k)
  <1>1. removed \in SUBSET Conns /\ \A c \in removed : Listed(c)
    BY UnderKey DEF IInv
  <1>2. sweeps' = IF removed = {} THEN sweeps ELSE sweeps \cup {removed}
    BY DEF RemoveConnByUfrag
  <1>3. delist(removed) /\ slot' = slot
    BY DEF RemoveConnByUfrag
  <1>4. /\ conns' \in [Slots -> Conns \cup {NoConn}]
        /\ \A d \in Conns : Listed(d)' <=> Listed(d) /\ d \notin removed
        /\ \A d \in Conns : Unswept(d)' <=> Unswept(d)
        /\ \A s \in Slots : conns'[s] # NoConn => slot[conns'[s]] = s
        /\ sweeps' \subseteq SUBSET Conns
        /\ \A S \in sweeps' : \A d \in S : Made(d) /\ ~Listed(d)'
        /\ \A S, T \in sweeps' : S # T => S \cap T = {}
        /\ muxClosed => \A s \in Slots : conns'[s] = NoConn
    BY <1>1, <1>2, <1>3, Delisting DEF IInv
  <1>5. TypeOK'
    BY <1>1, <1>4 DEF RemoveConnByUfrag, IInv, TypeOK, Made
  <1>6. SweepsOK'
    BY <1>4 DEF RemoveConnByUfrag, IInv, SweepsOK, Made
  <1>7. Routes'
    BY <1>4 DEF RemoveConnByUfrag, IInv, TypeOK, Routes, InFlight
  <1>8. ListedWhileOpen'
    BY <1>4, <1>1 DEF RemoveConnByUfrag, IInv, ListedWhileOpen, SameKey, Made
  <1> QED
    BY <1>5, <1>6, <1>7, <1>8 DEF IInv

\* A watcher removes at most one connection, of the key of its own.
LEMMA Step_removeConn ==
    ASSUME IInv, NEW c \in Conns, removeConn(c)
    PROVE  IInv'
  <1> USE UDPMuxAssumption
  <1> DEFINE removed == removable(c)
  <1>0. Made(c) /\ slot[c][1] \in Keys /\ slot[c] \in Slots
    BY DEF removeConn, IInv, TypeOK, SweepsOK, Made, Slots
  <1>1. removed \in SUBSET Conns /\ \A d \in removed : Listed(d)
    BY <1>0, UnderKey DEF IInv, removable, listedUnder, Families
  <1>2. sweeps' = IF removed = {} THEN sweeps ELSE sweeps \cup {removed}
    BY DEF removeConn
  <1>3. delist(removed) /\ slot' = slot
    BY DEF removeConn
  <1>4. /\ conns' \in [Slots -> Conns \cup {NoConn}]
        /\ \A d \in Conns : Listed(d)' <=> Listed(d) /\ d \notin removed
        /\ \A d \in Conns : Unswept(d)' <=> Unswept(d)
        /\ \A s \in Slots : conns'[s] # NoConn => slot[conns'[s]] = s
        /\ sweeps' \subseteq SUBSET Conns
        /\ \A S \in sweeps' : \A d \in S : Made(d) /\ ~Listed(d)'
        /\ \A S, T \in sweeps' : S # T => S \cap T = {}
        /\ muxClosed => \A s \in Slots : conns'[s] = NoConn
    BY <1>1, <1>2, <1>3, Delisting DEF IInv
  <1>5. TypeOK'
    BY <1>1, <1>4 DEF removeConn, IInv, TypeOK, Made
  <1>6. SweepsOK'
    BY <1>4 DEF removeConn, IInv, SweepsOK, Made
  <1>7. Routes'
    BY <1>4 DEF removeConn, IInv, TypeOK, Routes, InFlight
  <1>8. \A d \in removed : slot[d][1] = slot[c][1]
    BY <1>0, UnderKey DEF IInv, removable, listedUnder, Families
  <1>9. ListedWhileOpen'
    BY <1>0, <1>1, <1>4, <1>8 DEF removeConn, IInv, ListedWhileOpen, SameKey, Made
  <1> QED
    BY <1>5, <1>6, <1>7, <1>9 DEF IInv

\* A sweep deletes routes of the swept connections only: an address of one of
\* them that another connection had, too, would have two routes.
LEMMA Step_sweep ==
    ASSUME IInv, NEW S \in sweeps, sweep(S)
    PROVE  IInv'
  <1> USE UDPMuxAssumption
  <1>1. TypeOK'
    BY DEF sweep, IInv, TypeOK, Made, Listed
  <1>2. SweepsOK'
    BY DEF sweep, IInv, SweepsOK, Made
  <1>3. Routes'
    <2> SUFFICES ASSUME ~raced', ~muxClosed, NEW c \in Conns, NEW a \in addresses[c],
                        Unswept(c)', ~InFlight(c, a)
                 PROVE  addressMap'[a] = c
      BY DEF sweep, Routes, InFlight
    <2>1. Unswept(c) /\ c \notin S
      BY DEF sweep, Unswept, Listed, IInv, TypeOK, SweepsOK
    <2>2. addressMap[a] = c
      BY <2>1 DEF sweep, IInv, Routes
    <2>3. ASSUME NEW e \in S, a \in addresses[e] PROVE FALSE
      <3>1. e \in Conns /\ Unswept(e) /\ ~InFlight(e, a)
        BY DEF sweep, IInv, TypeOK, Unswept
      <3>2. addressMap[a] = e
        BY <2>3, <3>1 DEF sweep, IInv, Routes
      <3> QED
        BY <2>1, <2>2, <3>2
    <2>4. a \in Addrs
      BY DEF IInv, TypeOK
    <2> QED
      BY <2>2, <2>3, <2>4 DEF sweep
  <1>4. ListedWhileOpen'
    BY DEF sweep, IInv, Made, Listed, ListedWhileOpen, SameKey
  <1> QED
    BY <1>1, <1>2, <1>3, <1>4 DEF IInv

\* Close closes all that is listed.
LEMMA Step_Close ==
    ASSUME IInv, Close, UNCHANGED worker
    PROVE  IInv'
  <1> USE UDPMuxAssumption
  <1>1. TypeOK'
    BY DEF Close, IInv, TypeOK, Made, Listed
  <1>2. SweepsOK'
    BY DEF Close, IInv, SweepsOK, Made, Listed
  <1>3. Routes'
    BY DEF Close, Routes
  <1>4. ListedWhileOpen'
    BY DEF Close, IInv, Made, ListedWhileOpen, SameKey
  <1> QED
    BY <1>1, <1>2, <1>3, <1>4 DEF IInv

\* A closed connection stays listed until its watcher removes it.
LEMMA Step_connClose ==
    ASSUME IInv, NEW c \in Conns, connClose(c)
    PROVE  IInv'
  <1> USE UDPMuxAssumption
  <1>1. TypeOK'
    BY DEF connClose, IInv, TypeOK, Made, Listed, tableVars
  <1>2. SweepsOK'
    BY DEF connClose, IInv, SweepsOK, Made, tableVars
  <1>3. Routes'
    BY DEF connClose, IInv, SweepsOK, Listed, tableVars, Routes, Unswept,
       InFlight
  <1>4. ListedWhileOpen'
    BY DEF connClose, IInv, Made, Listed, tableVars, ListedWhileOpen, SameKey
  <1> QED
    BY <1>1, <1>2, <1>3, <1>4 DEF IInv

\* A connection without addresses has no routes to keep.
LEMMA Step_dropsAddresses ==
    ASSUME IInv, NEW c \in Conns, dropsAddresses(c)
    PROVE  IInv'
  <1> USE UDPMuxAssumption
  <1>1. TypeOK'
    BY DEF dropsAddresses, IInv, TypeOK, Made, Listed, tableVars
  <1>2. SweepsOK'
    BY DEF dropsAddresses, IInv, SweepsOK, Made, tableVars
  <1>3. Routes'
    BY DEF dropsAddresses, IInv, SweepsOK, Listed, tableVars, Routes, Unswept,
       InFlight
  <1>4. ListedWhileOpen'
    BY DEF dropsAddresses, IInv, Made, Listed, tableVars, ListedWhileOpen,
       SameKey
  <1> QED
    BY <1>1, <1>2, <1>3, <1>4 DEF IInv

\* The test changes no route.
LEMMA Step_WriteTo ==
    ASSUME IInv, NEW w \in Writers, NEW c \in Conns, NEW a \in Addrs, WriteTo(w, c, a)
    PROVE  IInv'
  <1> USE UDPMuxAssumption
  <1>1. TypeOK'
    <2>1. plan' \in [slots : [Conns -> Slots \cup {NoSlot}],
                    writes : [Writers \X Conns -> Nat], packets : Nat]
      <3> DEFINE left == [plan.writes EXCEPT ![<<w, c>>] = @ - 1]
      <3>1. left \in [Writers \X Conns -> Nat]
        BY DEF WriteTo, IInv, TypeOK
      <3>2. plan' = [plan EXCEPT !.writes = left]
        BY Zenon DEF WriteTo
      <3> HIDE DEF left
      <3> QED
        BY <3>1, <3>2 DEF IInv, TypeOK
    <2>2. writer' \in [Writers -> Writes]
      BY DEF WriteTo, IInv, TypeOK, Writes
    <2> QED
      BY <2>1, <2>2 DEF WriteTo, IInv, TypeOK, tableVars, Listed, Made
  <1>2. SweepsOK'
    BY DEF WriteTo, IInv, SweepsOK, Made, tableVars
  <1>3. Routes'
    BY DEF WriteTo, Idle, IInv, SweepsOK, Listed, tableVars, Routes, Unswept,
       InFlight
  <1>4. ListedWhileOpen'
    BY DEF WriteTo, IInv, Made, Listed, tableVars, ListedWhileOpen, SameKey
  <1> QED
    BY <1>1, <1>2, <1>3, <1>4 DEF IInv

\* An address that has been appended has its route only after the registration;
\* until then the write is in flight.
LEMMA Step_addAddress ==
    ASSUME IInv, NEW w \in Writers, addAddress(w)
    PROVE  IInv'
  <1> USE UDPMuxAssumption
  <1>1. TypeOK'
    BY DEF addAddress, Idle, IInv, TypeOK, Made, Listed, tableVars, Writes,
       Receipts
  <1>2. SweepsOK'
    BY DEF addAddress, Idle, IInv, SweepsOK, Made, tableVars
  <1>3. Routes'
    BY DEF addAddress, Idle, IInv, TypeOK, SweepsOK, Listed, tableVars,
       Routes, Unswept, InFlight, Writes
  <1>4. ListedWhileOpen'
    BY DEF addAddress, IInv, Made, Listed, tableVars, ListedWhileOpen, SameKey
  <1> QED
    BY <1>1, <1>2, <1>3, <1>4 DEF IInv

\* The connection that had the address forgets it, so the new route contradicts
\* none.
LEMMA Step_registerConnForAddress ==
    ASSUME IInv, NEW w \in Writers, registerConnForAddress(w)
    PROVE  IInv'
  <1> USE UDPMuxAssumption
  <1>1. TypeOK'
    <2>1. writer' \in [Writers -> Writes]
      BY DEF registerConnForAddress, Idle, IInv, TypeOK, Writes
    <2>2. /\ addressMap' \in [Addrs -> Conns \cup {NoConn}]
          /\ addresses' \in [Conns -> SUBSET Addrs]
      <3>1. writer[w].conn \in Conns /\ writer[w].addr \in Addrs
        BY DEF registerConnForAddress, Idle, IInv, TypeOK, Writes
      <3>2. CASE UNCHANGED <<addressMap, addresses>>
        BY <3>2 DEF IInv, TypeOK
      <3>3. CASE takeAddress(writer[w].conn, writer[w].addr)
        BY <3>1, <3>3 DEF takeAddress, IInv, TypeOK
      <3> QED
        BY <3>2, <3>3 DEF registerConnForAddress
    <2> QED
      BY <2>1, <2>2 DEF registerConnForAddress, IInv, TypeOK, Made, Listed, tableVars
  <1>2. SweepsOK'
    BY DEF registerConnForAddress, takeAddress, IInv, SweepsOK, Made,
       tableVars
  <1>3. Routes'
    BY DEF registerConnForAddress, takeAddress, IInv, TypeOK, SweepsOK,
       Listed, tableVars, Routes, Unswept, InFlight
  <1>4. ListedWhileOpen'
    BY DEF registerConnForAddress, IInv, Made, Listed, tableVars,
       ListedWhileOpen, SameKey
  <1> QED
    BY <1>1, <1>2, <1>3, <1>4 DEF IInv

\* The worker looks up a connection and changes no route.
LEMMA Step_receives ==
    ASSUME IInv, NEW a \in Addrs, NEW u \in Ufrags \cup {NoUfrag}, receives(a, u)
    PROVE  IInv'
  <1> USE UDPMuxAssumption
  <1>1. TypeOK'
    BY DEF receives, IInv, TypeOK, Made, Listed, Slots, tableVars, Receipts
  <1>2. SweepsOK'
    BY DEF receives, IInv, SweepsOK, Made, tableVars
  <1>3. Routes'
    BY DEF receives, IInv, SweepsOK, Listed, tableVars, Routes, Unswept,
       InFlight
  <1>4. ListedWhileOpen'
    BY DEF receives, IInv, Made, Listed, tableVars, ListedWhileOpen, SameKey
  <1> QED
    BY <1>1, <1>2, <1>3, <1>4 DEF IInv

\* So does the look-up by ufrag.
LEMMA Step_findsByUfrag ==
    ASSUME IInv, findsByUfrag
    PROVE  IInv'
  <1> USE UDPMuxAssumption
  <1>1. TypeOK'
    BY DEF findsByUfrag, Reading, IInv, TypeOK, Made, Listed, tableVars,
       Receipts
  <1>2. SweepsOK'
    BY DEF findsByUfrag, IInv, SweepsOK, Made, tableVars
  <1>3. Routes'
    BY DEF findsByUfrag, IInv, SweepsOK, Listed, tableVars, Routes, Unswept,
       InFlight
  <1>4. ListedWhileOpen'
    BY DEF findsByUfrag, IInv, Made, Listed, tableVars, ListedWhileOpen,
       SameKey
  <1> QED
    BY <1>1, <1>2, <1>3, <1>4 DEF IInv

\* Delivery changes no route.
LEMMA Step_writePacket ==
    ASSUME IInv, writePacket
    PROVE  IInv'
  <1> USE UDPMuxAssumption
  <1>1. TypeOK'
    BY DEF writePacket, Reading, IInv, TypeOK, Made, Listed, tableVars,
       Receipts
  <1>2. SweepsOK'
    BY DEF writePacket, IInv, SweepsOK, Made, tableVars
  <1>3. Routes'
    BY DEF writePacket, IInv, SweepsOK, Listed, tableVars, Routes, Unswept,
       InFlight
  <1>4. ListedWhileOpen'
    BY DEF writePacket, IInv, Made, Listed, tableVars, ListedWhileOpen,
       SameKey
  <1> QED
    BY <1>1, <1>2, <1>3, <1>4 DEF IInv

\* The worker that ends closes the mux like Close.
LEMMA Step_workerEnds ==
    ASSUME IInv, workerEnds
    PROVE  IInv'
  <1> USE UDPMuxAssumption
  <1>1. TypeOK'
    <2>1. worker' \in Receipts
      BY DEF workerEnds, Ended, Reading, Receipts
    <2>2. CASE Close
      BY <2>1, <2>2 DEF Close, IInv, TypeOK, Listed, Made
    <2>3. CASE ~Close
      BY <2>1, <2>3 DEF workerEnds, IInv, TypeOK, Listed, Made, tableVars
    <2> QED
      BY <2>2, <2>3
  <1>2. SweepsOK'
    BY DEF workerEnds, Close, IInv, SweepsOK, Made, Listed, tableVars
  <1>3. Routes'
    BY DEF workerEnds, Close, tableVars, Routes
  <1>4. ListedWhileOpen'
    BY DEF workerEnds, Close, IInv, Made, Listed, tableVars, ListedWhileOpen,
       SameKey
  <1> QED
    BY <1>1, <1>2, <1>3, <1>4 DEF IInv

\* Every reachable state of the UDP mux satisfies the inductive invariant.
THEOREM MuxInvariance == Spec => []IInv
  <1>1. Init => IInv
    <2> SUFFICES ASSUME Init PROVE IInv
      OBVIOUS
    <2>1. TypeOK
      BY UDPMuxAssumption DEF Init, TypeOK, Reading, Writes, Receipts
    <2>2. SweepsOK /\ Routes /\ ListedWhileOpen
      BY DEF Init, SweepsOK, Routes, ListedWhileOpen, Made
    <2> QED
      BY <2>1, <2>2 DEF IInv
  <1>2. IInv /\ [Next]_vars => IInv'
    <2> SUFFICES ASSUME IInv, [Next]_vars PROVE IInv'
      OBVIOUS
    <2>1. CASE UNCHANGED vars
      BY <2>1 DEF vars, IInv, TypeOK, SweepsOK, Routes, Unswept, InFlight,
         ListedWhileOpen, SameKey, Listed, Made
    <2>2. CASE Next
      BY <2>2, Step_GetConn, Step_RemoveConnByUfrag, Step_removeConn, Step_sweep,
         Step_Close, Step_connClose, Step_dropsAddresses, Step_WriteTo, Step_addAddress,
         Step_registerConnForAddress, Step_receives, Step_findsByUfrag, Step_writePacket,
         Step_workerEnds, Zenon DEF Next, Write, connWorker
    <2> QED
      BY <2>1, <2>2
  <1> QED
    BY <1>1, <1>2, PTL DEF Spec

\* Types of the lists, the address map and the writers, for every number of
\* connections, addresses and writers.
THEOREM TypeCorrect == Spec => []TypeOK
  <1>1. IInv => TypeOK
    BY DEF IInv
  <1> QED
    BY <1>1, MuxInvariance, PTL

\* Whatever is closed, removed or registered in whatever order, addressMap leads
\* the packets of an address to the open connection that last wrote there.
THEOREM RoutingIntact == Spec => []RoutesIntact
  <1>1. IInv => RoutesIntact
    <2> SUFFICES ASSUME IInv PROVE RoutesIntact
      OBVIOUS
    <2>1. CASE muxClosed
      BY <2>1, UDPMuxAssumption DEF IInv, TypeOK, SweepsOK, RoutesIntact, Listed, Made
    <2>2. CASE ~muxClosed
      BY <2>2 DEF IInv, Routes, RoutesIntact, Unswept
    <2> QED
      BY <2>1, <2>2
  <1> QED
    BY <1>1, MuxInvariance, PTL

\* No open connection drops out of the lists except for the two stated reasons.
THEOREM OpenStaysListed == Spec => []ListedWhileOpen
  <1>1. IInv => ListedWhileOpen
    BY DEF IInv
  <1> QED
    BY <1>1, MuxInvariance, PTL

-----------------------------------------------------------------------------
\* The universal mux.

\* Querying servers never disturbs the mux: the universal mux is a UDP mux.
THEOREM UniversalIsUDPMux == UniversalSpec => IsUDPMux
  <1>1. UniversalInit => Init
    BY DEF UniversalInit
  <1>2. [UniversalNext]_allVars => [Next]_vars
    BY DEF UniversalNext, MuxStep, allVars
  <1> QED
    BY <1>1, <1>2, PTL DEF UniversalSpec, Spec, IsUDPMux

\* The inductive invariant of the cache: an entry belongs to one server, and a
\* call whose entry nobody has deleted waits for the one in the map.
OneServerEach ==
    \A s, t \in Servers :
        xorMappedMap[s] = xorMappedMap[t] => s = t \/ xorMappedMap[s] = NoEntry

WaitersOK ==
    \A q \in Queries :
        /\ query[q].pc \in {"sending", "waiting"} => query[q].server \in Servers
        /\ query[q].pc = "waiting" =>
            /\ query[q].entry \in made
            /\ ~overtaken => xorMappedMap[query[q].server] = query[q].entry

XorInv == XorTypeOK /\ NoLostWakeup /\ SafeWhileWaitedFor /\ OneServerEach /\ WaitersOK

\* An expired entry is released before it is deleted.
LEMMA Xor_GetXORMappedAddr ==
    ASSUME XorInv, NEW q \in Queries, NEW s \in Servers, GetXORMappedAddr(q, s)
    PROVE  XorInv'
  <1> DEFINE e == xorMappedMap[s]
  <1> USE UniversalAssumption
  <1>0. /\ query[q].pc = "new" /\ UNCHANGED <<made, answered, expired, reader, panicked>>
        /\ e \in Entries \cup {NoEntry}
    BY DEF GetXORMappedAddr, XorInv, XorTypeOK
  <1>1. PICK pc \in {"found", "sending"} :
            query' = [query EXCEPT ![q] = [pc |-> pc, server |-> s, entry |-> NoEntry]]
    BY DEF GetXORMappedAddr, AtQuery
  <1>2. query' \in [Queries -> Calls]
    BY <1>1 DEF XorInv, XorTypeOK, Calls, Outcomes
  <1>3. \A r \in Queries : query'[r].pc \in {"waiting", "noMapping"} => query'[r] = query[r]
    BY <1>1 DEF XorInv, XorTypeOK
  <1>4. CASE UNCHANGED <<xorMappedMap, released, overtaken>>
    <2>1. XorTypeOK' /\ OneServerEach' /\ SafeWhileWaitedFor'
      BY <1>0, <1>2, <1>3, <1>4 DEF XorInv, XorTypeOK, OneServerEach,
         SafeWhileWaitedFor
    <2>2. NoLostWakeup' /\ WaitersOK'
      BY <1>0, <1>1, <1>3, <1>4 DEF XorInv, XorTypeOK, NoLostWakeup, WaitersOK
    <2> QED
      BY <2>1, <2>2 DEF XorInv
  <1>5. CASE e # NoEntry /\ expires(e) /\ xorMappedMap' = [xorMappedMap EXCEPT ![s] = NoEntry]
    <2>1. XorTypeOK' /\ OneServerEach' /\ SafeWhileWaitedFor'
      BY <1>0, <1>2, <1>3, <1>5 DEF expires, XorInv, XorTypeOK, OneServerEach,
         SafeWhileWaitedFor
    <2>2. NoLostWakeup'
      BY <1>0, <1>3, <1>5 DEF expires, XorInv, XorTypeOK, NoLostWakeup, WaitersOK
    <2>3. WaitersOK'
      BY <1>0, <1>1, <1>3, <1>5 DEF expires, Waiting, XorInv, XorTypeOK, WaitersOK
    <2> QED
      BY <2>1, <2>2, <2>3 DEF XorInv
  <1> QED
    BY <1>4, <1>5 DEF GetXORMappedAddr

\* A call waits for the entry that is in the map.
LEMMA Xor_sendStun ==
    ASSUME XorInv, NEW q \in Queries, sendStun(q)
    PROVE  XorInv'
  <1> DEFINE s == query[q].server
             e == entryFor(s)
  <1> USE UniversalAssumption DEF sendStun, AtQuery
  <1>0. s \in Servers
    BY DEF XorInv, WaitersOK
  <1>1. /\ e \in Entries
        /\ xorMappedMap[s] # NoEntry => e = xorMappedMap[s]
        /\ xorMappedMap[s] = NoEntry => e \notin made
    BY <1>0 DEF entryFor, XorInv, XorTypeOK
  <1>2. XorTypeOK'
    <2>1. query' \in [Queries -> Calls]
      BY <1>0, <1>1 DEF XorInv, XorTypeOK, Calls, Outcomes
    <2> QED
      BY <2>1, <1>0, <1>1 DEF XorInv, XorTypeOK
  <1>3. NoLostWakeup'
    BY <1>0, <1>1 DEF XorInv, XorTypeOK, NoLostWakeup, WaitersOK
  <1>4. SafeWhileWaitedFor'
    BY <1>0, <1>1 DEF XorInv, XorTypeOK, SafeWhileWaitedFor
  <1>5. OneServerEach'
    BY <1>0, <1>1 DEF XorInv, XorTypeOK, OneServerEach
  <1>6. WaitersOK'
    BY <1>0, <1>1 DEF XorInv, XorTypeOK, WaitersOK
  <1> QED
    BY <1>2, <1>3, <1>4, <1>5, <1>6 DEF XorInv

\* A call that wakes up finds an answered entry, unless the one it waited for
\* was deleted under it.
LEMMA Xor_wakes ==
    ASSUME XorInv, NEW q \in Queries, wakes(q)
    PROVE  XorInv'
  BY UniversalAssumption DEF wakes, XorInv, XorTypeOK, NoLostWakeup,
     SafeWhileWaitedFor, OneServerEach, WaitersOK, Calls, Outcomes

\* A call that times out waits for nothing.
LEMMA Xor_deadline ==
    ASSUME XorInv, NEW q \in Queries, deadline(q)
    PROVE  XorInv'
  BY UniversalAssumption DEF deadline, XorInv, XorTypeOK, NoLostWakeup,
     SafeWhileWaitedFor, OneServerEach, WaitersOK, Calls, Outcomes

\* Growing old changes nothing by itself.
LEMMA Xor_ttlPasses ==
    ASSUME XorInv, NEW e \in Entries, ttlPasses(e)
    PROVE  XorInv'
  BY UniversalAssumption DEF ttlPasses, XorInv, XorTypeOK, NoLostWakeup,
     SafeWhileWaitedFor, OneServerEach, WaitersOK

\* The test of a response changes nothing but where ReadFrom is.
LEMMA Xor_isXORMappedResponse ==
    ASSUME XorInv, NEW s \in Servers, isXORMappedResponse(s)
    PROVE  XorInv'
  BY UniversalAssumption DEF isXORMappedResponse, XorInv, XorTypeOK,
     NoLostWakeup, SafeWhileWaitedFor, OneServerEach, WaitersOK

\* An answer sets the address of the entry that is in the map by then, and
\* releases it.
LEMMA Xor_handleXORMappedResponse ==
    ASSUME XorInv, handleXORMappedResponse
    PROVE  XorInv'
  BY UniversalAssumption DEF handleXORMappedResponse, SetAddr, XorInv,
     XorTypeOK, NoLostWakeup, SafeWhileWaitedFor, OneServerEach, WaitersOK

\* Every reachable state of the cache satisfies the inductive invariant.
THEOREM CacheInvariance == UniversalSpec => []XorInv
  <1>1. UniversalInit => XorInv
    <2> SUFFICES ASSUME UniversalInit PROVE XorInv
      OBVIOUS
    <2>1. \A q \in Queries : /\ query[q] \in [pc : {"new", "timeout"}, server : {NoServer},
                                              entry : {NoEntry}]
                             /\ query[q].pc \notin {"sending", "waiting", "noMapping"}
      BY DEF UniversalInit, AtQuery
    <2>2. \E Q : query = [q \in Queries |-> Q[q]]
      BY <2>1 DEF UniversalInit
    <2>3. query \in [Queries -> Calls]
      BY <2>1, <2>2 DEF Calls, Outcomes
    <2> QED
      BY <2>1, <2>3, UniversalAssumption DEF UniversalInit, XorInv, XorTypeOK,
         NoLostWakeup, SafeWhileWaitedFor, OneServerEach, WaitersOK
  <1>2. XorInv /\ [UniversalNext]_allVars => XorInv'
    <2> SUFFICES ASSUME XorInv, [UniversalNext]_allVars PROVE XorInv'
      OBVIOUS
    <2>1. CASE UNCHANGED xorVars
      BY <2>1 DEF xorVars, XorInv, XorTypeOK, NoLostWakeup, SafeWhileWaitedFor,
         OneServerEach, WaitersOK
    <2>2. CASE UniversalStep
      BY <2>2, Xor_GetXORMappedAddr, Xor_sendStun, Xor_wakes, Xor_deadline,
         Xor_ttlPasses, Xor_isXORMappedResponse, Xor_handleXORMappedResponse DEF
         UniversalStep, Proceed
    <2> QED
      BY <2>1, <2>2 DEF UniversalNext, allVars
  <1> QED
    BY <1>1, <1>2, PTL DEF UniversalSpec

\* An entry in the map that has released its waiters has an address.
THEOREM CacheTypes == UniversalSpec => []XorTypeOK
  <1>1. XorInv => XorTypeOK
    BY DEF XorInv
  <1> QED
    BY <1>1, CacheInvariance, PTL

\* No call of GetXORMappedAddr is left waiting for an entry that no answer can
\* reach.
THEOREM NoWaiterLost == UniversalSpec => []NoLostWakeup
  <1>1. XorInv => NoLostWakeup
    BY DEF XorInv
  <1> QED
    BY <1>1, CacheInvariance, PTL

\* No call panics or fails for want of a mapping as long as no entry expires under
\* a waiter.
THEOREM QueriesSafe == UniversalSpec => []SafeWhileWaitedFor
  <1>1. XorInv => SafeWhileWaitedFor
    BY DEF XorInv
  <1> QED
    BY <1>1, CacheInvariance, PTL
=============================================================================
