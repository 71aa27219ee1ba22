---------------------------- MODULE TCPMuxProofs ----------------------------
(***************************************************************************)
(* The safety of the TCP mux, for any ufrags, packet conns, TCP            *)
(* connections and size of the receive buffer.                             *)
(***************************************************************************)
EXTENDS TCPMux, TLAPS

-----------------------------------------------------------------------------
\* The inductive invariant: how the holder of mu, the lists, the goroutines and
\* the sockets fit together.

HolderOK ==
    /\ \A s \in mu.todo : table[s] # NoConn /\ \E q \in asked : slot[q][1] = s[1]
    /\ mu.at # NoConn =>
        mu.at \in closedChan /\ slot[mu.at] \in mu.todo /\ table[slot[mu.at]] = mu.at
    /\ mu.who \in PacketConns => mu.who \in closedChan
    /\ mu.who = "close" => closeCall = "locked"

GoroutinesOK ==
    /\ \A p \in closedChan \cup handed \cup asked : Made(p)
    /\ \A p \in PacketConns : Made(p) /\ p \notin closedChan => p \in watching
    /\ closeCall # "none" => closed
    /\ closeCall = "returned" => goroutinesGone

SocketsOK ==
    \A c \in TCPConns :
        /\ tcp[c].pc \in {"none", "ended"} => c \notin open
        /\ tcp[c].pc \in {"none", "accepted", "named", "abandoned"} =>
                tcp[c].conn = NoConn
        /\ tcp[c].pc \in {"sending", "reading", "data", "error", "removing"} =>
                tcp[c].conn \in PacketConns /\ Made(tcp[c].conn)
        /\ tcp[c].conn \in closedChan => c \notin open
        /\ tcp[c].pc = "named" => tcp[c].slot \in Slots

IInv ==
    /\ TypeOK
    /\ HolderOK /\ GoroutinesOK /\ SocketsOK
    /\ OpenListed
    /\ ClosedOnPurpose
    /\ NoSendOnClosed

\* Types of what the actions assign.
LEMMA GoesToType ==
    ASSUME tcp \in [TCPConns -> Goroutines], NEW c \in TCPConns,
           NEW pc \in {"reading", "data", "error", "removing", "ended"}, goesTo(c, pc)
    PROVE  tcp' \in [TCPConns -> Goroutines]
  <1>1. [tcp[c] EXCEPT !.pc = pc] \in Goroutines
    BY DEF Goroutines
  <1>2. tcp' = [tcp EXCEPT ![c] = [tcp[c] EXCEPT !.pc = pc]]
    BY DEF goesTo
  <1> QED
    BY <1>1, <1>2, Zenon

\* A send on recvChan keeps to its capacity.
LEMMA SendType ==
    ASSUME recvChan \in [PacketConns -> Buffers], NEW p \in PacketConns,
           NEW kind \in {"data", "error"}, send(p, kind)
    PROVE  recvChan' \in [PacketConns -> Buffers]
  <1>1. Append(recvChan[p], kind) \in Buffers
    BY TCPMuxAssumption DEF send, Buffers
  <1> QED
    BY <1>1, Zenon DEF send

\* What is received from recvChan is a packet or an error.
LEMMA ReceiveType ==
    ASSUME NEW b \in Buffers, b # <<>>
    PROVE  Tail(b) \in Buffers /\ Head(b) \in {"data", "error"}
  BY TCPMuxAssumption DEF Buffers

\* Taking mu gives a holder of the right type.
LEMMA HolderType ==
    ASSUME NEW who \in PacketConns \cup {"agent", "close"}, NEW S \in SUBSET Slots,
           lock(who, S)
    PROVE  mu' \in Holders
  <1>1. mu' = [who |-> who, todo |-> listedIn(S), at |-> NoConn, first |-> FALSE]
    BY DEF lock, Unlocked
  <1> QED
    BY <1>1 DEF Holders, listedIn

\* So does going on to the next packet conn.
LEMMA NextType ==
    ASSUME mu \in Holders, NEW at \in PacketConns \cup {NoConn},
           NEW T \in SUBSET Slots, NEW f \in BOOLEAN
    PROVE  /\ [mu EXCEPT !.at = at, !.first = f] \in Holders
           /\ [mu EXCEPT !.at = at, !.todo = T, !.first = f] \in Holders
  BY DEF Holders

\* Each action preserves the invariant.  GetConnByUfrag lists a packet conn only in
\* a slot that is free, so none that is open loses its place.
LEMMA Step_GetConnByUfrag ==
    ASSUME IInv, NEW s \in Slots, GetConnByUfrag(s)
    PROVE  IInv'
  <1> USE TCPMuxAssumption
  <1>1. TypeOK'
    BY DEF GetConnByUfrag, connFor, IInv, TypeOK, Made, packetVars
  <1>2. HolderOK' /\ OpenListed' /\ ClosedOnPurpose'
    <2>1. PICK p \in PacketConns : connFor(s, p)
      BY DEF GetConnByUfrag
    <2>2. HolderOK'
      BY <2>1 DEF GetConnByUfrag, Unlocked, HolderOK
    <2>3. OpenListed'
      BY <2>1 DEF GetConnByUfrag, connFor, IInv, TypeOK, OpenListed, Made,
         packetVars
    <2>4. ClosedOnPurpose'
      BY <2>1 DEF GetConnByUfrag, connFor, IInv, TypeOK, ClosedOnPurpose,
         GoroutinesOK, packetVars
    <2> QED
      BY <2>2, <2>3, <2>4
  <1>3. GoroutinesOK'
    BY DEF GetConnByUfrag, connFor, IInv, TypeOK, Made, packetVars,
       GoroutinesOK
  <1>4. SocketsOK' /\ NoSendOnClosed'
    BY DEF GetConnByUfrag, connFor, IInv, TypeOK, Made, packetVars, SocketsOK,
       NoSendOnClosed
  <1> QED
    BY <1>1, <1>2, <1>3, <1>4 DEF IInv

\* A new connection belongs to no packet conn.
LEMMA Step_Accept ==
    ASSUME IInv, NEW c \in TCPConns, Accept(c)
    PROVE  IInv'
  <1> USE TCPMuxAssumption
  <1>1. tcp' \in [TCPConns -> Goroutines]
    BY DEF Accept, AtTCP, IInv, TypeOK, Goroutines
  <1>2. TypeOK'
    BY <1>1 DEF Accept, IInv, TypeOK, packetVars, muxVars
  <1>3. HolderOK' /\ OpenListed' /\ ClosedOnPurpose'
    BY DEF Accept, IInv, Made, packetVars, muxVars, HolderOK, OpenListed,
       ClosedOnPurpose
  <1>4. GoroutinesOK'
    BY DEF Accept, IInv, Made, packetVars, muxVars, GoroutinesOK
  <1>5. SocketsOK' /\ NoSendOnClosed'
    BY DEF Accept, AtTCP, IInv, TypeOK, Made, packetVars, muxVars, SocketsOK,
       NoSendOnClosed
  <1> QED
    BY <1>2, <1>3, <1>4, <1>5 DEF IInv

\* The first packet names a slot, or the connection is closed or abandoned.
LEMMA Step_firstPacket ==
    ASSUME IInv, NEW c \in TCPConns, firstPacket(c)
    PROVE  IInv'
  <1> USE TCPMuxAssumption
  <1>1. tcp' \in [TCPConns -> Goroutines]
    BY DEF firstPacket, AtTCP, IInv, TypeOK, Goroutines
  <1>2. TypeOK'
    BY <1>1 DEF firstPacket, IInv, TypeOK, packetVars, muxVars
  <1>3. HolderOK' /\ OpenListed' /\ ClosedOnPurpose'
    BY DEF firstPacket, IInv, Made, packetVars, muxVars, HolderOK, OpenListed,
       ClosedOnPurpose
  <1>4. GoroutinesOK'
    BY DEF firstPacket, IInv, Made, packetVars, muxVars, GoroutinesOK,
       goroutinesGone
  <1>5. SocketsOK' /\ NoSendOnClosed'
    <2>1. \A d \in TCPConns \ {c} : tcp'[d] = tcp[d] /\ (d \in open' <=> d \in open)
      BY DEF firstPacket, AtTCP, IInv, TypeOK
    <2>2. tcp'[c].conn = NoConn /\ (tcp'[c].pc = "ended" => c \notin open')
          /\ (tcp'[c].pc = "named" => tcp'[c].slot \in Slots)
          /\ tcp'[c].pc \in {"named", "ended", "abandoned"}
      BY DEF firstPacket, AtTCP, IInv, TypeOK
    <2>3. NoConn \notin closedChan /\ NoConn \notin recvClosed
      BY DEF IInv, TypeOK
    <2>4. SocketsOK'
      BY <2>1, <2>2, <2>3 DEF firstPacket, IInv, SocketsOK, Made, muxVars, packetVars
    <2>5. NoSendOnClosed'
      BY <2>1, <2>2, <2>3 DEF firstPacket, IInv, NoSendOnClosed, packetVars
    <2> QED
      BY <2>4, <2>5
  <1> QED
    BY <1>2, <1>3, <1>4, <1>5 DEF IInv

\* A packet conn that handleConn makes is watched like any other; it adds a
\* connection only if the packet conn is not closed, so nobody sends on a closed
\* channel later.
LEMMA Step_handleConn ==
    ASSUME IInv, NEW c \in TCPConns, handleConn(c)
    PROVE  IInv'
  <1> USE TCPMuxAssumption
  <1>1. tcp' \in [TCPConns -> Goroutines]
    BY DEF handleConn, AtTCP, IInv, TypeOK, Goroutines
  <1>2. TypeOK'
    <2>1. PICK p \in PacketConns : connFor(tcp[c].slot, p)
      BY DEF handleConn
    <2>2. tcp[c].slot \in Slots
      BY DEF handleConn, IInv, SocketsOK
    <2>3. /\ slot' \in [PacketConns -> Slots \cup {NoSlot}]
          /\ table' \in [Slots -> PacketConns \cup {NoConn}]
          /\ watching' \subseteq PacketConns
      BY <2>1, <2>2 DEF connFor, IInv, TypeOK
    <2>4. \A s \in Slots : table'[s] # NoConn => slot'[table'[s]] = s
      BY <2>1, <2>2 DEF connFor, IInv, TypeOK, Made
    <2>5. open' \subseteq TCPConns
      BY DEF handleConn, IInv, TypeOK
    <2> QED
      BY <1>1, <2>3, <2>4, <2>5 DEF handleConn, IInv, TypeOK, packetVars
  <1>3. HolderOK' /\ OpenListed' /\ ClosedOnPurpose'
    <2>1. PICK p \in PacketConns : connFor(tcp[c].slot, p)
      BY DEF handleConn
    <2>2. tcp[c].slot \in Slots
      BY DEF handleConn, IInv, SocketsOK
    <2>3. HolderOK'
      BY <2>1, <2>2 DEF handleConn, Unlocked, HolderOK
    <2>4. OpenListed'
      BY <2>1, <2>2 DEF handleConn, connFor, IInv, TypeOK, OpenListed, Made, packetVars
    <2>5. ClosedOnPurpose'
      BY <2>1 DEF handleConn, connFor, IInv, TypeOK, ClosedOnPurpose, GoroutinesOK,
         packetVars
    <2> QED
      BY <2>3, <2>4, <2>5
  <1>4. GoroutinesOK'
    BY DEF handleConn, connFor, IInv, TypeOK, Made, packetVars, GoroutinesOK,
       goroutinesGone
  <1>5. SocketsOK' /\ NoSendOnClosed'
    BY DEF handleConn, connFor, accepts, AtTCP, IInv, TypeOK, Made,
       packetVars, HolderOK, SocketsOK, NoSendOnClosed
  <1> QED
    BY <1>2, <1>3, <1>4, <1>5 DEF IInv

\* The first packet is sent by a goroutine Close still waits for, so recvChan
\* is open.
LEMMA Step_sendsFirst ==
    ASSUME IInv, NEW c \in TCPConns, sendsFirst(c)
    PROVE  IInv'
  <1> USE TCPMuxAssumption
  <1>1. tcp' \in [TCPConns -> Goroutines]
    BY GoesToType DEF sendsFirst, afterSend, IInv, TypeOK
  <1>2. recvChan' \in [PacketConns -> Buffers]
    BY SendType DEF sendsFirst, IInv, TypeOK, SocketsOK
  <1>3. TypeOK'
    BY <1>1, <1>2 DEF sendsFirst, IInv, TypeOK, muxVars
  <1>4. HolderOK' /\ OpenListed' /\ ClosedOnPurpose'
    BY DEF sendsFirst, IInv, Made, muxVars, HolderOK, OpenListed,
       ClosedOnPurpose
  <1>5. GoroutinesOK'
    BY DEF sendsFirst, goesTo, IInv, Made, muxVars, GoroutinesOK,
       goroutinesGone
  <1>6. SocketsOK' /\ NoSendOnClosed'
    BY DEF sendsFirst, goesTo, IInv, Made, muxVars, SocketsOK, NoSendOnClosed
  <1> QED
    BY <1>3, <1>4, <1>5, <1>6 DEF IInv

\* Reading moves the goroutine on and touches no other state.
LEMMA Step_startReading ==
    ASSUME IInv, NEW c \in TCPConns, NEW kind \in {"data", "error"}, startReading(c, kind)
    PROVE  IInv'
  <1> USE TCPMuxAssumption
  <1>1. tcp' \in [TCPConns -> Goroutines]
    BY GoesToType DEF startReading, afterSend, IInv, TypeOK
  <1>2. TypeOK'
    BY <1>1 DEF startReading, IInv, TypeOK, packetVars, muxVars
  <1>3. HolderOK' /\ OpenListed' /\ ClosedOnPurpose'
    BY DEF startReading, IInv, Made, packetVars, muxVars, HolderOK,
       OpenListed, ClosedOnPurpose
  <1>4. GoroutinesOK'
    BY DEF startReading, goesTo, afterSend, IInv, Made, packetVars, muxVars,
       GoroutinesOK, goroutinesGone
  <1>5. SocketsOK' /\ NoSendOnClosed'
    BY DEF startReading, goesTo, afterSend, IInv, Made, packetVars, muxVars,
       SocketsOK, NoSendOnClosed
  <1> QED
    BY <1>2, <1>3, <1>4, <1>5 DEF IInv

\* A later packet is sent or dropped by a goroutine Close still waits for.
LEMMA Step_handleRecv ==
    ASSUME IInv, NEW c \in TCPConns, handleRecv(c)
    PROVE  IInv'
  <1> USE TCPMuxAssumption
  <1>1. tcp' \in [TCPConns -> Goroutines]
    BY GoesToType DEF handleRecv, afterSend, IInv, TypeOK
  <1>2. recvChan' \in [PacketConns -> Buffers]
    BY SendType DEF handleRecv, IInv, TypeOK, SocketsOK
  <1>3. TypeOK'
    BY <1>1, <1>2 DEF handleRecv, IInv, TypeOK, muxVars
  <1>4. HolderOK' /\ OpenListed' /\ ClosedOnPurpose'
    BY DEF handleRecv, IInv, Made, muxVars, HolderOK, OpenListed,
       ClosedOnPurpose
  <1>5. GoroutinesOK'
    BY DEF handleRecv, goesTo, afterSend, IInv, Made, muxVars, GoroutinesOK,
       goroutinesGone
  <1>6. SocketsOK' /\ NoSendOnClosed'
    BY DEF handleRecv, goesTo, afterSend, IInv, Made, muxVars, SocketsOK,
       NoSendOnClosed
  <1> QED
    BY <1>3, <1>4, <1>5, <1>6 DEF IInv

\* A goroutine that ends has closed its connection.
LEMMA Step_removeConn ==
    ASSUME IInv, NEW c \in TCPConns, removeConn(c)
    PROVE  IInv'
  <1> USE TCPMuxAssumption
  <1>1. tcp' \in [TCPConns -> Goroutines]
    BY GoesToType DEF removeConn, afterSend, IInv, TypeOK
  <1>2. TypeOK'
    BY <1>1 DEF removeConn, IInv, TypeOK, packetVars, muxVars
  <1>3. HolderOK' /\ OpenListed' /\ ClosedOnPurpose'
    BY DEF removeConn, IInv, Made, packetVars, muxVars, HolderOK, OpenListed,
       ClosedOnPurpose
  <1>4. GoroutinesOK'
    BY DEF removeConn, goesTo, IInv, Made, packetVars, muxVars, GoroutinesOK,
       goroutinesGone
  <1>5. SocketsOK' /\ NoSendOnClosed'
    BY DEF removeConn, goesTo, IInv, Made, packetVars, muxVars, SocketsOK,
       NoSendOnClosed
  <1> QED
    BY <1>2, <1>3, <1>4, <1>5 DEF IInv

\* Reading takes from recvChan only.
LEMMA Step_ReadFrom ==
    ASSUME IInv, NEW p \in PacketConns, ReadFrom(p)
    PROVE  IInv'
  <1> USE TCPMuxAssumption
  <1>1. recvChan' \in [PacketConns -> Buffers]
    <2>1. CASE recvChan[p] # <<>> /\ recvChan' = [recvChan EXCEPT ![p] = Tail(@)]
      BY <2>1, ReceiveType, Zenon DEF IInv, TypeOK
    <2>2. CASE UNCHANGED recvChan
      BY <2>2 DEF IInv, TypeOK
    <2> QED
      BY <2>1, <2>2 DEF ReadFrom
  <1>2. TypeOK'
    <2>1. readers' \in [PacketConns -> 0..MaxReaders]
      BY DEF ReadFrom, IInv, TypeOK
    <2> QED
      BY <1>1, <2>1 DEF ReadFrom, IInv, TypeOK, muxVars
  <1>3. HolderOK' /\ OpenListed' /\ ClosedOnPurpose'
    BY DEF ReadFrom, IInv, Made, muxVars, HolderOK, OpenListed,
       ClosedOnPurpose
  <1>4. GoroutinesOK'
    BY DEF ReadFrom, IInv, Made, muxVars, GoroutinesOK, goroutinesGone
  <1>5. SocketsOK' /\ NoSendOnClosed'
    BY DEF ReadFrom, IInv, Made, muxVars, SocketsOK, NoSendOnClosed
  <1> QED
    BY <1>2, <1>3, <1>4, <1>5 DEF IInv

\* A candidate's Close closes the sockets of its packet conn, which stays
\* listed until its watcher removes it.
LEMMA Step_connClose ==
    ASSUME IInv, NEW p \in PacketConns, connClose(p)
    PROVE  IInv'
  <1> USE TCPMuxAssumption
  <1>1. TypeOK'
    BY DEF connClose, shut, IInv, TypeOK, muxVars
  <1>2. HolderOK' /\ OpenListed' /\ ClosedOnPurpose'
    BY DEF connClose, shut, IInv, Made, muxVars, HolderOK, OpenListed,
       ClosedOnPurpose
  <1>3. GoroutinesOK'
    BY DEF connClose, shut, IInv, Made, muxVars, GoroutinesOK, goroutinesGone
  <1>4. SocketsOK' /\ NoSendOnClosed'
    BY DEF connClose, shut, ConnsOf, IInv, Made, muxVars, SocketsOK,
       NoSendOnClosed
  <1> QED
    BY <1>1, <1>2, <1>3, <1>4 DEF IInv

\* recvChan is closed when no goroutine of the packet conn is left.
LEMMA Step_connCloseReturns ==
    ASSUME IInv, NEW p \in PacketConns, connCloseReturns(p)
    PROVE  IInv'
  <1> USE TCPMuxAssumption
  <1>1. TypeOK'
    BY DEF connCloseReturns, IInv, TypeOK, muxVars
  <1>2. HolderOK' /\ OpenListed' /\ ClosedOnPurpose'
    BY DEF connCloseReturns, IInv, Made, muxVars, HolderOK, OpenListed,
       ClosedOnPurpose
  <1>3. GoroutinesOK'
    BY DEF connCloseReturns, IInv, Made, muxVars, GoroutinesOK, goroutinesGone
  <1>4. SocketsOK' /\ NoSendOnClosed'
    BY DEF connCloseReturns, joined, ConnsOf, IInv, Made, muxVars, SocketsOK,
       NoSendOnClosed
  <1> QED
    BY <1>1, <1>2, <1>3, <1>4 DEF IInv

\* A watcher closes what is listed under the ufrag of a closed packet conn, for
\* which somebody asked by ClosedOnPurpose.
LEMMA Step_watcherRemoves ==
    ASSUME IInv, NEW p \in PacketConns, watcherRemoves(p)
    PROVE  IInv'
  <1> USE TCPMuxAssumption
  <1>1. mu' \in Holders
    BY HolderType DEF watcherRemoves, IInv, TypeOK, Slots, GoroutinesOK, Made
  <1>2. TypeOK'
    BY <1>1 DEF watcherRemoves, lock, IInv, TypeOK, packetVars
  <1>3. HolderOK' /\ OpenListed' /\ ClosedOnPurpose'
    BY DEF watcherRemoves, lock, listedIn, Unlocked, IInv, Made, packetVars,
       HolderOK, OpenListed, ClosedOnPurpose
  <1>4. GoroutinesOK'
    BY DEF watcherRemoves, lock, IInv, Made, packetVars, GoroutinesOK,
       goroutinesGone
  <1>5. SocketsOK' /\ NoSendOnClosed'
    BY DEF watcherRemoves, lock, IInv, Made, packetVars, SocketsOK,
       NoSendOnClosed
  <1> QED
    BY <1>2, <1>3, <1>4, <1>5 DEF IInv

\* The agent asks for what is listed under one ufrag.
LEMMA Step_RemoveConnByUfrag ==
    ASSUME IInv, NEW k \in Ufrags, RemoveConnByUfrag(k)
    PROVE  IInv'
  <1> USE TCPMuxAssumption
  <1>1. mu' \in Holders
    BY HolderType DEF RemoveConnByUfrag, Slots, GoroutinesOK
  <1>2. TypeOK'
    <2>1. mu'.todo = listedIn({k} \X Families)
      BY DEF RemoveConnByUfrag, lock, Unlocked
    <2>2. asked' \subseteq PacketConns
      BY <2>1 DEF RemoveConnByUfrag, listedIn, IInv, TypeOK, Slots
    <2>3. plan' \in [slots : SUBSET Slots, conns : SUBSET TCPConns,
       gets : Nat, removes : Nat]
      BY DEF RemoveConnByUfrag, IInv, TypeOK
    <2> QED
      BY <1>1, <2>2, <2>3 DEF RemoveConnByUfrag, lock, IInv, TypeOK, packetVars
  <1>3. HolderOK' /\ OpenListed' /\ ClosedOnPurpose'
    BY DEF RemoveConnByUfrag, lock, listedIn, Unlocked, IInv, TypeOK, Slots,
       Made, packetVars, HolderOK, OpenListed, ClosedOnPurpose
  <1>4. GoroutinesOK'
    BY DEF RemoveConnByUfrag, lock, listedIn, IInv, TypeOK, Slots, Made,
       packetVars, GoroutinesOK, goroutinesGone
  <1>5. SocketsOK' /\ NoSendOnClosed'
    BY DEF RemoveConnByUfrag, lock, IInv, Made, packetVars, SocketsOK,
       NoSendOnClosed
  <1> QED
    BY <1>2, <1>3, <1>4, <1>5 DEF IInv

\* Close asks for everything that is listed.
LEMMA Step_Close ==
    ASSUME IInv, Close
    PROVE  IInv'
  <1> USE TCPMuxAssumption
  <1>1. mu' \in Holders
    BY HolderType DEF Close
  <1>2. TypeOK'
    BY <1>1 DEF Close, lock, listedIn, IInv, TypeOK, packetVars
  <1>3. HolderOK' /\ OpenListed' /\ ClosedOnPurpose'
    BY DEF Close, lock, listedIn, Unlocked, IInv, TypeOK, Made, packetVars,
       HolderOK, OpenListed, ClosedOnPurpose
  <1>4. GoroutinesOK'
    BY DEF Close, lock, listedIn, IInv, TypeOK, Made, packetVars, GoroutinesOK
  <1>5. SocketsOK' /\ NoSendOnClosed'
    BY DEF Close, lock, IInv, Made, packetVars, SocketsOK, NoSendOnClosed
  <1> QED
    BY <1>2, <1>3, <1>4, <1>5 DEF IInv

\* The holder of mu closes a packet conn that is listed and was asked for, or
\* has the ufrag of one that was.
LEMMA Step_closesNext ==
    ASSUME IInv, NEW s \in Slots, closesNext(s)
    PROVE  IInv'
  <1> USE TCPMuxAssumption
  <1>1. mu' \in Holders
    BY NextType DEF closesNext, IInv, TypeOK, HolderOK
  <1>2. TypeOK'
    BY <1>1 DEF closesNext, shut, IInv, TypeOK, HolderOK
  <1>3. HolderOK' /\ OpenListed' /\ ClosedOnPurpose'
    BY DEF closesNext, shut, IInv, TypeOK, Made, HolderOK, OpenListed,
       ClosedOnPurpose
  <1>4. GoroutinesOK'
    BY DEF closesNext, shut, IInv, TypeOK, Made, HolderOK, GoroutinesOK,
       goroutinesGone
  <1>5. SocketsOK' /\ NoSendOnClosed'
    BY DEF closesNext, shut, ConnsOf, IInv, Made, SocketsOK, NoSendOnClosed
  <1> QED
    BY <1>2, <1>3, <1>4, <1>5 DEF IInv

\* The slot that is cleared is the one of the packet conn just closed.
LEMMA Step_closedNext ==
    ASSUME IInv, closedNext
    PROVE  IInv'
  <1> USE TCPMuxAssumption
  <1>1. mu' \in Holders
    BY NextType DEF closedNext, IInv, TypeOK, Holders
  <1>2. TypeOK'
    <2>1. mu.at \in PacketConns /\ slot[mu.at] \in Slots /\ mu.at \in closedChan
      BY DEF closedNext, IInv, TypeOK, Holders, HolderOK
    <2>2. table' \in [Slots -> PacketConns \cup {NoConn}]
          /\ \A s \in Slots : table'[s] # NoConn => slot[table'[s]] = s
      BY <2>1 DEF closedNext, IInv, TypeOK
    <2> QED
      BY <1>1, <2>1, <2>2 DEF closedNext, IInv, TypeOK
  <1>3. HolderOK' /\ OpenListed' /\ ClosedOnPurpose'
    BY DEF closedNext, IInv, Made, HolderOK, OpenListed, ClosedOnPurpose
  <1>4. GoroutinesOK'
    BY DEF closedNext, IInv, Made, GoroutinesOK, goroutinesGone
  <1>5. SocketsOK' /\ NoSendOnClosed'
    BY DEF closedNext, joined, ConnsOf, IInv, Made, SocketsOK, NoSendOnClosed
  <1> QED
    BY <1>2, <1>3, <1>4, <1>5 DEF IInv

\* A watcher that releases mu is gone, and its packet conn is closed.
LEMMA Step_unlock ==
    ASSUME IInv, unlock
    PROVE  IInv'
  <1> USE TCPMuxAssumption
  <1>1. mu' \in Holders
    BY DEF unlock, Unlocked, Holders
  <1>2. TypeOK'
    BY <1>1 DEF unlock, IInv, TypeOK, packetVars
  <1>3. HolderOK' /\ OpenListed' /\ ClosedOnPurpose'
    BY DEF unlock, Unlocked, IInv, Made, packetVars, HolderOK, OpenListed,
       ClosedOnPurpose
  <1>4. GoroutinesOK'
    BY DEF unlock, IInv, Made, packetVars, HolderOK, GoroutinesOK,
       goroutinesGone
  <1>5. SocketsOK' /\ NoSendOnClosed'
    BY DEF unlock, IInv, Made, packetVars, SocketsOK, NoSendOnClosed
  <1> QED
    BY <1>2, <1>3, <1>4, <1>5 DEF IInv

\* Close returns when no watcher is left, hence no packet conn is open.
LEMMA Step_closeReturns ==
    ASSUME IInv, closeReturns
    PROVE  IInv'
  <1> USE TCPMuxAssumption
  <1>1. TypeOK'
    BY DEF closeReturns, IInv, TypeOK, packetVars
  <1>2. HolderOK' /\ OpenListed' /\ ClosedOnPurpose'
    BY DEF closeReturns, IInv, Made, packetVars, HolderOK, OpenListed,
       ClosedOnPurpose
  <1>3. GoroutinesOK'
    BY DEF closeReturns, goroutinesGone, IInv, Made, packetVars, GoroutinesOK
  <1>4. SocketsOK' /\ NoSendOnClosed'
    BY DEF closeReturns, IInv, Made, packetVars, SocketsOK, NoSendOnClosed
  <1> QED
    BY <1>1, <1>2, <1>3, <1>4 DEF IInv

\* Every reachable state of the TCP mux satisfies the inductive invariant.
THEOREM Invariance == Spec => []IInv
  <1>1. Init => IInv
    <2> SUFFICES ASSUME Init PROVE IInv
      OBVIOUS
    <2>1. mu \in Holders /\ tcp \in [TCPConns -> Goroutines]
      BY DEF Init, Unlocked, AtTCP, Holders, Goroutines
    <2>2. recvChan \in [PacketConns -> Buffers]
      BY TCPMuxAssumption DEF Init, Buffers
    <2>3. /\ slot \in [PacketConns -> Slots \cup {NoSlot}]
          /\ table \in [Slots -> PacketConns \cup {NoConn}]
      BY DEF Init
    <2>4. readers \in [PacketConns -> 0..MaxReaders]
      BY TCPMuxAssumption DEF Init
    <2>5. plan \in [slots : SUBSET Slots, conns : SUBSET TCPConns,
       gets : Nat, removes : Nat]
      BY TCPMuxAssumption, Zenon DEF Init
    <2>6. TypeOK
      BY <2>1, <2>2, <2>3, <2>4, <2>5 DEF Init, TypeOK
    <2>7. HolderOK /\ GoroutinesOK /\ SocketsOK
      BY TCPMuxAssumption DEF Init, Unlocked, AtTCP, HolderOK, GoroutinesOK, SocketsOK,
         Made
    <2>8. OpenListed /\ ClosedOnPurpose /\ NoSendOnClosed
      BY DEF Init, OpenListed, ClosedOnPurpose, NoSendOnClosed, Made
    <2> QED
      BY <2>6, <2>7, <2>8 DEF IInv
  <1>2. IInv /\ [Next]_vars => IInv'
    <2> SUFFICES ASSUME IInv, [Next]_vars PROVE IInv'
      OBVIOUS
    <2>1. CASE UNCHANGED vars
      BY <2>1 DEF vars, muxVars, packetVars, IInv, TypeOK, HolderOK, GoroutinesOK,
         SocketsOK, OpenListed, ClosedOnPurpose, NoSendOnClosed, Made, goroutinesGone
    <2>2. CASE Next
      BY <2>2, Step_GetConnByUfrag, Step_Accept, Step_firstPacket, Step_handleConn,
         Step_sendsFirst, Step_startReading, Step_handleRecv, Step_removeConn,
         Step_ReadFrom, Step_connClose, Step_connCloseReturns, Step_watcherRemoves,
         Step_RemoveConnByUfrag, Step_Close, Step_closesNext, Step_closedNext,
         Step_unlock, Step_closeReturns, Zenon DEF Next, Goroutine, Holder
    <2> QED
      BY <2>1, <2>2
  <1> QED
    BY <1>1, <1>2, PTL DEF Spec

\* Types, for every number of peers and packet conns and every buffer size: recvChan
\* keeps to its capacity, and a packet conn is listed in its own slot only.
THEOREM TypeCorrect == Spec => []TypeOK
  <1>1. IInv => TypeOK
    BY DEF IInv
  <1> QED
    BY <1>1, Invariance, PTL

\* Nobody sends on a closed recvChan: tcpPacketConn.Close waits for the goroutines
\* that send before it closes the channel.
THEOREM ChannelsSafe == Spec => []NoSendOnClosed
  <1>1. IInv => NoSendOnClosed
    BY DEF IInv
  <1> QED
    BY <1>1, Invariance, PTL

\* An open packet conn is listed in the mux, where Close and RemoveConnByUfrag find
\* it.
THEOREM OpenStaysListed == Spec => []OpenListed
  <1>1. IInv => OpenListed
    BY DEF IInv
  <1> QED
    BY <1>1, Invariance, PTL

\* A packet conn is closed only because somebody closed it or another one of its
\* ufrag.
THEOREM ClosedByRequest == Spec => []ClosedOnPurpose
  <1>1. IInv => ClosedOnPurpose
    BY DEF IInv
  <1> QED
    BY <1>1, Invariance, PTL

\* When TCPMuxDefault.Close has returned, only connections whose first packet could
\* not be read are still open.  The watchers, which Close waits for, outlive every
\* packet conn that is not closed.
THEOREM CloseReleasesAll == Spec => []CloseReleases
  <1>1. IInv => CloseReleases
    BY DEF IInv, CloseReleases, TypeOK, Goroutines, GoroutinesOK, SocketsOK,
       goroutinesGone
  <1> QED
    BY <1>1, Invariance, PTL
=============================================================================
