------------------------------- MODULE UDPMux -------------------------------
(***************************************************************************)
(* Many connections over one UDP socket: udp_mux.go and udp_muxed_conn.go. *)
(* A connection is found by its key (a ufrag, or a ufrag and the URL of a  *)
(* STUN server) and IP family, and a packet finds its connection by the    *)
(* address it comes from or, if that is unknown, by the ufrag it names.    *)
(*                                                                         *)
(* What the code does under one lock is one step.  Locks are nested only   *)
(* as mu or addressMapMu around the lock of a connection, which is never   *)
(* held while waiting, so no step can block another for ever.              *)
(***************************************************************************)
EXTENDS Naturals, FiniteSets

CONSTANTS
    Keys,       \* keys of connections
    Ufrags,     \* the keys that the USERNAME of a packet can name
    Addrs,      \* remote addresses
    FamilyOf,   \* the IP family of each
    Conns,      \* connections; a bound on how many are made
    Writers,    \* goroutines that write to connections
    Plans,      \* what the users of the mux may do in a behaviour: the slot each
                \* connection is made for, how often each goroutine may be the
                \* first to write to an address on a connection, and how many
                \* packets are received
    NoConn, NoUfrag, NoSlot

Families == {"ip4", "ip6"}

\* Where a connection is listed: connsIPv4 or connsIPv6, under its key.
Slots == Keys \X Families

ASSUME UDPMuxAssumption ==
    /\ Ufrags \subseteq Keys
    /\ FamilyOf \in [Addrs -> Families]
    /\ NoConn \notin Conns
    /\ NoUfrag \notin Ufrags
    /\ NoSlot \notin Slots
    /\ Plans \subseteq [slots : [Conns -> Slots \cup {NoSlot}],
                      writes : [Writers \X Conns -> Nat], packets : Nat]

VARIABLES
    plan,
    slot,           \* the slot each connection was made for
    conns,          \* connsIPv4 and connsIPv6
    addressMap,
    addresses,      \* of each connection
    closedChan,     \* connections whose channel of this name is closed
    closing,        \* the ones whose Close has not dropped the addresses yet
    watching,       \* connections with a goroutine that waits for closedChan
    sweeps,         \* sets of connections taken out of conns together, whose
                    \* addresses are still in addressMap
    muxClosed,
    writer,         \* where each goroutine in WriteTo is
    worker,         \* where connWorker is
    dropped,        \* history: connections removed by RemoveConnByUfrag
    raced           \* history: a connection was swept during a WriteTo

vars == <<plan, slot, conns, addressMap, addresses, closedChan, closing, watching,
          sweeps, muxClosed, writer, worker, dropped, raced>>

tableVars == <<slot, conns, watching, sweeps, muxClosed, dropped>>

Idle == [pc |-> "idle", conn |-> NoConn, addr |-> NoUfrag]

Reading == [pc |-> "reading", slot |-> NoSlot, dest |-> NoConn]

Made(c) == slot[c] # NoSlot

Listed(c) == Made(c) /\ conns[slot[c]] = c

Init ==
    /\ plan \in Plans
    /\ slot = [c \in Conns |-> NoSlot]
    /\ conns = [s \in Slots |-> NoConn]
    /\ addressMap = [a \in Addrs |-> NoConn]
    /\ addresses = [c \in Conns |-> {}]
    /\ closedChan = {} /\ closing = {} /\ watching = {} /\ sweeps = {}
    /\ muxClosed = FALSE
    /\ writer = [w \in Writers |-> Idle]
    /\ worker = Reading
    /\ dropped = {}
    /\ raced = FALSE

-----------------------------------------------------------------------------
\* The mux.

\* A call that finds a connection or a closed mux changes nothing.  A new
\* connection gets a goroutine that removes it when it is closed.
GetConn(c) ==
    LET s == plan.slots[c] IN
    /\ ~muxClosed /\ ~Made(c) /\ s # NoSlot
    /\ conns[s] = NoConn
    /\ slot' = [slot EXCEPT ![c] = s]
    /\ conns' = [conns EXCEPT ![s] = c]
    /\ watching' = watching \cup {c}
    /\ UNCHANGED <<plan, addressMap, addresses, closedChan, closing, sweeps, muxClosed,
                   writer, worker, dropped, raced>>

listedUnder(k) == {conns[<<k, f>>] : f \in Families} \ {NoConn}

delist_Mut(C) == UNCHANGED conns
delist(C) == conns' = [s \in Slots |-> IF conns[s] \in C THEN NoConn ELSE conns[s]]

\* The connections leave the lists under mu; their addresses are removed later,
\* under addressMapMu.  They are not closed.
RemoveConnByUfrag(k) ==
    /\ listedUnder(k) # {}
    /\ delist(listedUnder(k))
    /\ sweeps' = sweeps \cup {listedUnder(k)}
    /\ dropped' = dropped \cup listedUnder(k)
    /\ UNCHANGED <<plan, slot, addressMap, addresses, closedChan, closing, watching,
                   muxClosed, writer, worker, raced>>

\* removeConn removes by key, the IPv4 connection first.
removable_Mut(c) == {conns[<<slot[c][1], "ip4">>]} \ {NoConn}
removable(c) ==
    LET k == slot[c][1] IN
    IF conns[<<k, "ip4">>] # NoConn THEN {conns[<<k, "ip4">>]} ELSE listedUnder(k)

\* The goroutine GetConn started for c.
removeConn(c) ==
    /\ c \in watching /\ c \in closedChan
    /\ watching' = watching \ {c}
    /\ delist(removable(c))
    /\ sweeps' = IF removable(c) = {} THEN sweeps ELSE sweeps \cup {removable(c)}
    /\ UNCHANGED <<plan, slot, addressMap, addresses, closedChan, closing, muxClosed,
                   writer, worker, dropped, raced>>

InFlight(c, a) == \E w \in Writers : writer[w] = [pc |-> "appended", conn |-> c, addr |-> a]

\* The second part of RemoveConnByUfrag and removeConn.
sweep(S) ==
    /\ S \in sweeps
    /\ sweeps' = sweeps \ {S}
    /\ addressMap' = [a \in Addrs |->
            IF \E c \in S : a \in addresses[c] THEN NoConn ELSE addressMap[a]]
    /\ raced' = (raced \/ \E c \in S, a \in Addrs : InFlight(c, a))
    /\ UNCHANGED <<plan, slot, conns, addresses, closedChan, closing, watching, muxClosed,
                   writer, worker, dropped>>

\* Close holds mu until every listed connection is closed, and is one step: what
\* does not need mu can see in between that its connection is closed and the mux
\* is not, which matters to registerConnForAddress only.
Close_Mut ==
    /\ ~muxClosed
    /\ muxClosed' = TRUE
    /\ conns' = [s \in Slots |-> NoConn]
    /\ UNCHANGED <<plan, slot, closedChan, addresses, addressMap, closing, watching, sweeps,
                   writer, dropped, raced>>
Close ==
    /\ ~muxClosed
    /\ muxClosed' = TRUE
    /\ closedChan' = closedChan \cup {c \in Conns : Listed(c)}
    /\ addresses' = [c \in Conns |-> IF Listed(c) THEN {} ELSE addresses[c]]
    /\ conns' = [s \in Slots |-> NoConn]
    /\ UNCHANGED <<plan, slot, addressMap, closing, watching, sweeps, writer, dropped, raced>>

-----------------------------------------------------------------------------
\* A connection.

\* udpMuxedConn.Close: closedChan first, then the addresses.  A second call
\* matters only if a write has added an address since.
connClose(c) ==
    /\ Made(c)
    /\ c \notin closedChan \/ addresses[c] # {}
    /\ closedChan' = closedChan \cup {c}
    /\ closing' = closing \cup {c}
    /\ UNCHANGED <<plan, tableVars>>
    /\ UNCHANGED <<addressMap, addresses, writer, worker, raced>>

dropsAddresses(c) ==
    /\ c \in closing
    /\ closing' = closing \ {c}
    /\ addresses' = [addresses EXCEPT ![c] = {}]
    /\ UNCHANGED <<plan, tableVars>>
    /\ UNCHANGED <<addressMap, closedChan, writer, worker, raced>>

\* WriteTo to an address the connection does not know, in three parts: the
\* test, addAddress on the connection, and registerConnForAddress on the mux.
\* A write to a known address changes nothing.
WriteTo(w, c, a) ==
    /\ plan.writes[<<w, c>>] > 0
    /\ plan' = [plan EXCEPT !.writes[<<w, c>>] = @ - 1]
    /\ writer[w] = Idle
    /\ Made(c) /\ c \notin closedChan /\ a \notin addresses[c]
    /\ writer' = [writer EXCEPT ![w] = [pc |-> "missing", conn |-> c, addr |-> a]]
    /\ UNCHANGED tableVars
    /\ UNCHANGED <<addressMap, addresses, closedChan, closing, worker, raced>>

addAddress(w) ==
    /\ writer[w].pc = "missing"
    /\ writer' = [writer EXCEPT ![w].pc = "appended"]
    /\ addresses' = [addresses EXCEPT ![writer[w].conn] = @ \cup {writer[w].addr}]
    /\ UNCHANGED <<plan, tableVars>>
    /\ UNCHANGED <<addressMap, closedChan, closing, worker, raced>>

\* The connection that had the address forgets it, also if it is the same one.
takeAddress_Mut(c, a) ==
    /\ addressMap' = [addressMap EXCEPT ![a] = c]
    /\ UNCHANGED addresses
takeAddress(c, a) ==
    /\ addressMap' = [addressMap EXCEPT ![a] = c]
    /\ addresses' = [d \in Conns |->
            IF d = addressMap[a] THEN addresses[d] \ {a} ELSE addresses[d]]

\* IsClosed is tested before the lock is taken: a mux that is closed by then may
\* still get the address.
registerConnForAddress(w) ==
    /\ writer[w].pc = "appended"
    /\ writer' = [writer EXCEPT ![w] = Idle]
    /\ \/ muxClosed /\ UNCHANGED <<addressMap, addresses>>
       \/ takeAddress(writer[w].conn, writer[w].addr)
    /\ UNCHANGED <<plan, tableVars>>
    /\ UNCHANGED <<closedChan, closing, worker, raced>>

-----------------------------------------------------------------------------
\* connWorker.

\* A packet from a that names ufrag u: by address, else by ufrag under mu.
receives(a, u) ==
    /\ plan.packets > 0
    /\ plan' = [plan EXCEPT !.packets = @ - 1]
    /\ worker = Reading /\ ~muxClosed
    /\ \/ /\ addressMap[a] # NoConn
          /\ worker' = [pc |-> "dispatch", slot |-> NoSlot, dest |-> addressMap[a]]
       \/ /\ addressMap[a] = NoConn /\ u # NoUfrag
          /\ worker' = [pc |-> "lookup", slot |-> <<u, FamilyOf[a]>>, dest |-> NoConn]
    /\ UNCHANGED tableVars
    /\ UNCHANGED <<addressMap, addresses, closedChan, closing, writer, raced>>

findsByUfrag ==
    /\ worker.pc = "lookup"
    /\ worker' = IF conns[worker.slot] = NoConn THEN Reading
                 ELSE [pc |-> "dispatch", slot |-> NoSlot, dest |-> conns[worker.slot]]
    /\ UNCHANGED <<plan, tableVars>>
    /\ UNCHANGED <<addressMap, addresses, closedChan, closing, writer, raced>>

\* writePacket; a closed or full connection drops the packet.
writePacket ==
    /\ worker.pc = "dispatch"
    /\ worker' = Reading
    /\ UNCHANGED <<plan, tableVars>>
    /\ UNCHANGED <<addressMap, addresses, closedChan, closing, writer, raced>>

Ended == [Reading EXCEPT !.pc = "ended"]

\* The socket fails, or a packet arrives after Close.  The worker closes the mux.
workerEnds ==
    /\ worker = Reading
    /\ worker' = Ended
    /\ \/ Close
       \/ /\ muxClosed
          /\ UNCHANGED <<plan, tableVars>>
          /\ UNCHANGED <<addressMap, addresses, closedChan, closing, writer, raced>>

-----------------------------------------------------------------------------
Write(w) ==
    \/ \E c \in Conns, a \in Addrs : WriteTo(w, c, a)
    \/ addAddress(w)
    \/ registerConnForAddress(w)

connWorker ==
    \/ \E a \in Addrs, u \in Ufrags \cup {NoUfrag} : receives(a, u)
    \/ findsByUfrag
    \/ writePacket
    \/ workerEnds

Next ==
    \/ \E c \in Conns : GetConn(c)
    \/ \E k \in Keys : RemoveConnByUfrag(k)
    \/ Close /\ UNCHANGED worker
    \/ \E c \in Conns : connClose(c) \/ dropsAddresses(c) \/ removeConn(c)
    \/ \E S \in sweeps : sweep(S)
    \/ \E w \in Writers : Write(w)
    \/ connWorker

Spec == Init /\ [][Next]_vars

-----------------------------------------------------------------------------
Writes == {Idle} \cup [pc : {"missing", "appended"}, conn : Conns, addr : Addrs]

Receipts ==
    [pc : {"reading", "dispatch", "ended"}, slot : {NoSlot}, dest : Conns \cup {NoConn}]
        \cup [pc : {"lookup"}, slot : Slots, dest : {NoConn}]

\* Types; a connection is listed in its own slot only, and one that waits to be
\* swept is not listed any more.
TypeOK ==
    /\ plan \in [slots : [Conns -> Slots \cup {NoSlot}],
                writes : [Writers \X Conns -> Nat], packets : Nat]
    /\ slot \in [Conns -> Slots \cup {NoSlot}]
    /\ conns \in [Slots -> Conns \cup {NoConn}]
    /\ addressMap \in [Addrs -> Conns \cup {NoConn}]
    /\ addresses \in [Conns -> SUBSET Addrs]
    /\ closedChan \subseteq Conns /\ closing \subseteq closedChan
    /\ watching \subseteq Conns /\ dropped \subseteq Conns
    /\ sweeps \subseteq SUBSET Conns
    /\ {muxClosed, raced} \subseteq BOOLEAN
    /\ writer \in [Writers -> Writes]
    /\ worker \in Receipts
    /\ \A s \in Slots : conns[s] # NoConn => slot[conns[s]] = s
    /\ \A S \in sweeps : \A c \in S : Made(c) /\ ~Listed(c)

\* The address map and the connections agree: an open, listed connection that
\* has written to an address gets the packets from there, until another
\* connection writes to it, whatever is closed, removed or registered for the
\* same address meanwhile.  (Not if a connection was removed during one of its
\* own writes: its late registration finds the map already swept.)
RoutesIntact ==
    ~raced => \A c \in Conns : \A a \in addresses[c] :
        Listed(c) /\ c \notin closedChan /\ ~InFlight(c, a) => addressMap[a] = c

SameKey(c, d) == Made(c) /\ Made(d) /\ slot[c][1] = slot[d][1]

\* No connection is lost: one that is open is listed, so that peers can reach it
\* and Close closes it, unless RemoveConnByUfrag removed it or the watcher of
\* another connection of the same ufrag did (it removes by key).
ListedWhileOpen ==
    \A c \in Conns : Made(c) /\ c \notin closedChan /\ c \notin dropped =>
        Listed(c) \/ \E d \in closedChan : d # c /\ SameKey(c, d)
=============================================================================
