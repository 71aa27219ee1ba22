------------------------------- MODULE TCPMux -------------------------------
(***************************************************************************)
(* Candidates that share a TCP listener: tcp_mux.go, tcp_packet_conn.go.   *)
(* A packet conn belongs to a ufrag and an IP family and gathers the TCP   *)
(* connections whose first packet names the ufrag; their packets go        *)
(* through its channel recvChan to whoever reads it.                       *)
(*                                                                         *)
(* The mux holds mu while it closes packet conns, and a packet conn's      *)
(* Close waits for the goroutines of its connections: that lock is part of *)
(* the state.  The lock of a packet conn is never held while waiting.      *)
(***************************************************************************)
EXTENDS Naturals, Sequences, FiniteSets

CONSTANTS
    Ufrags,
    PacketConns,    \* packet conns; a bound on how many are made
    TCPConns,       \* connections that peers may open
    AddrOf,         \* the remote address of each
    ReadBuffer,     \* capacity of recvChan
    MaxReaders,     \* candidates that read one packet conn; a bound
    Plans,          \* what a behaviour uses: slots, TCP connections, how many
                    \* packet conns GetConnByUfrag may make, and how often the
                    \* agent may call RemoveConnByUfrag
    NoConn, NoSlot, Nobody

Families == {"ip4", "ip6"}

Slots == Ufrags \X Families

ASSUME TCPMuxAssumption ==
    /\ ReadBuffer \in Nat \ {0}
    /\ MaxReaders \in Nat \ {0}
    /\ Plans \subseteq [slots : SUBSET Slots, conns : SUBSET TCPConns, gets : Nat, removes : Nat]
    /\ NoConn \notin PacketConns
    /\ NoSlot \notin Slots
    /\ Nobody \notin PacketConns \cup {"agent", "close"}
    /\ {"agent", "close"} \cap PacketConns = {}

VARIABLES
    plan,
    slot,           \* the slot each packet conn was made for
    table,          \* connsIPv4 and connsIPv6
    mu,             \* who holds it, what is left to close, and where it is
    closed,
    closeCall,      \* the call of Close: "none", "locked", "waiting", "returned"
    watching,       \* packet conns with a goroutine that waits for closedChan
    closedChan,     \* packet conns whose channel of this name is closed
    recvChan,
    recvClosed,     \* packet conns whose recvChan is closed
    closers,        \* packet conns that a candidate's Close has not left yet
    duty,           \* the ones whose recvChan that call has to close
    readers,        \* candidates in recvLoop, by packet conn
    handed,         \* packet conns that GetConnByUfrag has returned
    tcp,            \* where the goroutine of each TCP connection is
    open,           \* TCP connections whose socket is open
    asked           \* history: packet conns somebody meant to close

packetVars == <<closedChan, recvChan, recvClosed, closers, duty>>
muxVars == <<plan, slot, table, mu, closed, closeCall, watching>>
vars == <<muxVars, packetVars, readers, handed, tcp, open, asked>>

Unlocked == [who |-> Nobody, todo |-> {}, at |-> NoConn, first |-> FALSE]

AtTCP(pc, p) == [pc |-> pc, conn |-> p, slot |-> NoSlot]

Made(p) == slot[p] # NoSlot

Init ==
    /\ plan \in Plans
    /\ slot = [p \in PacketConns |-> NoSlot]
    /\ table = [s \in Slots |-> NoConn]
    /\ mu = Unlocked
    /\ closed = FALSE /\ closeCall = "none"
    /\ watching = {} /\ closedChan = {} /\ recvClosed = {}
    /\ recvChan = [p \in PacketConns |-> <<>>]
    /\ closers = {} /\ duty = {}
    /\ readers = [p \in PacketConns |-> 0]
    /\ handed = {}
    /\ tcp = [c \in TCPConns |-> AtTCP("none", NoConn)]
    /\ open = {}
    /\ asked = {}

-----------------------------------------------------------------------------
\* The mux.

\* The packet conn of a slot, and createConn if there is none: it gets a
\* goroutine that removes it when it is closed.
connFor_Mut(s, p) ==
    \/ /\ table[s] = p /\ p # NoConn
       /\ UNCHANGED <<slot, table, watching>>
    \/ /\ table[s] = NoConn /\ ~Made(p)
       /\ p = CHOOSE q \in PacketConns : ~Made(q)
       /\ slot' = [slot EXCEPT ![p] = s]
       /\ table' = [table EXCEPT ![<<s[1], "ip4">>] = p]
       /\ watching' = watching \cup {p}
connFor(s, p) ==
    \/ /\ table[s] = p /\ p # NoConn
       /\ UNCHANGED <<slot, table, watching>>
    \/ /\ table[s] = NoConn /\ ~Made(p)
       /\ p = CHOOSE q \in PacketConns : ~Made(q)
       /\ slot' = [slot EXCEPT ![p] = s]
       /\ table' = [table EXCEPT ![s] = p]
       /\ watching' = watching \cup {p}

\* A candidate gets the packet conn and reads it.
GetConnByUfrag(s) ==
    /\ s \in plan.slots
    /\ mu = Unlocked /\ ~closed
    /\ \/ table[s] # NoConn /\ UNCHANGED plan
       \/ table[s] = NoConn /\ plan.gets > 0 /\ plan' = [plan EXCEPT !.gets = @ - 1]
    /\ \E p \in PacketConns :
        /\ connFor(s, p)
        /\ readers[p] < MaxReaders
        /\ readers' = [readers EXCEPT ![p] = @ + 1]
        /\ handed' = handed \cup {p}
    /\ UNCHANGED packetVars
    /\ UNCHANGED <<mu, closed, closeCall, tcp, open, asked>>

Accept(c) ==
    /\ closeCall \in {"none", "locked"}
    /\ c \in plan.conns
    /\ tcp[c].pc = "none"
    /\ tcp' = [tcp EXCEPT ![c] = AtTCP("accepted", NoConn)]
    /\ open' = open \cup {c}
    /\ UNCHANGED muxVars
    /\ UNCHANGED packetVars
    /\ UNCHANGED <<readers, handed, asked>>

\* handleConn up to its lock.  A packet that is no binding request with a
\* USERNAME closes the connection, an error of the read does not.
firstPacket(c) ==
    /\ tcp[c].pc = "accepted"
    /\ \/ /\ \E s \in plan.slots :
                tcp' = [tcp EXCEPT ![c] = [pc |-> "named", conn |-> NoConn, slot |-> s]]
          /\ UNCHANGED open
       \/ tcp' = [tcp EXCEPT ![c] = AtTCP("ended", NoConn)] /\ open' = open \ {c}
       \/ tcp' = [tcp EXCEPT ![c] = AtTCP("abandoned", NoConn)] /\ UNCHANGED open
    /\ UNCHANGED muxVars
    /\ UNCHANGED packetVars
    /\ UNCHANGED <<readers, handed, asked>>

ConnsOf(p) == {c \in TCPConns : tcp[c].conn = p /\ tcp[c].pc # "ended"}

\* AddConn refuses a connection if the packet conn is closed or has one from
\* the same address.
accepts(p, c) ==
    /\ p \notin closedChan
    /\ \A d \in ConnsOf(p) : AddrOf[d] # AddrOf[c]

\* The rest of handleConn, under mu: it may make a packet conn, also if the mux
\* is closed.
handleConn(c) ==
    /\ tcp[c].pc = "named"
    /\ mu = Unlocked
    /\ \E p \in PacketConns :
        /\ connFor(tcp[c].slot, p)
        /\ IF accepts(p, c)
           THEN tcp' = [tcp EXCEPT ![c] = AtTCP("sending", p)] /\ UNCHANGED open
           ELSE tcp' = [tcp EXCEPT ![c] = AtTCP("ended", NoConn)] /\ open' = open \ {c}
    /\ UNCHANGED packetVars
    /\ UNCHANGED <<plan, mu, closed, closeCall, readers, handed, asked>>

-----------------------------------------------------------------------------
\* The goroutine of a TCP connection in its packet conn p.

goesTo(c, pc) == tcp' = [tcp EXCEPT ![c].pc = pc]

send(p, kind) ==
    /\ Len(recvChan[p]) < ReadBuffer
    /\ recvChan' = [recvChan EXCEPT ![p] = Append(@, kind)]

\* The first packet; the goroutine does not look at closedChan here.
sendsFirst(c) ==
    /\ tcp[c].pc = "sending"
    /\ send(tcp[c].conn, "data")
    /\ goesTo(c, "reading")
    /\ UNCHANGED muxVars
    /\ UNCHANGED <<closedChan, recvClosed, closers, duty, readers, handed, open, asked>>

\* startReading, and handleRecv up to its select: a packet, or an error because
\* the peer or Close has closed the connection.
afterSend(kind) == IF kind = "data" THEN "reading" ELSE "removing"

startReading(c, kind) ==
    /\ tcp[c].pc = "reading"
    /\ kind = "data" => c \in open
    /\ goesTo(c, IF tcp[c].conn \in closedChan THEN afterSend(kind) ELSE kind)
    /\ UNCHANGED muxVars
    /\ UNCHANGED packetVars
    /\ UNCHANGED <<readers, handed, open, asked>>

handleRecv(c) ==
    /\ tcp[c].pc \in {"data", "error"}
    /\ \/ send(tcp[c].conn, tcp[c].pc)
       \/ tcp[c].conn \in closedChan /\ UNCHANGED recvChan
    /\ goesTo(c, afterSend(tcp[c].pc))
    /\ UNCHANGED muxVars
    /\ UNCHANGED <<closedChan, recvClosed, closers, duty, readers, handed, open, asked>>

removeConn(c) ==
    /\ tcp[c].pc = "removing"
    /\ open' = open \ {c}
    /\ goesTo(c, "ended")
    /\ UNCHANGED muxVars
    /\ UNCHANGED packetVars
    /\ UNCHANGED <<readers, handed, asked>>

\* recvLoop of a candidate: an error that ReadFrom returns ends it, be it of one
\* connection or because recvChan is closed.
ReadFrom(p) ==
    /\ readers[p] > 0
    /\ \/ /\ recvChan[p] # <<>>
          /\ recvChan' = [recvChan EXCEPT ![p] = Tail(@)]
          /\ readers' = [readers EXCEPT ![p] = IF Head(recvChan[p]) = "error" THEN @ - 1 ELSE @]
       \/ /\ recvChan[p] = <<>> /\ p \in recvClosed
          /\ readers' = [readers EXCEPT ![p] = @ - 1]
          /\ UNCHANGED recvChan
    /\ UNCHANGED muxVars
    /\ UNCHANGED <<closedChan, recvClosed, closers, duty, handed, tcp, open, asked>>

-----------------------------------------------------------------------------
\* Closing.  tcpPacketConn.Close of p closes its connections, and then waits for
\* their goroutines; the first call closes recvChan after that.

shutKeepsSockets_Mut(p) == closedChan' = closedChan \cup {p} /\ UNCHANGED open
shutNothing_Mut(p) == UNCHANGED <<closedChan, open>>
shut(p) ==
    /\ closedChan' = closedChan \cup {p}
    /\ open' = open \ ConnsOf(p)

joined_Mut(p) == TRUE
joined(p) == ConnsOf(p) = {}

\* A candidate closes its packet conn.
connClose(p) ==
    /\ p \in handed \ closers
    /\ p \notin recvClosed
    /\ shut(p)
    /\ closers' = closers \cup {p}
    /\ duty' = IF p \in closedChan THEN duty ELSE duty \cup {p}
    /\ asked' = asked \cup {p}
    /\ UNCHANGED muxVars
    /\ UNCHANGED <<recvChan, recvClosed, readers, handed, tcp>>

connCloseReturns(p) ==
    /\ p \in closers /\ joined(p)
    /\ closers' = closers \ {p}
    /\ duty' = duty \ {p}
    /\ recvClosed' = recvClosed \cup ({p} \cap duty)
    /\ UNCHANGED muxVars
    /\ UNCHANGED <<closedChan, recvChan, readers, handed, tcp, open, asked>>

listedIn_Mut(S) == {s \in Slots : table[s] # NoConn}
listedIn(S) == {s \in S : table[s] # NoConn}

\* mu is taken to close what is listed in the slots S.
lock(who, S) ==
    /\ mu = Unlocked
    /\ mu' = [Unlocked EXCEPT !.who = who, !.todo = listedIn(S)]
    /\ UNCHANGED packetVars
    /\ UNCHANGED <<slot, table, watching, readers, handed, tcp, open>>

\* RemoveConnByUfrag, called by the agent on a restart and when it is closed.
RemoveConnByUfrag(k) ==
    /\ plan.removes > 0
    /\ plan' = [plan EXCEPT !.removes = @ - 1]
    /\ lock("agent", {k} \X Families)
    /\ mu'.todo # {}
    /\ asked' = asked \cup {table[s] : s \in mu'.todo}
    /\ UNCHANGED <<closed, closeCall>>

\* RemoveConnByUfrag, called by the goroutine createConn started for p.
watcherRemoves(p) ==
    /\ p \in watching /\ p \in closedChan
    /\ lock(p, {slot[p][1]} \X Families)
    /\ UNCHANGED <<plan, closed, closeCall, asked>>

Close ==
    /\ closeCall = "none"
    /\ UNCHANGED plan
    /\ lock("close", Slots)
    /\ closed' = TRUE /\ closeCall' = "locked"
    /\ asked' = asked \cup {table[s] : s \in mu'.todo}

\* Whoever holds mu closes the packet conns, IPv4 first, one after the other.
closesNext(s) ==
    /\ mu.at = NoConn /\ s \in mu.todo
    /\ s[2] = "ip6" => \A r \in mu.todo : r[2] = "ip6"
    /\ mu' = [mu EXCEPT !.at = table[s], !.first = table[s] \notin closedChan]
    /\ shut(table[s])
    /\ UNCHANGED <<plan, slot, table, closed, closeCall, watching, recvChan, recvClosed,
                   closers, duty, readers, handed, tcp, asked>>

closedNext ==
    LET s == slot[mu.at] IN
    /\ mu.at # NoConn /\ joined(mu.at)
    /\ mu' = [mu EXCEPT !.at = NoConn, !.todo = @ \ {s}, !.first = FALSE]
    /\ table' = [table EXCEPT ![s] = NoConn]
    /\ recvClosed' = IF mu.first THEN recvClosed \cup {mu.at} ELSE recvClosed
    /\ UNCHANGED <<plan, slot, closed, closeCall, watching, closedChan, recvChan, closers, duty,
                   readers, handed, tcp, open, asked>>

\* mu is released.  Close has closed the listener, and goes on to wait.
unlock ==
    /\ mu.who # Nobody /\ mu.todo = {}
    /\ mu' = Unlocked
    /\ watching' = watching \ {mu.who}
    /\ closeCall' = IF mu.who = "close" THEN "waiting" ELSE closeCall
    /\ UNCHANGED packetVars
    /\ UNCHANGED <<plan, slot, table, closed, readers, handed, tcp, open, asked>>

\* The goroutines Close waits for: watchers and unfinished calls of handleConn.
goroutinesGone_Mut == \A c \in TCPConns : tcp[c].pc \notin {"accepted", "named"}
goroutinesGone ==
    /\ watching = {}
    /\ \A c \in TCPConns : tcp[c].pc \notin {"accepted", "named"}

closeReturns ==
    /\ closeCall = "waiting" /\ goroutinesGone
    /\ closeCall' = "returned"
    /\ UNCHANGED packetVars
    /\ UNCHANGED <<plan, slot, table, mu, closed, watching, readers, handed, tcp, open, asked>>

-----------------------------------------------------------------------------
Goroutine(c) ==
    sendsFirst(c) \/ startReading(c, "error") \/ handleRecv(c) \/ removeConn(c)

Holder == (\E s \in Slots : closesNext(s)) \/ closedNext \/ unlock

Next ==
    \/ \E s \in Slots : GetConnByUfrag(s)
    \/ \E c \in TCPConns : Accept(c) \/ firstPacket(c) \/ handleConn(c)
    \/ \E c \in TCPConns : Goroutine(c) \/ startReading(c, "data")
    \/ \E p \in PacketConns :
        ReadFrom(p) \/ connClose(p) \/ connCloseReturns(p) \/ watcherRemoves(p)
    \/ \E k \in Ufrags : RemoveConnByUfrag(k)
    \/ Close
    \/ Holder
    \/ closeReturns

Spec == Init /\ [][Next]_vars

\* Goroutines go on when they can, those that wait for mu get it, candidates
\* read, and a read fails once the socket is closed.  Peers may stay silent.
Fairness ==
    /\ \A c \in TCPConns :
        /\ WF_vars(sendsFirst(c)) /\ WF_vars(handleRecv(c)) /\ WF_vars(removeConn(c))
        /\ WF_vars(c \notin open /\ startReading(c, "error"))
        /\ WF_vars(handleConn(c))
    /\ \A p \in PacketConns :
        WF_vars(ReadFrom(p)) /\ WF_vars(connCloseReturns(p)) /\ WF_vars(watcherRemoves(p))
    /\ WF_vars(Holder)
    /\ WF_vars(closeReturns)

FairSpec == Spec /\ Fairness

-----------------------------------------------------------------------------
Holders == [who : PacketConns \cup {"agent", "close", Nobody}, todo : SUBSET Slots,
            at : PacketConns \cup {NoConn}, first : BOOLEAN]

Goroutines ==
    [pc : {"none", "accepted", "named", "abandoned", "sending", "reading", "data",
           "error", "removing", "ended"},
     conn : PacketConns \cup {NoConn}, slot : Slots \cup {NoSlot}]

Buffers == {b \in Seq({"data", "error"}) : Len(b) <= ReadBuffer}

\* Types; recvChan keeps to its capacity, and a packet conn is listed in its own
\* slot only.
TypeOK ==
    /\ plan \in [slots : SUBSET Slots, conns : SUBSET TCPConns, gets : Nat, removes : Nat]
    /\ slot \in [PacketConns -> Slots \cup {NoSlot}]
    /\ table \in [Slots -> PacketConns \cup {NoConn}]
    /\ mu \in Holders
    /\ closed \in BOOLEAN /\ closeCall \in {"none", "locked", "waiting", "returned"}
    /\ watching \subseteq PacketConns /\ closedChan \subseteq PacketConns
    /\ handed \subseteq PacketConns /\ asked \subseteq PacketConns
    /\ recvClosed \subseteq closedChan
    /\ duty \subseteq closers /\ closers \subseteq closedChan
    /\ recvChan \in [PacketConns -> Buffers]
    /\ readers \in [PacketConns -> 0..MaxReaders]
    /\ tcp \in [TCPConns -> Goroutines]
    /\ open \subseteq TCPConns
    /\ \A s \in Slots : table[s] # NoConn => slot[table[s]] = s

\* Nobody sends on a closed recvChan, which would panic: it is closed only when
\* the goroutines that send on it are gone, and none is started afterwards.
NoSendOnClosed == \A c \in TCPConns : tcp[c].conn \in recvClosed => tcp[c].pc = "ended"

\* A packet conn that is not closed is listed, so that handleConn, the agent and
\* Close find it; what is removed from the lists has been closed.
OpenListed == \A p \in PacketConns : Made(p) /\ p \notin closedChan => table[slot[p]] = p

\* A packet conn is closed because a candidate, the agent or Close closed it or
\* another one of its ufrag: an earlier one or the one of the other family, whose
\* watcher removes by ufrag.  Other ufrags are never affected.
ClosedOnPurpose == \A p \in closedChan : \E q \in asked : slot[q][1] = slot[p][1]

\* When Close has returned, no TCP connection is left open, except the ones
\* whose first packet could not be read: handleConn forgets them.
CloseReleases ==
    closeCall = "returned" => \A c \in open : tcp[c].pc = "abandoned"

\* Why Close may wait for ever: a peer that sends no first packet, a first
\* packet that nobody reads, or a packet conn that was made after Close.
Hangs ==
    \/ \E c \in TCPConns : tcp[c].pc = "accepted"
    \/ \E c \in TCPConns : tcp[c].pc = "sending" /\ tcp[c].conn \in closedChan
    \/ \E p \in watching \ closedChan : closeCall = "waiting"

\* Close returns, unless one of three things keeps it waiting for ever.
CloseReturns == closeCall = "locked" ~> (closeCall = "returned" \/ []Hangs)

\* Closing an unused packet conn does not deadlock
\* (TestTCPMux_NoDeadlockWhenClosingUnusedPacketConn): Close of a packet conn
\* gets to the end, where it closes recvChan.
UnusedConnCloses == \A p \in PacketConns : p \in closedChan ~> p \in recvClosed
=============================================================================
