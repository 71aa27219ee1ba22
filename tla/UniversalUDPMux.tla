-------------------------- MODULE UniversalUDPMux ---------------------------
(***************************************************************************)
(* The UDP mux that also asks STUN servers for the address they see:       *)
(* udp_mux_universal.go.  It is a UDPMux whose socket looks at every       *)
(* packet before connWorker does, and a cache of one entry per server that *)
(* any number of goroutines may query, wait for and find expired.          *)
(***************************************************************************)
EXTENDS UDPMux

CONSTANTS
    Servers,    \* addresses of STUN servers
    Entries,    \* values of type xorMapped; a bound on how many are made
    Queries,    \* calls of GetXORMappedAddr
    Loads,      \* how a behaviour is bounded: a plan of the mux, and the queries
    NoServer, NoEntry

ASSUME UniversalAssumption ==
    /\ NoServer \notin Servers
    /\ NoEntry \notin Entries
    /\ \A load \in Loads : load.plan \in Plans /\ load.queries \subseteq Queries

VARIABLES
    xorMappedMap,
    made,           \* entries made so far
    answered,       \* entries with an addr
    released,       \* entries whose waitAddrReceived is closed
    expired,        \* entries older than XORMappedAddrCacheTTL
    query,          \* where each call of GetXORMappedAddr is
    reader,         \* ReadFrom has a response of this server to handle
    panicked,       \* the process is gone
    overtaken       \* history: an entry was deleted while a call waited for it

xorVars == <<xorMappedMap, made, answered, released, expired, query, reader,
             panicked, overtaken>>

allVars == <<vars, xorVars>>

AtQuery(pc, s, e) == [pc |-> pc, server |-> s, entry |-> e]

Outcomes == {"found", "noMapping", "timeout", "sendError"}

UniversalInit ==
    /\ Init
    /\ xorMappedMap = [s \in Servers |-> NoEntry]
    /\ made = {} /\ answered = {} /\ released = {} /\ expired = {}
    /\ reader = NoServer
    /\ panicked = FALSE
    /\ overtaken = FALSE
    /\ \E load \in Loads :
        /\ plan = load.plan
        /\ query = [q \in Queries |->
                AtQuery(IF q \in load.queries THEN "new" ELSE "timeout", NoServer, NoEntry)]

-----------------------------------------------------------------------------
Waiting(e) == \E q \in Queries : query[q].pc = "waiting" /\ query[q].entry = e

\* The first critical section of GetXORMappedAddr, if the entry has expired: who
\* waits for it is released and it is deleted.
expires_Mut(e) ==
    /\ UNCHANGED released
    /\ overtaken' = (overtaken \/ Waiting(e))
expires(e) ==
    /\ released' = released \cup {e}
    /\ overtaken' = (overtaken \/ Waiting(e))

GetXORMappedAddr(q, s) ==
    LET e == xorMappedMap[s] IN
    /\ query[q].pc = "new"
    /\ \/ /\ e # NoEntry /\ e \in expired
          /\ expires(e)
          /\ xorMappedMap' = [xorMappedMap EXCEPT ![s] = NoEntry]
          /\ query' = [query EXCEPT ![q] = AtQuery("sending", s, NoEntry)]
       \/ /\ e = NoEntry \/ e \notin expired
          /\ query' = [query EXCEPT ![q] =
                AtQuery(IF e # NoEntry /\ e \in answered THEN "found" ELSE "sending",
                        s, NoEntry)]
          /\ UNCHANGED <<xorMappedMap, released, overtaken>>
    /\ UNCHANGED <<made, answered, expired, reader, panicked>>

\* The entry sendStun waits for: the one of the map, or a new one.
entryFor(s) ==
    IF xorMappedMap[s] # NoEntry THEN xorMappedMap[s]
    ELSE CHOOSE e \in Entries : e \notin made

\* An entry stays in the map even if its request could not be sent.
sendStun(q) ==
    LET s == query[q].server
        e == entryFor(s) IN
    /\ query[q].pc = "sending"
    /\ xorMappedMap[s] # NoEntry \/ made # Entries
    /\ xorMappedMap' = [xorMappedMap EXCEPT ![s] = e]
    /\ made' = made \cup {e}
    /\ \E pc \in {"waiting", "sendError"} : query' = [query EXCEPT ![q] = AtQuery(pc, s, e)]
    /\ UNCHANGED <<answered, released, expired, reader, panicked, overtaken>>

\* waitAddrReceived is closed: the call looks the server up again.  A missing
\* entry is a nil pointer.
wakes(q) ==
    LET e == xorMappedMap[query[q].server] IN
    /\ query[q].pc = "waiting" /\ query[q].entry \in released
    /\ panicked' = (e = NoEntry)
    /\ query' = IF e = NoEntry THEN query
                ELSE [query EXCEPT ![q].pc = IF e \in answered THEN "found" ELSE "noMapping"]
    /\ UNCHANGED <<xorMappedMap, made, answered, released, expired, reader, overtaken>>

deadline(q) ==
    /\ query[q].pc = "waiting"
    /\ query' = [query EXCEPT ![q].pc = "timeout"]
    /\ UNCHANGED <<xorMappedMap, made, answered, released, expired, reader, panicked,
                   overtaken>>

\* Time passes.
ttlPasses(e) ==
    /\ e \in made \ expired
    /\ expired' = expired \cup {e}
    /\ UNCHANGED <<xorMappedMap, made, answered, released, query, reader, panicked,
                   overtaken>>

\* udpConn.ReadFrom with a packet of a server: isXORMappedResponse and
\* handleXORMappedResponse take the lock one after the other.
isXORMappedResponse(s) ==
    /\ worker = Reading /\ reader = NoServer
    /\ xorMappedMap[s] # NoEntry
    /\ reader' = s
    /\ UNCHANGED <<xorMappedMap, made, answered, released, expired, query, panicked,
                   overtaken>>

SetAddr_Mut(e) == UNCHANGED answered /\ released' = released \cup {e}
SetAddr(e) == answered' = answered \cup {e} /\ released' = released \cup {e}

\* It fails if the entry is gone or the attribute cannot be decoded.  connWorker
\* drops the packet afterwards: it names no ufrag, and no connection writes to a
\* server.
handleXORMappedResponse ==
    /\ reader # NoServer
    /\ reader' = NoServer
    /\ \/ UNCHANGED <<answered, released>>
       \/ xorMappedMap[reader] # NoEntry /\ SetAddr(xorMappedMap[reader])
    /\ UNCHANGED <<xorMappedMap, made, expired, query, panicked, overtaken>>

-----------------------------------------------------------------------------
Proceed(q) == sendStun(q) \/ wakes(q) \/ deadline(q)

UniversalStep ==
    \/ \E q \in Queries : (\E s \in Servers : GetXORMappedAddr(q, s)) \/ Proceed(q)
    \/ \E e \in Entries : ttlPasses(e)
    \/ \E s \in Servers : isXORMappedResponse(s)
    \/ handleXORMappedResponse

\* connWorker does not go on while its ReadFrom handles a response.
MuxStep == Next /\ (reader # NoServer => worker' = worker)

UniversalNext ==
    /\ ~panicked
    /\ \/ MuxStep /\ UNCHANGED xorVars
       \/ UniversalStep /\ UNCHANGED vars

UniversalSpec == UniversalInit /\ [][UniversalNext]_allVars

\* A watcher that can go on does, unless the process is gone.
Fairness == \A c \in Conns : WF_allVars(~panicked /\ removeConn(c) /\ UNCHANGED xorVars)

FairSpec == UniversalSpec /\ Fairness

-----------------------------------------------------------------------------
Calls == [pc : {"new", "sending", "waiting"} \cup Outcomes,
          server : Servers \cup {NoServer}, entry : Entries \cup {NoEntry}]

\* Types of the cache; entries in the map have been made, each for one server,
\* and one in the map that has released its waiters has an address.
XorTypeOK ==
    /\ xorMappedMap \in [Servers -> Entries \cup {NoEntry}]
    /\ made \subseteq Entries /\ answered \subseteq made
    /\ released \subseteq made /\ expired \subseteq made
    /\ query \in [Queries -> Calls]
    /\ reader \in Servers \cup {NoServer}
    /\ {panicked, overtaken} \subseteq BOOLEAN
    /\ \A s \in Servers : LET e == xorMappedMap[s] IN
        e # NoEntry => e \in made /\ (e \in released => e \in answered)

\* No lost wakeup: whatever a call waits for is still in the map, where the
\* answer of the server will find it, or its channel has been closed.
NoLostWakeup ==
    \A q \in Queries : query[q].pc = "waiting" =>
        \/ xorMappedMap[query[q].server] = query[q].entry
        \/ query[q].entry \in released

\* GetXORMappedAddr works as long as no call finds an entry expired that another
\* call still waits for: it never dereferences a missing entry, and it returns
\* errNoXorAddrMapping to nobody.
SafeWhileWaitedFor ==
    panicked \/ (\E q \in Queries : query[q].pc = "noMapping") => overtaken

\* "Method is safe for concurrent use" (udp_mux_universal.go:162): a call never
\* dereferences a missing entry.
SafeForConcurrentUse == ~panicked

Alone(c) == \A d \in Conns : d # c => ~SameKey(c, d)

\* A closed connection does not stay listed, where GetConn would return it for
\* ever.  (It may if there is another connection of its ufrag.)
ClosedUnlisted == \A c \in Conns : c \in closedChan ~>
    ~Listed(c) \/ ~Alone(c) \/ panicked

\* The universal mux is a UDP mux.
IsUDPMux == Spec
=============================================================================
