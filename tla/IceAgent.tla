------------------------------ MODULE IceAgent ------------------------------
(***************************************************************************)
(* The connectivity state machine of one ICE agent: agent.go, selection.go *)
(* and the parts of candidate_base.go, candidatepair.go and transport.go   *)
(* they drive.  Every task that the agent's task loop runs is one action;  *)
(* the loop runs tasks one at a time (module TaskLoop), so tasks are       *)
(* atomic.  The application and the network are the environment: any       *)
(* inbound message, API call or clock step may come next.                  *)
(*                                                                         *)
(* Time is kept as ages.  A stored time.Time is the number of clock units  *)
(* since it was set, saturated at MaxAge, which is above every timeout of  *)
(* the configuration; the zero time.Time is MaxAge.  All comparisons of    *)
(* the code are with those timeouts, so saturation loses nothing.          *)
(***************************************************************************)
EXTENDS Naturals, Sequences, FiniteSets

CONSTANTS
    Locals,                 \* local candidates that gathering can produce
    Addrs,                  \* transport addresses the peer can send from
    NetworkType,            \* network type of every local candidate and address
    Signalled,              \* candidates the application may signal to us
    LocalCreds,             \* ufrag/pwd pairs this agent may use
    PeerCreds,              \* ufrag/pwd pairs the peer may use
    NoCreds,                \* the empty remote ufrag and pwd
    Role,                   \* "controlling" (Dial) or "controlled" (Accept)
    Lite,                   \* AgentConfig.Lite
    ReadsPairs,             \* the application calls GetSelectedCandidatePairs
    DisconnectedTimeout, FailedTimeout, KeepaliveInterval,
    BindingRequestTimeout,  \* maxBindingRequestTimeout
    MaxBindingRequests

\* A remote candidate is its address and its type; an "mdns" one is a host
\* candidate whose Address() is still its .local name.
prflx(a) == [addr |-> a, typ |-> "prflx"]

RemoteCands == Signalled \cup {prflx(a) : a \in Addrs}

ASSUME SignalledAssumption ==
    Signalled \subseteq [addr: Addrs, typ: {"host", "srflx", "relay", "mdns"}]

ASSUME CredsAssumption == NoCreds \notin PeerCreds

ASSUME ConfigAssumption ==
    /\ DOMAIN NetworkType = Locals \cup Addrs
    /\ Role \in {"controlling", "controlled"}
    /\ Lite \in BOOLEAN /\ ReadsPairs \in BOOLEAN

\* bindingRequestCount and maxBindingRequests are uint16; below 65535 the count
\* cannot wrap.
ASSUME NumbersAssumption ==
    /\ DisconnectedTimeout \in Nat /\ FailedTimeout \in Nat
    /\ KeepaliveInterval \in Nat
    /\ BindingRequestTimeout \in Nat \ {0}
    /\ MaxBindingRequests \in Nat /\ MaxBindingRequests < 65535

\* addPair only ever joins candidates of one network type: a socket receives
\* packets of its own network type only.
Pairs == {p \in [local: Locals, remote: RemoteCands] :
            NetworkType[p.local] = NetworkType[p.remote.addr]}

ConnectionStates ==
    {"New", "Checking", "Connected", "Disconnected", "Failed", "Closed"}

GatheringStates == {"New", "Gathering", "Complete"}

TimeToFailure == DisconnectedTimeout + FailedTimeout

MaxAge == 1 + (IF KeepaliveInterval > TimeToFailure THEN KeepaliveInterval
                                                    ELSE TimeToFailure)

Ages == 0 .. MaxAge

VARIABLES
    connectionState, gatheringState,
    started,                \* startedCh is closed
    dialing,                \* credentials of a Dial between its two tasks
    localCreds, remoteCreds,
    offered,                \* local candidates gathered since the last Restart
    localCandidates,        \* the ones that are open
    remoteCandidates,       \* in the order they were added
    checklist,              \* pair -> state, bindingRequestCount, nominateOnBindingSuccess
    selectedPairs,          \* in the order they were selected
    copied,                 \* how many leading selected pairs are detached copies
    pending,                \* pendingBindingRequests
    lastSent, lastReceived, \* ages
    lastConnectionState,    \* closure variables of connectivityChecks
    checkingAge,
    onConnected,            \* the onConnected channel is closed
    panicked                \* a nil net.PacketConn was dereferenced

stateVars == <<connectionState, gatheringState, started, onConnected>>
credVars  == <<dialing, localCreds, remoteCreds>>
candVars  == <<offered, localCandidates, remoteCandidates>>
pairVars  == <<selectedPairs, copied>>
loopVars  == <<lastConnectionState, checkingAge>>
vars == <<stateVars, credVars, candVars, checklist, pairVars, pending,
          lastSent, lastReceived, loopVars, panicked>>

-----------------------------------------------------------------------------
\* The checklist.

Entry == [state: {"None", "Waiting", "InProgress", "Failed", "Succeeded"},
          requests: 0 .. MaxBindingRequests + 1, nominate: BOOLEAN]

NoEntry  == [state |-> "None", requests |-> 0, nominate |-> FALSE]

newCandidatePair == [state |-> "Waiting", requests |-> 0, nominate |-> FALSE]

Known(p) == checklist[p].state # "None"

Selected == {selectedPairs[i] : i \in DOMAIN selectedPairs}

Remotes == {remoteCandidates[i] : i \in DOMAIN remoteCandidates}

-----------------------------------------------------------------------------
Init ==
    /\ connectionState = "New"
    /\ gatheringState = "New"
    /\ started = FALSE
    /\ dialing = NoCreds
    /\ localCreds \in LocalCreds
    /\ remoteCreds = NoCreds
    /\ offered = {}
    /\ localCandidates = {}
    /\ remoteCandidates = <<>>
    /\ checklist = [p \in Pairs |-> NoEntry]
    /\ selectedPairs = <<>>
    /\ copied = 0
    /\ pending = {}
    /\ lastSent = [l \in Locals |-> MaxAge]
    /\ lastReceived = [r \in RemoteCands |-> MaxAge]
    /\ lastConnectionState = "None"
    /\ checkingAge = MaxAge
    /\ onConnected = FALSE
    /\ panicked = FALSE

\* The task loop still accepts tasks.
Running == connectionState # "Closed" /\ ~panicked

-----------------------------------------------------------------------------
\* Candidates.

\* The first remote candidate with this address, in the order of addition.
\* Address() of an mDNS candidate is a name, which no source address matches.
matching(a) == {i \in DOMAIN remoteCandidates :
                  remoteCandidates[i].addr = a /\ remoteCandidates[i].typ # "mdns"}

findRemoteCandidate(a) ==
    remoteCandidates[CHOOSE i \in matching(a) : \A j \in matching(a) : i =< j]

\* addPair for the pairs of S.  One that was in the checklist already would
\* start over as Waiting, which PairProgress excludes.
addPairs(S) == [p \in Pairs |-> IF p \in S THEN newCandidatePair ELSE checklist[p]]

pairsOfRemote(r) == {p \in Pairs : p.remote = r /\ p.local \in localCandidates}

pairsOfLocal_Mut(l) == {}
pairsOfLocal(l) == {p \in Pairs : p.local = l /\ p.remote \in Remotes}

\* A candidate Equal to one the agent has is ignored.
isDuplicate_Mut(c) == FALSE
isDuplicate(c) == c \in Remotes

AddRemoteCandidate(c) ==
    /\ Running
    /\ ~isDuplicate(c)
    /\ remoteCandidates' = Append(remoteCandidates, c)
    /\ checklist' = addPairs(pairsOfRemote(c))
    /\ lastReceived' = [lastReceived EXCEPT ![c] = MaxAge]
    /\ UNCHANGED <<stateVars, credVars, offered, localCandidates, pairVars,
                   pending, lastSent, loopVars, panicked>>

\* A candidate of the current gathering.  Gathering offers an address once; a
\* second Equal candidate is ignored by the code and is a stuttering step.
addCandidate(l) ==
    /\ Running
    /\ gatheringState = "Gathering"
    /\ l \notin offered
    /\ offered' = offered \cup {l}
    /\ localCandidates' = localCandidates \cup {l}
    /\ checklist' = addPairs(pairsOfLocal(l))
    /\ lastSent' = [lastSent EXCEPT ![l] = MaxAge]
    /\ UNCHANGED <<stateVars, credVars, remoteCandidates, pairVars, pending,
                   lastReceived, loopVars, panicked>>

\* Every candidate is closed and forgotten.  The ages of the forgotten
\* candidates are not read again (see silence).
deleteAllCandidates ==
    /\ localCandidates' = {}
    /\ remoteCandidates' = <<>>
    /\ lastReceived' = [r \in RemoteCands |-> MaxAge]

setGatheringState(s) ==
    /\ Running
    /\ \/ gatheringState = "New" /\ s = "Gathering"
       \/ gatheringState = "Gathering" /\ s = "Complete"
    /\ gatheringState' = s
    /\ UNCHANGED <<connectionState, started, onConnected, credVars, candVars,
                   checklist, pairVars, pending, lastSent, lastReceived,
                   loopVars, panicked>>

-----------------------------------------------------------------------------
\* Starting, credentials, Restart, Close.

SetRemoteCredentials(c) ==
    /\ Running
    /\ remoteCreds' = c
    /\ UNCHANGED <<stateVars, dialing, localCreds, candVars, checklist, pairVars,
                   pending, lastSent, lastReceived, loopVars, panicked>>

\* Dial or Accept sets the credentials in a task of its own ...
connect(c) ==
    /\ Running
    /\ ~started /\ dialing = NoCreds
    /\ remoteCreds' = c
    /\ dialing' = c
    /\ UNCHANGED <<stateVars, localCreds, candVars, checklist, pairVars, pending,
                   lastSent, lastReceived, loopVars, panicked>>

\* ... and sets them again in the task that starts the checks.
startConnectivityChecks ==
    /\ Running
    /\ dialing # NoCreds
    /\ remoteCreds' = dialing
    /\ dialing' = NoCreds
    /\ started' = TRUE
    /\ connectionState' = "Checking"
    /\ UNCHANGED <<gatheringState, onConnected, localCreds, candVars, checklist,
                   pairVars, pending, lastSent, lastReceived, loopVars, panicked>>

clearSelectedPairs_Mut == UNCHANGED <<selectedPairs, copied>>
clearSelectedPairs == selectedPairs' = <<>> /\ copied' = 0

\* A new, empty checklist and list of outstanding requests.
clearChecks_Mut == checklist' = [p \in Pairs |-> NoEntry] /\ UNCHANGED pending
clearRequests_Mut == UNCHANGED checklist /\ pending' = {}
clearChecks == checklist' = [p \in Pairs |-> NoEntry] /\ pending' = {}

Restart(c) ==
    /\ Running
    /\ gatheringState # "Gathering"
    /\ localCreds' = c
    /\ remoteCreds' = NoCreds
    /\ gatheringState' = "New"
    /\ clearChecks
    /\ clearSelectedPairs
    /\ deleteAllCandidates
    /\ offered' = {}
    /\ connectionState' = IF connectionState = "New" THEN "New" ELSE "Checking"
    /\ UNCHANGED <<started, onConnected, dialing, lastSent, loopVars, panicked>>

Close ==
    /\ Running
    /\ connectionState' = "Closed"
    /\ started' = TRUE
    /\ deleteAllCandidates
    /\ UNCHANGED <<gatheringState, onConnected, credVars, offered, checklist,
                   pairVars, pending, lastSent, loopVars, panicked>>

-----------------------------------------------------------------------------
\* Sending.  A write on an open socket succeeds and refreshes LastSent, unless
\* the socket is one of down; writeTo only logs the error.  A write on a
\* closed socket always fails.

Sent(S, down) ==
    lastSent' = [l \in Locals |-> IF l \in (S \cap localCandidates') \ down
                                    THEN 0 ELSE lastSent[l]]

\* The requests of one clock unit between the same socket and address are one
\* entry: the answer to a second one changes nothing that the first did not.
sendBindingRequest(S) ==
    pending' = pending \cup {[local |-> p.local, dst |-> p.remote.addr, age |-> 0] : p \in S}

-----------------------------------------------------------------------------
\* Inbound traffic.  A message that handleInbound discards before it changes
\* anything is a stuttering step.

addSelectedPair(p) ==
    /\ selectedPairs' = IF p \in Selected THEN selectedPairs ELSE Append(selectedPairs, p)
    /\ connectionState' = IF p \in Selected THEN connectionState ELSE "Connected"
    /\ onConnected' = IF p \in Selected THEN onConnected ELSE TRUE

controllingHandleBindingRequest(p, cl) ==
    /\ checklist' = IF cl[p].state = "None" THEN [cl EXCEPT ![p] = newCandidatePair] ELSE cl
    /\ UNCHANGED <<connectionState, onConnected, selectedPairs, pending>>

controlledHandleBindingRequest(p, cl) ==
    /\ \/ /\ cl[p].state = "Succeeded"
          /\ checklist' = cl
          /\ addSelectedPair(p)
       \/ /\ cl[p].state # "Succeeded"
          /\ checklist' = [cl EXCEPT ![p] =
                [IF cl[p].state = "None" THEN newCandidatePair ELSE cl[p]
                   EXCEPT !.nominate = TRUE]]
          /\ UNCHANGED <<connectionState, onConnected, selectedPairs>>
    /\ sendBindingRequest({p})

\* A Binding request as the agent sees it: USERNAME, role attribute, USE-CANDIDATE.
Requests == [username: LocalCreds \X PeerCreds,
             role: {"controlling", "controlled", "none"}, useCandidate: BOOLEAN]

roleAccepted(m) ==
    IF Role = "controlling" THEN m.role # "controlling" /\ ~m.useCandidate
                            ELSE m.role # "controlled"

\* Packets reach the agent on open sockets, and only once the agent is started.
Receives(l, a) ==
    /\ Running /\ started
    /\ l \in localCandidates
    /\ NetworkType[l] = NetworkType[a]

handleRequest(l, a, m) ==
    /\ Receives(l, a)
    /\ roleAccepted(m)
    /\ m.username = <<localCreds, remoteCreds>>
    /\ LET isNew == matching(a) = {}
           r  == IF isNew THEN prflx(a) ELSE findRemoteCandidate(a)
           p  == [local |-> l, remote |-> r]
           cl == IF isNew THEN addPairs(pairsOfRemote(r)) ELSE checklist
       IN /\ remoteCandidates' = IF isNew THEN Append(remoteCandidates, r)
                                          ELSE remoteCandidates
          /\ lastReceived' = [lastReceived EXCEPT ![r] = 0]
          /\ \/ Role = "controlling" /\ controllingHandleBindingRequest(p, cl)
             \/ Role = "controlled" /\ controlledHandleBindingRequest(p, cl)
    /\ UNCHANGED <<offered, localCandidates>>
    /\ \E down \in SUBSET {l} : Sent({l}, down)
    /\ UNCHANGED <<gatheringState, started, credVars, copied, loopVars,
                   panicked>>

markSucceeded_Mut(p) == checklist
markSucceeded(p) == [checklist EXCEPT ![p].state = "Succeeded"]

HandleSuccessResponse(p, tx, a) ==
    IF tx.dst = a /\ Known(p)
      THEN /\ checklist' = markSucceeded(p)
           /\ IF Role = "controlling" \/ checklist[p].nominate
                THEN addSelectedPair(p)
                ELSE UNCHANGED <<connectionState, onConnected, selectedPairs>>
      ELSE UNCHANGED <<checklist, connectionState, onConnected, selectedPairs>>

\* The answer to the outstanding request tx, received on the socket that sent
\* it, possibly from another address; key is the credential it is signed with.
handleSuccess(l, a, key, tx) ==
    /\ Receives(l, a)
    /\ key = remoteCreds
    /\ matching(a) # {}
    /\ tx \in pending /\ tx.local = l
    /\ pending' = pending \ {tx}
    /\ HandleSuccessResponse([local |-> l, remote |-> findRemoteCandidate(a)], tx, a)
    /\ lastReceived' = [lastReceived EXCEPT ![findRemoteCandidate(a)] = 0]
    /\ UNCHANGED <<gatheringState, started, credVars, candVars, copied, lastSent,
                   loopVars, panicked>>

\* A Binding indication, an authentic success response whose transaction is not
\* outstanding (any more), or application data: the remote candidate was seen.
handleOther(l, a) ==
    /\ Receives(l, a)
    /\ matching(a) # {}
    /\ lastReceived' = [lastReceived EXCEPT ![findRemoteCandidate(a)] = 0]
    /\ UNCHANGED <<stateVars, credVars, candVars, checklist, pairVars, pending,
                   lastSent, loopVars, panicked>>

-----------------------------------------------------------------------------
\* The timer: connectivityChecks runs contact when its interval has passed or
\* a check was requested.  Here contact may run at any time after the start.

liteControlled == Lite /\ Role = "controlled"

\* Age of the last packet from the i-th selected pair's remote candidate.  A
\* detached copy has none.  A pair whose socket was closed by a failure was
\* silent for longer than TimeToFailure then, and its candidate is never seen
\* again.
silence(i) ==
    IF i =< copied \/ selectedPairs[i].local \notin localCandidates
      THEN MaxAge ELSE lastReceived[selectedPairs[i].remote]

health_Mut(age) == IF DisconnectedTimeout # 0 /\ age > DisconnectedTimeout THEN "Disconnected" ELSE "Connected"
health(age) ==
    IF FailedTimeout # 0 /\ age > TimeToFailure THEN "Failed"
    ELSE IF DisconnectedTimeout # 0 /\ age > DisconnectedTimeout THEN "Disconnected"
    ELSE "Connected"

\* The best state among all selected pairs.
validatedState ==
    LET states == {health(silence(i)) : i \in DOMAIN selectedPairs} IN
    IF "Connected" \in states THEN "Connected"
    ELSE IF "Disconnected" \in states THEN "Disconnected"
    ELSE "Failed"

validateKeepsSockets_Mut ==
    /\ connectionState' = validatedState
    /\ UNCHANGED <<localCandidates, remoteCandidates, lastReceived>>
validateReleasesEarly_Mut ==
    /\ connectionState' = validatedState
    /\ IF validatedState # "Connected"
         THEN deleteAllCandidates
         ELSE UNCHANGED <<localCandidates, remoteCandidates, lastReceived>>
validateSelectedPairs ==
    /\ connectionState' = validatedState
    /\ IF validatedState = "Failed"
         THEN deleteAllCandidates
         ELSE UNCHANGED <<localCandidates, remoteCandidates, lastReceived>>

needsKeepalive_Mut(i) ==
    KeepaliveInterval # 0 /\ lastSent[selectedPairs[i].local] > KeepaliveInterval
needsKeepalive(i) ==
    /\ KeepaliveInterval # 0
    /\ \/ i =< copied
       \/ lastSent[selectedPairs[i].local] > KeepaliveInterval
       \/ silence(i) > KeepaliveInterval

\* A ping on a detached copy dereferences its nil socket.
checkKeepalive(down) ==
    LET pinged == {selectedPairs[i] : i \in {j \in DOMAIN selectedPairs : needsKeepalive(j)}}
    IN /\ sendBindingRequest(pinged)
       /\ Sent({p.local : p \in pinged}, down)
       /\ panicked' = (copied > 0 /\ KeepaliveInterval # 0)

limitReached_Mut(n) == FALSE
limitReached(n) == n > MaxBindingRequests

pingAllCandidates(down) ==
    LET open   == {p \in Pairs : checklist[p].state \in {"Waiting", "InProgress"}}
        pinged == {p \in open : ~limitReached(checklist[p].requests)}
    IN /\ checklist' = [p \in Pairs |->
            IF p \in pinged
              THEN [checklist[p] EXCEPT !.state = "InProgress", !.requests = @ + 1]
            ELSE IF p \in open THEN [checklist[p] EXCEPT !.state = "Failed"]
            ELSE checklist[p]]
       /\ sendBindingRequest(pinged)
       /\ Sent({p.local : p \in pinged}, down)

ContactCandidates(down) ==
    \/ /\ selectedPairs # <<>>
       /\ validateSelectedPairs
       /\ IF liteControlled THEN UNCHANGED <<pending, lastSent, panicked>>
                            ELSE checkKeepalive(down)
       /\ UNCHANGED checklist
    \/ /\ selectedPairs = <<>>
       /\ UNCHANGED <<connectionState, localCandidates, remoteCandidates,
                      lastReceived, panicked>>
       /\ IF liteControlled THEN UNCHANGED <<checklist, pending, lastSent>>
                            ELSE pingAllCandidates(down)

newCheckingAge_Mut == checkingAge
newCheckingAge ==
    IF connectionState = "Checking" /\ lastConnectionState # "Checking"
      THEN 0 ELSE checkingAge

checkingExpired_Mut == FALSE
checkingExpired == connectionState = "Checking" /\ newCheckingAge > TimeToFailure

contact ==
    /\ Running /\ started
    /\ checkingAge' = newCheckingAge
    /\ \/ /\ connectionState = "Failed"
          /\ UNCHANGED <<connectionState, localCandidates, remoteCandidates,
                         checklist, pending, lastSent, lastReceived, panicked>>
       \/ /\ checkingExpired
          /\ connectionState' = "Failed"
          /\ deleteAllCandidates
          /\ UNCHANGED <<checklist, pending, lastSent, panicked>>
       \/ /\ connectionState # "Failed" /\ ~checkingExpired
          /\ \E down \in SUBSET localCandidates : ContactCandidates(down)
    /\ lastConnectionState' = connectionState'
    /\ UNCHANGED <<gatheringState, started, onConnected, credVars, offered,
                   pairVars>>

-----------------------------------------------------------------------------
\* The application's other calls, and the clock.

\* GetSelectedCandidatePairs writes the copies it makes into the agent's own
\* slice.  UnmarshalCandidate(Marshal(c)) has no socket and was never seen.
GetSelectedCandidatePairs ==
    /\ ReadsPairs /\ Running
    /\ copied' = Len(selectedPairs)
    /\ UNCHANGED <<stateVars, credVars, candVars, checklist, selectedPairs, pending,
                   lastSent, lastReceived, loopVars, panicked>>

\* Conn.Write uses the first selected pair; with none it drops the data.
Write ==
    /\ Running
    /\ selectedPairs # <<>>
    /\ panicked' = (copied > 0)
    /\ UNCHANGED localCandidates
    /\ \E down \in SUBSET localCandidates : Sent({Head(selectedPairs).local}, down)
    /\ UNCHANGED <<stateVars, credVars, offered, remoteCandidates, checklist,
                   pairVars, pending, lastReceived, loopVars>>

older(age) == IF age < MaxAge THEN age + 1 ELSE MaxAge

\* A request that is BindingRequestTimeout old is not outstanding any more: the
\* code drops it at the next use of the list.
invalidatePendingBindingRequests ==
    {[tx EXCEPT !.age = @ + 1] : tx \in {t \in pending : t.age + 1 < BindingRequestTimeout}}

Tick ==
    /\ Running
    /\ pending' = invalidatePendingBindingRequests
    /\ lastSent' = [l \in Locals |-> older(lastSent[l])]
    /\ lastReceived' = [r \in RemoteCands |-> older(lastReceived[r])]
    /\ checkingAge' = older(checkingAge)
    /\ UNCHANGED <<stateVars, credVars, candVars, checklist, pairVars,
                   lastConnectionState, panicked>>

\* A closed or crashed agent does nothing more.
Stopped == ~Running /\ UNCHANGED vars

Inbound ==
    \E l \in Locals, a \in Addrs :
        \/ \E m \in Requests : handleRequest(l, a, m)
        \/ \E key \in PeerCreds : \E tx \in pending : handleSuccess(l, a, key, tx)
        \/ handleOther(l, a)

Application ==
    \/ \E c \in Signalled : AddRemoteCandidate(c)
    \/ \E c \in PeerCreds : SetRemoteCredentials(c) \/ connect(c)
    \/ \E c \in LocalCreds : Restart(c)
    \/ GetSelectedCandidatePairs
    \/ Write
    \/ Close

AgentTask ==
    \/ \E l \in Locals : addCandidate(l)
    \/ \E s \in GatheringStates : setGatheringState(s)
    \/ startConnectivityChecks

Next == Inbound \/ Application \/ AgentTask \/ contact \/ Tick \/ Stopped

Spec == Init /\ [][Next]_vars

\* The connectivityChecks goroutine is driven by a timer and the task loop
\* serves it; time passes.  Nothing is assumed of the peer or the application.
FairSpec == Spec /\ WF_vars(contact) /\ WF_vars(Tick)

-----------------------------------------------------------------------------
\* Properties.

\* Every variable has its type: in particular bindingRequestCount never grows
\* beyond MaxBindingRequests + 1, and no age or slice index leaves its range.
TypeOK ==
    /\ connectionState \in ConnectionStates
    /\ gatheringState \in GatheringStates
    /\ started \in BOOLEAN /\ onConnected \in BOOLEAN /\ panicked \in BOOLEAN
    /\ dialing \in PeerCreds \cup {NoCreds}
    /\ localCreds \in LocalCreds
    /\ remoteCreds \in PeerCreds \cup {NoCreds}
    /\ offered \subseteq Locals
    /\ localCandidates \subseteq offered
    /\ remoteCandidates \in Seq(RemoteCands)
    /\ checklist \in [Pairs -> Entry]
    /\ selectedPairs \in Seq(Pairs)
    /\ copied \in 0 .. Len(selectedPairs)
    /\ pending \subseteq [local: Locals, dst: Addrs, age: 0 .. BindingRequestTimeout - 1]
    /\ lastSent \in [Locals -> Ages]
    /\ lastReceived \in [RemoteCands -> Ages]
    /\ lastConnectionState \in ConnectionStates \cup {"None"}
    /\ checkingAge \in Ages

\* Data only flows over checked paths: a selected pair stays in the checklist
\* as Succeeded, through later checks, failures and late responses, until a
\* Restart drops both (addSelectedPair, pingAllCandidates, Restart).
SelectedSucceeded == \A p \in Selected : checklist[p].state = "Succeeded"

\* The announced state agrees with the selection: before a connection nothing
\* is selected, and Connected or Disconnected is only announced with a pair to
\* show for it (updateConnectionState, addSelectedPair, Restart).
StateMatchesSelection ==
    /\ connectionState \in {"New", "Checking"} => selectedPairs = <<>>
    /\ connectionState \in {"Connected", "Disconnected"} => selectedPairs # <<>>

\* Whatever the order in which candidates are gathered, signalled, discovered
\* and dropped, each open socket is paired with each remote candidate of its
\* network type, so findPair never misses ("This shouldn't happen" in
\* HandleSuccessResponse).
PairsComplete ==
    \A p \in Pairs : p.local \in localCandidates /\ p.remote \in Remotes => Known(p)

\* The checklist holds this generation's pairs only, and a pair whose socket is
\* open has a remote candidate the agent still knows: neither Restart nor a
\* failure leaves a pair behind that a later candidate could be confused with.
ChecklistCurrent ==
    \A p \in Pairs : Known(p) =>
        /\ p.local \in offered
        /\ p.local \in localCandidates => p.remote \in Remotes

\* An announced connection can carry data: the socket of some selected pair is
\* still open, also when candidates were released by an earlier failure
\* (updateConnectionState, deleteAllCandidates, validateSelectedPairs).
ConnectedUsable ==
    connectionState \in {"Connected", "Disconnected"} =>
        \E p \in Selected : p.local \in localCandidates

\* A failed agent holds no socket of a path it had selected, even when a late
\* candidate arrives after the failure (updateConnectionState releases all).
FailedReleased ==
    connectionState = "Failed" => \A p \in Selected : p.local \notin localCandidates

\* Each outstanding request belongs to a pair of the current checklist: an
\* answer to a request of an earlier generation never counts for a new one
\* (Restart, sendBindingRequest, handleInboundBindingSuccess).
PendingFromChecklist ==
    \A tx \in pending : \E p \in Pairs :
        Known(p) /\ p.local = tx.local /\ p.remote.addr = tx.dst

\* Nothing is selected while the peer's credentials are unknown, which they are
\* again after a Restart until the application sets them.
NoSelectionWithoutCredentials == remoteCreds = NoCreds => selectedPairs = <<>>

Rank(state) == CASE state = "None" -> 0 [] state = "Waiting" -> 1
                 [] state = "InProgress" -> 2 [] state = "Failed" -> 3
                 [] state = "Succeeded" -> 4

\* What a step may do to the pairs of a generation.
Forward == \A p \in Pairs :
              /\ Rank(checklist'[p].state) >= Rank(checklist[p].state)
              /\ Known(p) => checklist'[p].requests >= checklist[p].requests

\* Within one generation a pair only moves forward and its request count never
\* shrinks: no operation enters a pair a second time, and a late response
\* revives a Failed pair but nothing degrades a Succeeded one.
PairProgress == [][(\E c \in LocalCreds : Restart(c)) \/ Forward]_vars

AllSilent == \A i \in DOMAIN selectedPairs : silence(i) > TimeToFailure

\* A connection whose every path is dead fails, unless a packet arrives or the
\* application intervenes (validateSelectedPairs).
SilentConnectionFails ==
    connectionState \in {"Connected", "Disconnected"} /\ AllSilent
        ~> connectionState \notin {"Connected", "Disconnected"} \/ ~AllSilent

Quiet(p) ==
    /\ p \in Selected /\ p.local \in localCandidates
    /\ lastReceived[p.remote] > KeepaliveInterval
    /\ ~\E tx \in pending : tx.local = p.local /\ tx.dst = p.remote.addr

\* A selected path from which nothing was heard for KeepaliveInterval is
\* probed with a request, also while the application keeps writing to it
\* (checkKeepalive).
QuietPathProbed == \A p \in Pairs : Quiet(p) ~> ~Quiet(p)

Lifecycle == INSTANCE ConnectionLifecycle
    WITH state <- connectionState, paths <- Len(selectedPairs), connected <- onConnected

\* The agent implements the abstract lifecycle: only a newly selected pair makes
\* it Connected from Checking or Failed, only a Restart drops selected pairs and
\* it always returns to Checking, and Closed is final (updateConnectionState,
\* addSelectedPair, Restart, Close).
ImplementsLifecycle == Lifecycle!Spec

=============================================================================
