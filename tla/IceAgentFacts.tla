--------------------------- MODULE IceAgentFacts ----------------------------
(***************************************************************************)
(* What the operators and handlers of IceAgent do, stated once: candidates *)
(* and pairs, entries of the checklist, inbound messages, contact.  Every  *)
(* step keeps the type invariant.                                          *)
(***************************************************************************)
EXTENDS IceAgent, WellFoundedInduction, TLAPS

-----------------------------------------------------------------------------
\* Candidates and pairs.

\* The parts of a remote candidate and of a pair have their types.
LEMMA PairParts ==
    /\ \A r \in RemoteCands : r.addr \in Addrs
    /\ \A a \in Addrs : prflx(a) \in RemoteCands /\ prflx(a).addr = a
    /\ \A p \in Pairs : /\ p.local \in Locals /\ p.remote \in RemoteCands
                        /\ p = [local |-> p.local, remote |-> p.remote]
    /\ \A l \in Locals, r \in RemoteCands :
          NetworkType[l] = NetworkType[r.addr] => [local |-> l, remote |-> r] \in Pairs
<1>1. \A r \in RemoteCands : r.addr \in Addrs
  <2>1. \A r \in Signalled : r.addr \in Addrs
    BY SignalledAssumption
  <2>2. \A a \in Addrs : prflx(a).addr \in Addrs
    BY DEF prflx
  <2> QED BY <2>1, <2>2 DEF RemoteCands
<1>2. \A a \in Addrs : prflx(a) \in RemoteCands /\ prflx(a).addr = a
  BY Zenon DEF RemoteCands, prflx
<1>3. \A p \in Pairs : /\ p.local \in Locals /\ p.remote \in RemoteCands
                      /\ p = [local |-> p.local, remote |-> p.remote]
  BY DEF Pairs
<1>4. \A l \in Locals, r \in RemoteCands :
        NetworkType[l] = NetworkType[r.addr] => [local |-> l, remote |-> r] \in Pairs
  BY DEF Pairs
<1> QED BY <1>1, <1>2, <1>3, <1>4

\* A nonempty set of natural numbers has a least member.
LEMMA LeastMember ==
    ASSUME NEW T \in SUBSET Nat, T # {}
    PROVE  \E i \in T : \A j \in T : i =< j
<1>1. PICK i \in T : \A j \in T : ~(<<j, i>> \in OpToRel(<, Nat))
  BY NatLessThanWellFounded, WFMin, Zenon
<1>2. \A j \in T : ~(j < i)
  BY <1>1, Zenon DEF OpToRel
<1>3. \A j \in T : i =< j
  BY <1>2, SMT
<1> QED BY <1>3

\* findRemoteCandidate returns a candidate of the agent that has the address.
LEMMA FindRemote ==
    ASSUME remoteCandidates \in Seq(RemoteCands), NEW a, matching(a) # {}
    PROVE  /\ findRemoteCandidate(a) \in Remotes
           /\ findRemoteCandidate(a) \in RemoteCands
           /\ findRemoteCandidate(a).addr = a
<1>1. matching(a) \in SUBSET Nat /\ matching(a) \subseteq DOMAIN remoteCandidates
  BY DEF matching
<1> DEFINE i == CHOOSE i \in matching(a) : \A j \in matching(a) : i =< j
<1>2. \E k \in matching(a) : \A j \in matching(a) : k =< j
  BY <1>1, LeastMember
<1>3. i \in matching(a)
  BY <1>2
<1>4. findRemoteCandidate(a) = remoteCandidates[i]
  BY DEF findRemoteCandidate
<1> HIDE DEF i
<1> QED BY <1>1, <1>3, <1>4 DEF matching, Remotes

-----------------------------------------------------------------------------
\* What the helpers return.

\* MaxAge is above every timeout.
LEMMA AgeFacts ==
    /\ TimeToFailure \in Nat /\ MaxAge \in Nat
    /\ TimeToFailure < MaxAge
    /\ 0 \in Ages /\ MaxAge \in Ages
    /\ \A age \in Ages : older(age) \in Ages
BY NumbersAssumption DEF TimeToFailure, MaxAge, Ages, older

\* New checklist entries are entries.
LEMMA EntryFacts ==
    /\ NoEntry \in Entry /\ NoEntry.state = "None"
    /\ newCandidatePair \in Entry /\ newCandidatePair.state = "Waiting"
    /\ newCandidatePair.requests = 0
BY NumbersAssumption DEF NoEntry, newCandidatePair, Entry

\* pingAllCandidates counts a request or gives a pair up.
LEMMA EntryUpdates ==
    ASSUME NEW e \in Entry
    PROVE  /\ e.requests \in Nat
           /\ LET d == [e EXCEPT !.state = "Failed"] IN
                d \in Entry /\ d.state = "Failed" /\ d.requests = e.requests
           /\ LET c == [e EXCEPT !.state = "InProgress", !.requests = @ + 1] IN
                ~(e.requests > MaxBindingRequests) =>
                   c \in Entry /\ c.state = "InProgress" /\ c.requests = e.requests + 1
<1>1. e.requests \in 0 .. MaxBindingRequests + 1 /\ e.requests \in Nat
  BY NumbersAssumption DEF Entry
<1>2. ~(e.requests > MaxBindingRequests) => e.requests + 1 \in 0 .. MaxBindingRequests + 1
  BY <1>1, NumbersAssumption
<1>3. [e EXCEPT !.state = "Failed"] \in Entry
  BY DEF Entry
<1>4. ASSUME e.requests + 1 \in 0 .. MaxBindingRequests + 1
      PROVE  [e EXCEPT !.state = "InProgress", !.requests = @ + 1] \in Entry
  BY <1>4, Zenon DEF Entry
<1>5. /\ [e EXCEPT !.state = "Failed"].state = "Failed"
      /\ [e EXCEPT !.state = "Failed"].requests = e.requests
      /\ [e EXCEPT !.state = "InProgress", !.requests = @ + 1].state = "InProgress"
      /\ [e EXCEPT !.state = "InProgress", !.requests = @ + 1].requests = e.requests + 1
  BY DEF Entry
<1> QED BY <1>1, <1>2, <1>3, <1>4, <1>5

\* addPairs enters exactly the pairs of S.
LEMMA AddPairsFacts ==
    ASSUME checklist \in [Pairs -> Entry], NEW S
    PROVE  /\ addPairs(S) \in [Pairs -> Entry]
           /\ \A p \in Pairs : p \in S => addPairs(S)[p] = newCandidatePair
           /\ \A p \in Pairs : p \notin S => addPairs(S)[p] = checklist[p]
BY EntryFacts DEF addPairs

PendingType == SUBSET [local: Locals, dst: Addrs, age: 0 .. BindingRequestTimeout - 1]

\* sendBindingRequest adds well-formed requests for the pairs of S.
LEMMA SendFacts ==
    ASSUME pending \in PendingType, NEW S \in SUBSET Pairs, sendBindingRequest(S)
    PROVE  /\ pending' \in PendingType
           /\ \A tx \in pending' : \/ tx \in pending
                                   \/ \E p \in S : tx.local = p.local /\ tx.dst = p.remote.addr
<1>1. \A p \in S : [local |-> p.local, dst |-> p.remote.addr, age |-> 0]
                      \in [local: Locals, dst: Addrs, age: 0 .. BindingRequestTimeout - 1]
  BY PairParts, NumbersAssumption
<1> QED BY <1>1 DEF sendBindingRequest, PendingType

\* Sent keeps the type of lastSent.
LEMMA SentFacts ==
    ASSUME lastSent \in [Locals -> Ages], NEW S, NEW down, Sent(S, down)
    PROVE  lastSent' \in [Locals -> Ages]
BY AgeFacts DEF Sent

\* After Append the new element is one more member of the range.
LEMMA AppendFacts ==
    ASSUME NEW T, NEW s \in Seq(T), NEW e \in T
    PROVE  /\ Append(s, e) \in Seq(T)
           /\ {Append(s, e)[i] : i \in DOMAIN Append(s, e)} = {s[i] : i \in DOMAIN s} \cup {e}
<1>1. Append(s, e) \in Seq(T) /\ Len(Append(s, e)) = Len(s) + 1
  OBVIOUS
<1>2. \A i \in 1 .. Len(s) : Append(s, e)[i] = s[i]
  OBVIOUS
<1>3. Append(s, e)[Len(s) + 1] = e
  OBVIOUS
<1> QED BY <1>1, <1>2, <1>3

\* Adding a remote candidate.
LEMMA AppendRemote ==
    ASSUME remoteCandidates \in Seq(RemoteCands), NEW e \in RemoteCands,
           remoteCandidates' = Append(remoteCandidates, e)
    PROVE  remoteCandidates' \in Seq(RemoteCands) /\ Remotes' = Remotes \cup {e}
BY AppendFacts DEF Remotes

\* addSelectedPair appends p, or does nothing when p is selected already.
LEMMA AddSelectedFacts ==
    ASSUME selectedPairs \in Seq(Pairs), NEW p \in Pairs, addSelectedPair(p)
    PROVE  /\ selectedPairs' \in Seq(Pairs)
           /\ Len(selectedPairs') >= Len(selectedPairs)
           /\ selectedPairs' # <<>>
           /\ Selected' = Selected \cup {p}
           /\ p \in Selected => UNCHANGED <<selectedPairs, connectionState, onConnected>>
           /\ p \notin Selected => connectionState' = "Connected" /\ onConnected' = TRUE
<1>1. CASE p \in Selected
  <2>1. UNCHANGED <<selectedPairs, connectionState, onConnected>>
    BY <1>1 DEF addSelectedPair
  <2>2. selectedPairs # <<>>
    BY <1>1 DEF Selected
  <2>3. Selected' = Selected \cup {p}
    BY <1>1, <2>1 DEF Selected
  <2> QED BY <1>1, <2>1, <2>2, <2>3
<1>2. CASE p \notin Selected
  <2>1. selectedPairs' = Append(selectedPairs, p)
    BY <1>2 DEF addSelectedPair
  <2>2. Selected' = Selected \cup {p}
    BY <2>1, AppendFacts DEF Selected
  <2>3. connectionState' = "Connected" /\ onConnected' = TRUE
    BY <1>2 DEF addSelectedPair
  <2>4. /\ selectedPairs' \in Seq(Pairs) /\ selectedPairs' # <<>>
        /\ Len(selectedPairs') >= Len(selectedPairs)
    BY <2>1
  <2> QED BY <1>2, <2>2, <2>3, <2>4, Zenon
<1> QED BY <1>1, <1>2, Zenon

-----------------------------------------------------------------------------
\* Inbound messages.

\* Packets reach open sockets of the sender's network type, so the pair that
\* handleInbound works on is a pair.
LEMMA ReceiveFacts ==
    ASSUME TypeOK, NEW l \in Locals, NEW a \in Addrs, Receives(l, a)
    PROVE  /\ [local |-> l, remote |-> prflx(a)] \in Pairs
           /\ matching(a) # {} => [local |-> l, remote |-> findRemoteCandidate(a)] \in Pairs
<1>1. NetworkType[l] = NetworkType[a]
  BY DEF Receives
<1>2. matching(a) # {} => findRemoteCandidate(a) \in RemoteCands /\ findRemoteCandidate(a).addr = a
  BY FindRemote DEF TypeOK
<1> QED BY <1>1, <1>2, PairParts

-----------------------------------------------------------------------------
\* What the inbound handlers do, as facts about the variables they change.

\* The candidate that handleInbound attributes a request from a to.
requester(a) == IF matching(a) = {} THEN prflx(a) ELSE findRemoteCandidate(a)

\* A peer-reflexive candidate is only made when the agent knows none with the
\* address.
LEMMA RequesterFacts ==
    ASSUME TypeOK, NEW l \in Locals, NEW a \in Addrs, NEW m, handleRequest(l, a, m)
    PROVE  /\ l \in localCandidates
           /\ requester(a) \in RemoteCands /\ requester(a).addr = a
           /\ [local |-> l, remote |-> requester(a)] \in Pairs
           /\ matching(a) = {} => requester(a) \notin Remotes
           /\ matching(a) # {} => requester(a) \in Remotes
           /\ remoteCandidates' \in Seq(RemoteCands)
           /\ Remotes' = Remotes \cup {requester(a)}
<1>1. Receives(l, a) /\ l \in localCandidates
  BY DEF handleRequest, Receives
<1>2. CASE matching(a) = {}
  <2>1. requester(a) = prflx(a) /\ prflx(a) \in RemoteCands /\ prflx(a).addr = a
    BY <1>2, PairParts DEF requester
  <2>2. prflx(a) \notin Remotes
    BY <1>2 DEF matching, Remotes, prflx
  <2>3. remoteCandidates' = Append(remoteCandidates, prflx(a))
    BY <1>2 DEF handleRequest
  <2>4. remoteCandidates' \in Seq(RemoteCands) /\ Remotes' = Remotes \cup {prflx(a)}
    BY <2>1, <2>3, AppendRemote DEF TypeOK
  <2> QED BY <1>1, <1>2, <2>1, <2>2, <2>4, ReceiveFacts, Zenon
<1>3. CASE matching(a) # {}
  <2>1. /\ requester(a) = findRemoteCandidate(a)
        /\ findRemoteCandidate(a) \in Remotes /\ findRemoteCandidate(a) \in RemoteCands
        /\ findRemoteCandidate(a).addr = a
    BY <1>3, FindRemote DEF requester, TypeOK
  <2>2. remoteCandidates' = remoteCandidates
    BY <1>3 DEF handleRequest
  <2> QED BY <1>1, <1>3, <2>1, <2>2, ReceiveFacts, Zenon DEF Remotes, TypeOK
<1> QED BY <1>2, <1>3

\* The checklist after the new candidate was paired, before the selector runs.
paired(a) == IF matching(a) = {} THEN addPairs(pairsOfRemote(requester(a))) ELSE checklist

\* handleRequest with its local definitions named.
LEMMA RequestUnfold ==
    ASSUME TypeOK, NEW l \in Locals, NEW a \in Addrs, NEW m, handleRequest(l, a, m)
    PROVE  /\ lastReceived' = [lastReceived EXCEPT ![requester(a)] = 0]
           /\ \/ controllingHandleBindingRequest([local |-> l, remote |-> requester(a)], paired(a))
              \/ controlledHandleBindingRequest([local |-> l, remote |-> requester(a)], paired(a))
           /\ \E down : Sent({l}, down)
           /\ UNCHANGED <<offered, localCandidates, gatheringState, started, dialing,
                          localCreds, remoteCreds, copied, loopVars, panicked>>
BY DEF handleRequest, requester, paired, credVars

\* Only unknown pairs of the requester, and the pair of the request, change
\* state; the latter is known afterwards.
LEMMA RequestChecklist ==
    ASSUME TypeOK, ChecklistCurrent,
           NEW l \in Locals, NEW a \in Addrs, NEW m, handleRequest(l, a, m),
           NEW p, p = [local |-> l, remote |-> requester(a)]
    PROVE  /\ checklist' \in [Pairs -> Entry]
           /\ \A q \in Pairs : Known(q) => /\ checklist'[q].state = checklist[q].state
                                           /\ checklist'[q].requests = checklist[q].requests
           /\ \A q \in Pairs : ~Known(q) => \/ checklist'[q].state = "None"
                                            \/ /\ checklist'[q].state = "Waiting"
                                               /\ q.remote = requester(a)
                                               /\ q.local \in localCandidates
           /\ \A q \in Pairs : /\ matching(a) = {} /\ q.remote = requester(a)
                               /\ q.local \in localCandidates
                               => checklist'[q].state # "None"
           /\ checklist'[p].state # "None"
<1> DEFINE cl == paired(a)
<1>1. /\ p \in Pairs /\ l \in localCandidates
      /\ matching(a) = {} => requester(a) \notin Remotes
      /\ p.local = l /\ p.remote = requester(a)
  BY RequesterFacts
<1>2. /\ cl \in [Pairs -> Entry]
      /\ \A q \in Pairs : Known(q) => cl[q] = checklist[q]
      /\ \A q \in Pairs : ~Known(q) => \/ cl[q] = checklist[q]
                                       \/ /\ cl[q].state = "Waiting"
                                          /\ q.remote = requester(a)
                                          /\ q.local \in localCandidates
      /\ \A q \in Pairs : /\ matching(a) = {} /\ q.remote = requester(a)
                          /\ q.local \in localCandidates
                          => cl[q].state = "Waiting"
  <2>1. CASE matching(a) = {}
    <3>1. \A q \in Pairs : q \in pairsOfRemote(requester(a)) => ~Known(q)
      BY <1>1, <2>1 DEF pairsOfRemote, ChecklistCurrent
    <3>2. \A q \in Pairs : q \in pairsOfRemote(requester(a))
                             <=> q.remote = requester(a) /\ q.local \in localCandidates
      BY DEF pairsOfRemote
    <3>3. cl = addPairs(pairsOfRemote(requester(a)))
      BY <2>1 DEF paired
    <3> HIDE DEF cl
    <3> QED BY <3>1, <3>2, <3>3, AddPairsFacts, EntryFacts DEF TypeOK
  <2>2. CASE matching(a) # {}
    BY <2>2 DEF paired, TypeOK
  <2> QED BY <2>1, <2>2
<1>3. /\ checklist' \in [Pairs -> Entry]
      /\ \A q \in Pairs : q # p => checklist'[q] = cl[q]
      /\ cl[p].state # "None" => /\ checklist'[p].state = cl[p].state
                                 /\ checklist'[p].requests = cl[p].requests
      /\ cl[p].state = "None" => checklist'[p].state = "Waiting"
  <2> HIDE DEF cl
  <2>1. CASE controllingHandleBindingRequest(p, cl)
    BY <1>1, <1>2, <2>1, EntryFacts DEF controllingHandleBindingRequest
  <2>2. CASE controlledHandleBindingRequest(p, cl)
    <3>1. CASE cl[p].state = "Succeeded"
      BY <1>1, <1>2, <2>2, <3>1 DEF controlledHandleBindingRequest
    <3>2. CASE cl[p].state # "Succeeded"
      <4> DEFINE e == IF cl[p].state = "None" THEN newCandidatePair ELSE cl[p]
      <4>1. e \in Entry /\ [e EXCEPT !.nominate = TRUE] \in Entry
        BY <1>1, <1>2, EntryFacts, Zenon DEF Entry
      <4>2. checklist' = [cl EXCEPT ![p] = [e EXCEPT !.nominate = TRUE]]
        BY <2>2, <3>2 DEF controlledHandleBindingRequest
      <4>3. /\ [e EXCEPT !.nominate = TRUE].state = e.state
            /\ [e EXCEPT !.nominate = TRUE].requests = e.requests
        BY <4>1 DEF Entry
      <4>4. /\ cl[p].state = "None" => e.state = "Waiting"
            /\ cl[p].state # "None" => e = cl[p]
        BY EntryFacts
      <4> HIDE DEF e
      <4> QED BY <1>1, <1>2, <4>1, <4>2, <4>3, <4>4
    <3> QED BY <3>1, <3>2
  <2> QED BY <2>1, <2>2, RequestUnfold, Zenon DEF cl
<1> HIDE DEF cl
<1> QED BY <1>1, <1>2, <1>3 DEF Known

\* A request selects its pair or nothing, and at most probes its pair.
LEMMA RequestSelection ==
    ASSUME TypeOK, ChecklistCurrent,
           NEW l \in Locals, NEW a \in Addrs, NEW m, handleRequest(l, a, m),
           NEW p, p = [local |-> l, remote |-> requester(a)]
    PROVE  /\ \/ UNCHANGED <<selectedPairs, connectionState, onConnected>>
              \/ checklist'[p].state = "Succeeded" /\ addSelectedPair(p)
           /\ pending' \in PendingType
           /\ \A tx \in pending' : \/ tx \in pending
                                   \/ tx.local = p.local /\ tx.dst = p.remote.addr
           /\ lastSent' \in [Locals -> Ages]
           /\ lastReceived' \in [RemoteCands -> Ages]
<1>1. p \in Pairs /\ requester(a) \in RemoteCands
  BY RequesterFacts
<1>2. lastSent' \in [Locals -> Ages]
  BY RequestUnfold, SentFacts, Zenon DEF TypeOK
<1>3. lastReceived' \in [RemoteCands -> Ages]
  BY <1>1, RequestUnfold, AgeFacts, Zenon DEF TypeOK
<1>4. pending \in PendingType
  BY DEF TypeOK, PendingType
<1>5. CASE controllingHandleBindingRequest(p, paired(a))
  BY <1>2, <1>3, <1>4, <1>5 DEF controllingHandleBindingRequest
<1>6. CASE controlledHandleBindingRequest(p, paired(a))
  <2>1. sendBindingRequest({p})
    BY <1>6 DEF controlledHandleBindingRequest
  <2>2. /\ pending' \in PendingType
        /\ \A tx \in pending' : tx \in pending \/ (tx.local = p.local /\ tx.dst = p.remote.addr)
    BY <1>1, <1>4, <2>1, SendFacts
  <2>3. \/ UNCHANGED <<selectedPairs, connectionState, onConnected>>
        \/ checklist'[p].state = "Succeeded" /\ addSelectedPair(p)
    BY <1>6 DEF controlledHandleBindingRequest
  <2> QED BY <1>2, <1>3, <2>2, <2>3
<1> QED BY <1>5, <1>6, RequestUnfold, Zenon

\* A success response moves at most the pair it came back on to Succeeded, and
\* then selects that pair or nothing.
LEMMA SuccessFacts ==
    ASSUME TypeOK, NEW l \in Locals, NEW a \in Addrs, NEW key, NEW tx,
           handleSuccess(l, a, key, tx),
           NEW p, p = [local |-> l, remote |-> findRemoteCandidate(a)]
    PROVE  /\ p \in Pairs /\ l \in localCandidates /\ p.local = l
           /\ checklist' \in [Pairs -> Entry]
           /\ \A q \in Pairs : checklist'[q].state = "None" <=> checklist[q].state = "None"
           /\ \A q \in Pairs : \/ checklist'[q].state = checklist[q].state
                               \/ checklist'[q].state = "Succeeded"
           /\ \A q \in Pairs : checklist'[q].requests = checklist[q].requests
           /\ pending' \subseteq pending
           /\ lastReceived' \in [RemoteCands -> Ages]
           /\ \/ UNCHANGED <<selectedPairs, connectionState, onConnected>>
              \/ checklist'[p].state = "Succeeded" /\ addSelectedPair(p)
           /\ UNCHANGED <<gatheringState, started, credVars, candVars, copied,
                          lastSent, loopVars, panicked>>
<1>1. Receives(l, a) /\ matching(a) # {} /\ l \in localCandidates
  BY DEF handleSuccess, Receives
<1>2. p \in Pairs /\ findRemoteCandidate(a) \in RemoteCands /\ p.local = l
  BY <1>1, ReceiveFacts, FindRemote, Zenon DEF TypeOK
<1>3. lastReceived' \in [RemoteCands -> Ages]
  BY <1>2, AgeFacts DEF handleSuccess, TypeOK
<1>4. pending' \subseteq pending
  BY DEF handleSuccess
<1>5. HandleSuccessResponse(p, tx, a)
  BY DEF handleSuccess
<1>6. CASE tx.dst = a /\ Known(p)
  <2>1. checklist' = [checklist EXCEPT ![p].state = "Succeeded"]
    BY <1>5, <1>6 DEF HandleSuccessResponse, markSucceeded
  <2>2. /\ checklist \in [Pairs -> Entry]
        /\ [checklist[p] EXCEPT !.state = "Succeeded"] \in Entry
        /\ [checklist[p] EXCEPT !.state = "Succeeded"].state = "Succeeded"
        /\ [checklist[p] EXCEPT !.state = "Succeeded"].requests = checklist[p].requests
    BY <1>2, Zenon DEF TypeOK, Entry
  <2>3. /\ checklist' \in [Pairs -> Entry]
        /\ \A q \in Pairs : q # p => checklist'[q] = checklist[q]
        /\ checklist'[p].state = "Succeeded"
        /\ checklist'[p].requests = checklist[p].requests
    BY <1>2, <2>1, <2>2
  <2>4. \/ UNCHANGED <<selectedPairs, connectionState, onConnected>>
        \/ addSelectedPair(p)
    BY <1>5, <1>6 DEF HandleSuccessResponse
  <2> QED BY <1>1, <1>2, <1>3, <1>4, <1>6, <2>3, <2>4 DEF handleSuccess, Known
<1>7. CASE ~(tx.dst = a /\ Known(p))
  <2>1. UNCHANGED <<checklist, connectionState, onConnected, selectedPairs>>
    BY <1>5, <1>7 DEF HandleSuccessResponse
  <2> QED BY <1>1, <1>2, <1>3, <1>4, <2>1, SMTT(30) DEF handleSuccess, TypeOK
<1> QED BY <1>6, <1>7

\* handleInbound takes messages only of a started agent, and authenticates them
\* with the peer's credentials.
LEMMA RequestAuthentic ==
    ASSUME NEW l, NEW a, NEW m \in Requests, handleRequest(l, a, m)
    PROVE  started /\ connectionState # "Closed" /\ remoteCreds # NoCreds
<1>1. Receives(l, a) /\ m.username = <<localCreds, remoteCreds>>
  BY Zenon DEF handleRequest
<1>2. m.username \in LocalCreds \X PeerCreds
  BY DEF Requests
<1>3. remoteCreds \in PeerCreds
  BY <1>1, <1>2
<1> QED BY <1>1, <1>3, CredsAssumption DEF Receives, Running

\* The same for a success response.
LEMMA SuccessAuthentic ==
    ASSUME NEW l, NEW a, NEW key \in PeerCreds, NEW tx, handleSuccess(l, a, key, tx)
    PROVE  started /\ connectionState # "Closed" /\ remoteCreds # NoCreds
<1>1. Receives(l, a) /\ key = remoteCreds
  BY Zenon DEF handleSuccess
<1> QED BY <1>1, CredsAssumption DEF Receives, Running

\* What the type invariant says of sockets and selected pairs.
LEMMA SelectedTyped == TypeOK => localCandidates \subseteq offered /\ Selected \subseteq Pairs
BY DEF TypeOK, Selected

-----------------------------------------------------------------------------
\* What contact does, in three cases.

\* The agent gives up or has already done so.
ContactGivesUp ==
    /\ \/ /\ connectionState = "Checking" /\ connectionState' = "Failed"
          /\ deleteAllCandidates
       \/ UNCHANGED <<connectionState, localCandidates, remoteCandidates, lastReceived>>
    /\ UNCHANGED <<checklist, pending, lastSent, panicked>>

\* With pairs selected it judges them and probes some of them.
ContactValidates ==
    /\ selectedPairs # <<>> /\ connectionState # "Failed"
    /\ connectionState' \in {"Connected", "Disconnected", "Failed"}
    /\ \/ connectionState' = "Failed" /\ deleteAllCandidates
       \/ /\ connectionState' # "Failed"
          /\ UNCHANGED <<localCandidates, remoteCandidates, lastReceived>>
    /\ \A tx \in pending' : \/ tx \in pending
                            \/ \E p \in Selected : tx.local = p.local /\ tx.dst = p.remote.addr
    /\ UNCHANGED checklist
    /\ panicked' \in BOOLEAN

\* With none it checks the pairs that are not settled.
ContactChecks ==
    /\ selectedPairs = <<>>
    /\ UNCHANGED <<connectionState, localCandidates, remoteCandidates, lastReceived, panicked>>
    /\ \A p \in Pairs :
          /\ checklist'[p].requests >= checklist[p].requests
          /\ \/ checklist'[p] = checklist[p]
             \/ /\ checklist[p].state \in {"Waiting", "InProgress"}
                /\ checklist'[p].state \in {"InProgress", "Failed"}
    /\ \A tx \in pending' : \/ tx \in pending
                            \/ \E p \in Pairs : /\ checklist[p].state # "None"
                                                /\ tx.local = p.local /\ tx.dst = p.remote.addr

\* pingAllCandidates stays within the limit and moves pairs forward.
LEMMA PingFacts ==
    ASSUME TypeOK, NEW down, pingAllCandidates(down)
    PROVE  /\ checklist' \in [Pairs -> Entry]
           /\ pending' \in PendingType
           /\ lastSent' \in [Locals -> Ages]
           /\ \A p \in Pairs :
                 /\ checklist'[p].requests >= checklist[p].requests
                 /\ \/ checklist'[p] = checklist[p]
                    \/ /\ checklist[p].state \in {"Waiting", "InProgress"}
                       /\ checklist'[p].state \in {"InProgress", "Failed"}
           /\ \A tx \in pending' :
                 \/ tx \in pending
                 \/ \E p \in Pairs : /\ checklist[p].state # "None"
                                     /\ tx.local = p.local /\ tx.dst = p.remote.addr
<1> DEFINE open   == {p \in Pairs : checklist[p].state \in {"Waiting", "InProgress"}}
           pinged == {p \in open : ~limitReached(checklist[p].requests)}
           count(p) == [checklist[p] EXCEPT !.state = "InProgress", !.requests = @ + 1]
           drop(p)  == [checklist[p] EXCEPT !.state = "Failed"]
<1>1. \A p \in Pairs :
        /\ drop(p) \in Entry /\ drop(p).state = "Failed"
        /\ drop(p).requests = checklist[p].requests
        /\ checklist[p].requests \in Nat
  <2>1. \A p \in Pairs : checklist[p] \in Entry
    BY DEF TypeOK
  <2> QED BY <2>1, EntryUpdates, Zenon
<1>2. \A p \in pinged :
        /\ count(p) \in Entry /\ count(p).state = "InProgress"
        /\ count(p).requests = checklist[p].requests + 1
  <2> SUFFICES ASSUME NEW p \in pinged
               PROVE  /\ count(p) \in Entry /\ count(p).state = "InProgress"
                      /\ count(p).requests = checklist[p].requests + 1
    BY Zenon
  <2>1. checklist[p] \in Entry /\ ~(checklist[p].requests > MaxBindingRequests)
    BY DEF TypeOK, limitReached
  <2> QED BY <2>1, EntryUpdates, Zenon
<1>3. checklist' = [p \in Pairs |-> IF p \in pinged THEN count(p)
                                    ELSE IF p \in open THEN drop(p) ELSE checklist[p]]
  BY Zenon DEF pingAllCandidates
<1>4. sendBindingRequest(pinged) /\ Sent({p.local : p \in pinged}, down)
  BY Zenon DEF pingAllCandidates
<1>5. pinged \in SUBSET Pairs /\ open \in SUBSET Pairs /\ pinged \subseteq open
      /\ \A p \in open : checklist[p].state \in {"Waiting", "InProgress"}
  OBVIOUS
<1>6. lastSent' \in [Locals -> Ages]
  BY <1>4, SentFacts DEF TypeOK
<1> HIDE DEF open, pinged, count, drop
<1>7. /\ pending' \in PendingType
      /\ \A tx \in pending' : \/ tx \in pending
                              \/ \E p \in pinged : tx.local = p.local /\ tx.dst = p.remote.addr
  BY <1>4, <1>5, SendFacts DEF TypeOK, PendingType
<1>8. checklist' \in [Pairs -> Entry]
  BY <1>1, <1>2, <1>3 DEF TypeOK
<1>9. \A p \in Pairs :
        /\ checklist'[p].requests >= checklist[p].requests
        /\ \/ checklist'[p] = checklist[p]
           \/ /\ checklist[p].state \in {"Waiting", "InProgress"}
              /\ checklist'[p].state \in {"InProgress", "Failed"}
  BY <1>1, <1>2, <1>3, <1>5
<1>10. \A tx \in pending' :
         \/ tx \in pending
         \/ \E p \in Pairs : /\ checklist[p].state # "None"
                             /\ tx.local = p.local /\ tx.dst = p.remote.addr
  BY <1>5, <1>7
<1> QED BY <1>6, <1>7, <1>8, <1>9, <1>10

\* contact is one of the three, keeps the types of what it changes, and changes
\* nothing else.
LEMMA ContactFacts ==
    ASSUME TypeOK, contact
    PROVE  /\ ContactGivesUp \/ ContactValidates \/ ContactChecks
           /\ checklist' \in [Pairs -> Entry] /\ pending' \in PendingType
           /\ lastSent' \in [Locals -> Ages]
           /\ checkingAge' \in Ages /\ lastConnectionState' = connectionState'
           /\ UNCHANGED <<gatheringState, started, onConnected, credVars, offered, pairVars>>
<1>1. /\ checkingAge' \in Ages /\ lastConnectionState' = connectionState'
      /\ UNCHANGED <<gatheringState, started, onConnected, credVars, offered, pairVars>>
  BY AgeFacts DEF contact, newCheckingAge, TypeOK
<1>2. pending \in PendingType /\ checklist \in [Pairs -> Entry] /\ lastSent \in [Locals -> Ages]
  BY DEF TypeOK, PendingType
<1>3. CASE UNCHANGED <<connectionState, localCandidates, remoteCandidates,
                       checklist, pending, lastSent, lastReceived, panicked>>
  BY <1>1, <1>2, <1>3 DEF ContactGivesUp
<1>4. CASE /\ checkingExpired /\ connectionState' = "Failed" /\ deleteAllCandidates
           /\ UNCHANGED <<checklist, pending, lastSent, panicked>>
  BY <1>1, <1>2, <1>4 DEF ContactGivesUp, checkingExpired
<1>5. ASSUME connectionState # "Failed", NEW down, ContactCandidates(down), selectedPairs # <<>>
      PROVE  /\ ContactValidates
             /\ checklist' \in [Pairs -> Entry] /\ pending' \in PendingType
             /\ lastSent' \in [Locals -> Ages]
  <2>1. validateSelectedPairs /\ UNCHANGED checklist
    BY <1>5 DEF ContactCandidates
  <2>2. /\ connectionState' \in {"Connected", "Disconnected", "Failed"}
        /\ \/ connectionState' = "Failed" /\ deleteAllCandidates
           \/ /\ connectionState' # "Failed"
              /\ UNCHANGED <<localCandidates, remoteCandidates, lastReceived>>
    BY <2>1 DEF validateSelectedPairs, validatedState
  <2>3. /\ pending' \in PendingType /\ lastSent' \in [Locals -> Ages]
        /\ panicked' \in BOOLEAN
        /\ \A tx \in pending' :
              \/ tx \in pending
              \/ \E p \in Selected : tx.local = p.local /\ tx.dst = p.remote.addr
    <3>1. CASE UNCHANGED <<pending, lastSent, panicked>>
      BY <1>2, <3>1 DEF TypeOK
    <3>2. CASE checkKeepalive(down)
      <4> DEFINE pinged == {selectedPairs[i] : i \in {j \in DOMAIN selectedPairs : needsKeepalive(j)}}
      <4>1. pinged \subseteq Selected /\ pinged \in SUBSET Pairs
        BY DEF Selected, TypeOK
      <4>2. sendBindingRequest(pinged) /\ Sent({p.local : p \in pinged}, down)
        BY <3>2 DEF checkKeepalive
      <4>3. panicked' \in BOOLEAN
        BY <3>2 DEF checkKeepalive
      <4>4. lastSent' \in [Locals -> Ages]
        BY <1>2, <4>2, SentFacts
      <4> HIDE DEF pinged
      <4> QED BY <1>2, <4>1, <4>2, <4>3, <4>4, SendFacts
    <3> QED BY <1>5, <3>1, <3>2 DEF ContactCandidates
  <2> QED BY <1>2, <1>5, <2>1, <2>2, <2>3 DEF ContactValidates
<1>6. ASSUME NEW down, ContactCandidates(down), selectedPairs = <<>>
      PROVE  /\ ContactChecks
             /\ checklist' \in [Pairs -> Entry] /\ pending' \in PendingType
             /\ lastSent' \in [Locals -> Ages]
  <2>1. UNCHANGED <<connectionState, localCandidates, remoteCandidates, lastReceived, panicked>>
    BY <1>6 DEF ContactCandidates
  <2>2. CASE UNCHANGED <<checklist, pending, lastSent>>
    <3>1. \A p \in Pairs : checklist[p].requests >= checklist[p].requests
      BY NumbersAssumption DEF TypeOK, Entry
    <3> QED BY <1>2, <1>6, <2>1, <2>2, <3>1 DEF ContactChecks
  <2>3. CASE pingAllCandidates(down)
    BY <1>6, <2>1, <2>3, PingFacts DEF ContactChecks
  <2> QED BY <1>6, <2>2, <2>3 DEF ContactCandidates
<1> QED BY <1>1, <1>3, <1>4, <1>5, <1>6 DEF contact

-----------------------------------------------------------------------------
\* Type correctness.

\* The initial state has its type.
LEMMA TypeInit == Init => TypeOK
<1> SUFFICES ASSUME Init PROVE TypeOK
  OBVIOUS
<1>1. remoteCandidates \in Seq(RemoteCands) /\ selectedPairs \in Seq(Pairs)
  BY DEF Init
<1>2. checklist \in [Pairs -> Entry]
  BY EntryFacts DEF Init
<1>3. lastSent \in [Locals -> Ages] /\ lastReceived \in [RemoteCands -> Ages]
  BY AgeFacts DEF Init
<1>4. copied \in 0 .. Len(selectedPairs)
  BY DEF Init
<1>5. /\ connectionState \in ConnectionStates /\ gatheringState \in GatheringStates
      /\ lastConnectionState \in ConnectionStates \cup {"None"}
  BY DEF Init, ConnectionStates, GatheringStates
<1>6. started \in BOOLEAN /\ onConnected \in BOOLEAN /\ panicked \in BOOLEAN
  BY Zenon DEF Init
<1> QED BY <1>1, <1>2, <1>3, <1>4, <1>5, <1>6, AgeFacts DEF Init, TypeOK

\* deleteAllCandidates keeps types.
LEMMA DeleteType ==
    ASSUME TypeOK, deleteAllCandidates, offered \subseteq offered'
    PROVE  /\ localCandidates' \subseteq offered'
           /\ remoteCandidates' \in Seq(RemoteCands)
           /\ lastReceived' \in [RemoteCands -> Ages]
BY AgeFacts DEF deleteAllCandidates

\* The calls of the application.
LEMMA TypeApplication == TypeOK /\ Application => TypeOK'
<1> SUFFICES ASSUME TypeOK, Application PROVE TypeOK'
  OBVIOUS
<1> USE DEF stateVars, credVars, candVars, pairVars, loopVars
<1>1. ASSUME NEW c \in Signalled, AddRemoteCandidate(c) PROVE TypeOK'
  <2>1. c \in RemoteCands
    BY DEF RemoteCands
  <2>2. Append(remoteCandidates, c) \in Seq(RemoteCands)
    BY <2>1, AppendFacts DEF TypeOK
  <2>3. addPairs(pairsOfRemote(c)) \in [Pairs -> Entry]
    BY AddPairsFacts DEF TypeOK
  <2>4. [lastReceived EXCEPT ![c] = MaxAge] \in [RemoteCands -> Ages]
    BY AgeFacts, Zenon DEF TypeOK
  <2> QED BY <1>1, <2>2, <2>3, <2>4 DEF TypeOK, AddRemoteCandidate
<1>2. ASSUME NEW c \in PeerCreds, SetRemoteCredentials(c) \/ connect(c) PROVE TypeOK'
  BY <1>2 DEF TypeOK, SetRemoteCredentials, connect
<1>3. ASSUME NEW c \in LocalCreds, Restart(c) PROVE TypeOK'
  <2>1. /\ remoteCandidates' \in Seq(RemoteCands) /\ selectedPairs' \in Seq(Pairs)
        /\ lastReceived' \in [RemoteCands -> Ages]
    BY <1>3, AgeFacts DEF Restart, deleteAllCandidates, clearSelectedPairs
  <2>2. checklist' \in [Pairs -> Entry]
    BY <1>3, EntryFacts DEF Restart, clearChecks
  <2> QED BY <1>3, <2>1, <2>2
          DEF TypeOK, Restart, deleteAllCandidates, clearSelectedPairs, clearChecks,
              ConnectionStates, GatheringStates
<1>4. CASE GetSelectedCandidatePairs
  BY <1>4 DEF TypeOK, GetSelectedCandidatePairs
<1>5. CASE Write
  <2>1. lastSent' \in [Locals -> Ages]
    BY <1>5, SentFacts DEF Write, TypeOK
  <2> QED BY <1>5, <2>1 DEF TypeOK, Write
<1>6. CASE Close
  <2>1. /\ remoteCandidates' \in Seq(RemoteCands)
        /\ lastReceived' \in [RemoteCands -> Ages]
    BY <1>6, AgeFacts DEF Close, deleteAllCandidates
  <2> QED BY <1>6, <2>1 DEF TypeOK, Close, deleteAllCandidates, ConnectionStates
<1> QED BY <1>1, <1>2, <1>3, <1>4, <1>5, <1>6 DEF Application

\* The agent's own tasks, the clock, and no step at all.
LEMMA TypeOthers == TypeOK /\ (AgentTask \/ Tick \/ Stopped \/ UNCHANGED vars) => TypeOK'
<1> SUFFICES ASSUME TypeOK, AgentTask \/ Tick \/ Stopped \/ UNCHANGED vars PROVE TypeOK'
  OBVIOUS
<1> USE DEF stateVars, credVars, candVars, pairVars, loopVars
<1>1. ASSUME NEW l \in Locals, addCandidate(l) PROVE TypeOK'
  <2>1. addPairs(pairsOfLocal(l)) \in [Pairs -> Entry]
    BY AddPairsFacts DEF TypeOK
  <2>2. [lastSent EXCEPT ![l] = MaxAge] \in [Locals -> Ages]
    BY AgeFacts DEF TypeOK
  <2> QED BY <1>1, <2>1, <2>2 DEF TypeOK, addCandidate
<1>2. ASSUME NEW s \in GatheringStates, setGatheringState(s) PROVE TypeOK'
  BY <1>2 DEF TypeOK, setGatheringState
<1>3. CASE startConnectivityChecks
  BY <1>3 DEF TypeOK, startConnectivityChecks, ConnectionStates
<1>4. CASE Tick
  <2>1. /\ lastSent' \in [Locals -> Ages] /\ lastReceived' \in [RemoteCands -> Ages]
        /\ checkingAge' \in Ages
    BY <1>4, AgeFacts, Zenon DEF Tick, TypeOK
  <2>2. pending' \in PendingType
    <3>1. \A tx \in pending : tx.age + 1 < BindingRequestTimeout =>
            [tx EXCEPT !.age = @ + 1]
               \in [local: Locals, dst: Addrs, age: 0 .. BindingRequestTimeout - 1]
      <4> SUFFICES ASSUME NEW tx \in pending, tx.age + 1 < BindingRequestTimeout
                   PROVE  [tx EXCEPT !.age = @ + 1]
                            \in [local: Locals, dst: Addrs, age: 0 .. BindingRequestTimeout - 1]
        OBVIOUS
      <4>1. tx \in [local: Locals, dst: Addrs, age: 0 .. BindingRequestTimeout - 1]
        BY DEF TypeOK
      <4>2. tx.age + 1 \in 0 .. BindingRequestTimeout - 1
        BY <4>1, NumbersAssumption
      <4> QED BY <4>1, <4>2
    <3> QED BY <1>4, <3>1 DEF Tick, invalidatePendingBindingRequests, PendingType
  <2> QED BY <1>4, <2>1, <2>2 DEF TypeOK, Tick, PendingType
<1>5. CASE Stopped \/ UNCHANGED vars
  BY <1>5 DEF TypeOK, Stopped, vars
<1> QED BY <1>1, <1>2, <1>3, <1>4, <1>5 DEF AgentTask

\* Inbound packets keep types.
LEMMA TypeInbound == TypeOK /\ ChecklistCurrent /\ Inbound => TypeOK'
<1> SUFFICES ASSUME TypeOK, ChecklistCurrent, NEW l \in Locals, NEW a \in Addrs,
                    \/ \E m \in Requests : handleRequest(l, a, m)
                    \/ \E key \in PeerCreds : \E tx \in pending : handleSuccess(l, a, key, tx)
                    \/ handleOther(l, a)
             PROVE  TypeOK'
  BY DEF Inbound
<1> USE DEF stateVars, credVars, candVars, pairVars, loopVars
<1>0. ASSUME NEW p \in Pairs, addSelectedPair(p), UNCHANGED copied
      PROVE  /\ selectedPairs' \in Seq(Pairs) /\ copied' \in 0 .. Len(selectedPairs')
             /\ connectionState' \in ConnectionStates /\ onConnected' \in BOOLEAN
  <2>1. /\ selectedPairs' \in Seq(Pairs) /\ Len(selectedPairs') >= Len(selectedPairs)
        /\ \/ UNCHANGED <<connectionState, onConnected>>
           \/ connectionState' = "Connected" /\ onConnected' = TRUE
    BY <1>0, AddSelectedFacts, Zenon DEF TypeOK
  <2>2. copied' \in 0 .. Len(selectedPairs')
    BY <1>0, <2>1 DEF TypeOK
  <2> QED BY <2>1, <2>2, Zenon DEF TypeOK, ConnectionStates
<1>1. ASSUME NEW m \in Requests, handleRequest(l, a, m) PROVE TypeOK'
  <2> DEFINE p == [local |-> l, remote |-> requester(a)]
  <2>1. p \in Pairs /\ remoteCandidates' \in Seq(RemoteCands)
    BY <1>1, RequesterFacts
  <2>2. checklist' \in [Pairs -> Entry]
    BY <1>1, RequestChecklist, Zenon
  <2>3. /\ pending' \in PendingType /\ lastSent' \in [Locals -> Ages]
        /\ lastReceived' \in [RemoteCands -> Ages]
        /\ UNCHANGED <<selectedPairs, connectionState, onConnected>> \/ addSelectedPair(p)
    BY <1>1, RequestSelection
  <2>4. UNCHANGED <<offered, localCandidates, gatheringState, started, dialing,
                    localCreds, remoteCreds, copied, loopVars, panicked>>
    BY <1>1, RequestUnfold, Zenon
  <2> HIDE DEF p
  <2>5. /\ selectedPairs' \in Seq(Pairs) /\ copied' \in 0 .. Len(selectedPairs')
        /\ connectionState' \in ConnectionStates /\ onConnected' \in BOOLEAN
    BY <1>0, <2>1, <2>3, <2>4 DEF TypeOK
  <2> QED BY <2>1, <2>2, <2>3, <2>4, <2>5 DEF TypeOK, PendingType
<1>2. ASSUME NEW key \in PeerCreds, NEW tx \in pending, handleSuccess(l, a, key, tx)
      PROVE  TypeOK'
  <2> DEFINE p == [local |-> l, remote |-> findRemoteCandidate(a)]
  <2>1. /\ p \in Pairs /\ checklist' \in [Pairs -> Entry] /\ pending' \subseteq pending
        /\ lastReceived' \in [RemoteCands -> Ages]
        /\ UNCHANGED <<selectedPairs, connectionState, onConnected>> \/ addSelectedPair(p)
        /\ UNCHANGED <<gatheringState, started, credVars, candVars, copied,
                       lastSent, loopVars, panicked>>
    BY <1>2, SuccessFacts
  <2> HIDE DEF p
  <2>2. /\ selectedPairs' \in Seq(Pairs) /\ copied' \in 0 .. Len(selectedPairs')
        /\ connectionState' \in ConnectionStates /\ onConnected' \in BOOLEAN
    BY <1>0, <2>1 DEF TypeOK
  <2> QED BY <2>1, <2>2 DEF TypeOK
<1>3. CASE handleOther(l, a)
  <2>1. lastReceived' \in [RemoteCands -> Ages]
    BY <1>3, FindRemote, AgeFacts DEF handleOther, TypeOK
  <2> QED BY <1>3, <2>1 DEF handleOther, TypeOK
<1> QED BY <1>1, <1>2, <1>3

\* contact keeps types.
LEMMA TypeContact == TypeOK /\ contact => TypeOK'
<1> SUFFICES ASSUME TypeOK, contact PROVE TypeOK'
  OBVIOUS
<1> USE DEF credVars, pairVars
<1>1. /\ checklist' \in [Pairs -> Entry] /\ pending' \in PendingType
      /\ lastSent' \in [Locals -> Ages]
      /\ checkingAge' \in Ages /\ lastConnectionState' = connectionState'
      /\ UNCHANGED <<gatheringState, started, onConnected, credVars, offered, pairVars>>
  BY ContactFacts
<1>2. /\ connectionState' \in ConnectionStates /\ panicked' \in BOOLEAN
      /\ \/ deleteAllCandidates
         \/ UNCHANGED <<localCandidates, remoteCandidates, lastReceived>>
  BY ContactFacts
     DEF ContactGivesUp, ContactValidates, ContactChecks, TypeOK, ConnectionStates
<1>3. /\ localCandidates' \subseteq offered'
      /\ remoteCandidates' \in Seq(RemoteCands)
      /\ lastReceived' \in [RemoteCands -> Ages]
  BY <1>1, <1>2, DeleteType DEF TypeOK
<1> QED BY <1>1, <1>2, <1>3 DEF TypeOK, PendingType
=============================================================================
