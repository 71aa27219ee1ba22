------------------------- MODULE IceAgentInvariant --------------------------
(***************************************************************************)
(* The inductive invariant of IceAgent, and the safety properties that     *)
(* follow from it for every set of candidates, addresses and credentials,  *)
(* every configuration and both roles.                                     *)
(***************************************************************************)
EXTENDS IceAgentFacts

-----------------------------------------------------------------------------
\* The inductive invariant.

\* The checks are started exactly once, when the state leaves New.
StartedOnce ==
    /\ started <=> connectionState # "New"
    /\ dialing # NoCreds /\ connectionState # "Closed" => ~started

\* The part that concerns the checklist and the candidates ...
ListInv == ChecklistCurrent /\ PairsComplete /\ SelectedSucceeded /\ PendingFromChecklist

\* ... and the part that concerns the announced state.
StateInv == /\ StartedOnce /\ StateMatchesSelection /\ ConnectedUsable
            /\ FailedReleased /\ NoSelectionWithoutCredentials

IInv == TypeOK /\ ListInv /\ StateInv

\* The initial state satisfies the invariant.
LEMMA InvInit == Init => IInv
<1> SUFFICES ASSUME Init PROVE IInv
  OBVIOUS
<1>1. TypeOK
  BY TypeInit
<1>2. Selected = {} /\ Remotes = {} /\ selectedPairs = <<>> /\ pending = {}
  BY DEF Init, Selected, Remotes
<1>3. \A p \in Pairs : ~Known(p)
  BY EntryFacts DEF Init, Known
<1>4. ListInv
  BY <1>2, <1>3 DEF ListInv, ChecklistCurrent, PairsComplete, SelectedSucceeded,
                    PendingFromChecklist
<1>5. StateInv
  BY <1>2 DEF Init, StateInv, StartedOnce, StateMatchesSelection, ConnectedUsable,
              FailedReleased, NoSelectionWithoutCredentials
<1> QED BY <1>1, <1>4, <1>5 DEF IInv

\* A step that changes neither candidates, pairs nor requests keeps ListInv.
LEMMA ListFrame ==
    ASSUME ListInv, pending' \subseteq pending,
           UNCHANGED <<checklist, selectedPairs, localCandidates, remoteCandidates, offered>>
    PROVE  ListInv'
<1>1. Selected' = Selected /\ Remotes' = Remotes
  BY DEF Selected, Remotes
<1>2. \A p \in Pairs : Known(p)' <=> Known(p)
  BY DEF Known
<1> QED BY <1>1, <1>2 DEF ListInv, ChecklistCurrent, PairsComplete, SelectedSucceeded,
                          PendingFromChecklist

\* A step that changes neither the state, the selection nor the sockets keeps
\* StateInv, apart from what it does to credentials and Dial.
LEMMA StateFrame ==
    ASSUME StateInv, UNCHANGED <<connectionState, selectedPairs, localCandidates, started>>,
           dialing' # NoCreds => dialing # NoCreds \/ ~started,
           remoteCreds' = NoCreds => remoteCreds = NoCreds
    PROVE  StateInv'
<1>1. Selected' = Selected
  BY DEF Selected
<1>2. StartedOnce'
  BY DEF StateInv, StartedOnce
<1> QED BY <1>1, <1>2 DEF StateInv, StateMatchesSelection, ConnectedUsable,
                          FailedReleased, NoSelectionWithoutCredentials

\* When every candidate is forgotten, ListInv needs the checklist only.
LEMMA ListDelete ==
    ASSUME ListInv, deleteAllCandidates, UNCHANGED <<checklist, selectedPairs, offered>>,
           \A tx \in pending' : \/ tx \in pending
                                \/ \E p \in Selected : tx.local = p.local /\ tx.dst = p.remote.addr,
           selectedPairs \in Seq(Pairs)
    PROVE  ListInv'
<1>1. Selected' = Selected /\ localCandidates' = {} /\ Selected \subseteq Pairs
  BY DEF Selected, deleteAllCandidates
<1>2. \A p \in Pairs : Known(p)' <=> Known(p)
  BY DEF Known
<1>3. \A p \in Selected : Known(p)
  BY DEF ListInv, SelectedSucceeded, Known
<1>4. PendingFromChecklist'
  BY <1>1, <1>2, <1>3 DEF ListInv, PendingFromChecklist
<1> QED BY <1>1, <1>2, <1>4 DEF ListInv, ChecklistCurrent, PairsComplete, SelectedSucceeded

\* Selecting an open, succeeded pair keeps StateInv once credentials are set.
LEMMA SelectInv ==
    ASSUME TypeOK, StateInv, NEW p \in Pairs, addSelectedPair(p), started,
           connectionState # "Closed", p.local \in localCandidates, remoteCreds # NoCreds,
           UNCHANGED <<started, dialing, remoteCreds, localCandidates>>
    PROVE  StateInv'
<1>1. /\ selectedPairs' # <<>> /\ Selected' = Selected \cup {p}
      /\ p \in Selected => UNCHANGED <<selectedPairs, connectionState>>
      /\ p \notin Selected => connectionState' = "Connected"
  BY AddSelectedFacts, Zenon DEF TypeOK
<1>2. CASE p \in Selected
  BY <1>1, <1>2, StateFrame
<1>3. CASE p \notin Selected
  <2>1. connectionState' = "Connected"
    BY <1>1, <1>3
  <2>2. StartedOnce'
    BY <2>1 DEF StateInv, StartedOnce
  <2> QED BY <1>1, <2>1, <2>2 DEF StateInv, StateMatchesSelection, ConnectedUsable,
                                  FailedReleased, NoSelectionWithoutCredentials
<1> QED BY <1>2, <1>3

\* The calls of the application keep the invariant.
LEMMA InvApplication == IInv /\ Application => ListInv' /\ StateInv'
<1> SUFFICES ASSUME IInv, Application PROVE ListInv' /\ StateInv'
  OBVIOUS
<1> USE DEF stateVars, credVars, candVars, pairVars, loopVars
<1>0. TypeOK /\ ListInv /\ StateInv
  BY DEF IInv
<1>1. ASSUME NEW c \in Signalled, AddRemoteCandidate(c) PROVE ListInv' /\ StateInv'
  <2>1. c \in RemoteCands /\ c \notin Remotes
    BY <1>1 DEF RemoteCands, AddRemoteCandidate, isDuplicate
  <2>2. Remotes' = Remotes \cup {c}
    <3>1. remoteCandidates' = Append(remoteCandidates, c)
      BY <1>1 DEF AddRemoteCandidate
    <3> QED BY <1>0, <2>1, <3>1, AppendRemote DEF TypeOK
  <2>3. UNCHANGED <<selectedPairs, localCandidates, offered, pending>> /\ Selected' = Selected
    BY <1>1 DEF AddRemoteCandidate, Selected
  <2>4. \A p \in Pairs : p \in pairsOfRemote(c) <=> p.remote = c /\ p.local \in localCandidates
    BY DEF pairsOfRemote
  <2>5. \A p \in pairsOfRemote(c) : ~Known(p)
    BY <1>0, <2>1, <2>4 DEF pairsOfRemote, ListInv, ChecklistCurrent
  <2>6. /\ \A p \in Pairs : p \in pairsOfRemote(c) => checklist'[p] = newCandidatePair
        /\ \A p \in Pairs : p \notin pairsOfRemote(c) => checklist'[p] = checklist[p]
    BY <1>0, <1>1, AddPairsFacts DEF AddRemoteCandidate, TypeOK
  <2>7. \A p \in Pairs : Known(p)' <=> Known(p) \/ p \in pairsOfRemote(c)
    BY <2>6, EntryFacts DEF Known
  <2>8. ChecklistCurrent' /\ PairsComplete'
    <3>1. localCandidates \subseteq offered
      BY <1>0 DEF TypeOK
    <3> QED BY <1>0, <2>2, <2>3, <2>4, <2>7, <3>1 DEF ListInv, ChecklistCurrent, PairsComplete
  <2>9. SelectedSucceeded' /\ PendingFromChecklist'
    <3>1. Selected \subseteq Pairs
      BY <1>0 DEF TypeOK, Selected
    <3> QED BY <1>0, <2>3, <2>5, <2>6, <2>7, <3>1
            DEF ListInv, SelectedSucceeded, PendingFromChecklist, Known
  <2>10. StateInv'
    BY <1>0, <1>1, StateFrame DEF AddRemoteCandidate
  <2> QED BY <2>8, <2>9, <2>10 DEF ListInv
<1>2. ASSUME NEW c \in PeerCreds, SetRemoteCredentials(c) \/ connect(c)
      PROVE  ListInv' /\ StateInv'
  <2>1. /\ UNCHANGED <<connectionState, started, checklist, selectedPairs, localCandidates,
                       remoteCandidates, offered, pending>>
        /\ remoteCreds' = c
        /\ dialing' # NoCreds => dialing # NoCreds \/ ~started
    BY <1>2 DEF SetRemoteCredentials, connect
  <2>2. c # NoCreds
    BY CredsAssumption
  <2>3. ListInv'
    BY <1>0, <2>1, ListFrame
  <2> QED BY <1>0, <2>1, <2>2, <2>3, StateFrame
<1>3. ASSUME NEW c \in LocalCreds, Restart(c) PROVE ListInv' /\ StateInv'
  <2>1. /\ selectedPairs' = <<>> /\ pending' = {} /\ localCandidates' = {}
        /\ checklist' = [p \in Pairs |-> NoEntry]
        /\ connectionState' = IF connectionState = "New" THEN "New" ELSE "Checking"
        /\ connectionState # "Closed"
        /\ UNCHANGED <<started, dialing>>
    BY <1>3 DEF Restart, clearChecks, clearSelectedPairs, deleteAllCandidates, Running
  <2>2. Selected' = {} /\ \A p \in Pairs : ~Known(p)'
    BY <2>1, EntryFacts DEF Selected, Known
  <2>3. ListInv'
    BY <2>1, <2>2 DEF ListInv, ChecklistCurrent, PairsComplete, SelectedSucceeded,
                      PendingFromChecklist
  <2>4. StartedOnce'
    BY <1>0, <2>1 DEF StateInv, StartedOnce
  <2>5. StateInv'
    BY <2>1, <2>2, <2>4 DEF StateInv, StateMatchesSelection, ConnectedUsable,
                            FailedReleased, NoSelectionWithoutCredentials
  <2> QED BY <2>3, <2>5
<1>4. CASE GetSelectedCandidatePairs \/ Write
  <2>1. UNCHANGED <<connectionState, started, dialing, remoteCreds, checklist, selectedPairs,
                    localCandidates, remoteCandidates, offered, pending>>
    BY <1>4 DEF GetSelectedCandidatePairs, Write
  <2>2. ListInv'
    BY <1>0, <2>1, ListFrame
  <2> QED BY <1>0, <2>1, <2>2, StateFrame
<1>5. CASE Close
  <2>1. /\ connectionState' = "Closed" /\ started' = TRUE /\ deleteAllCandidates
        /\ UNCHANGED <<checklist, selectedPairs, offered, pending, remoteCreds>>
    BY <1>5 DEF Close
  <2>2. ListInv'
    BY <1>0, <2>1, ListDelete DEF TypeOK
  <2>3. StartedOnce'
    BY <2>1 DEF StartedOnce
  <2>4. StateInv'
    BY <1>0, <2>1, <2>3 DEF StateInv, StateMatchesSelection, ConnectedUsable,
                            FailedReleased, NoSelectionWithoutCredentials
  <2> QED BY <2>2, <2>4
<1> QED BY <1>1, <1>2, <1>3, <1>4, <1>5 DEF Application

\* The agent's own tasks and the clock keep the invariant.
LEMMA InvOthers ==
    IInv /\ (AgentTask \/ Tick \/ Stopped \/ UNCHANGED vars) => ListInv' /\ StateInv'
<1> SUFFICES ASSUME IInv, AgentTask \/ Tick \/ Stopped \/ UNCHANGED vars
             PROVE  ListInv' /\ StateInv'
  OBVIOUS
<1> USE DEF stateVars, credVars, candVars, pairVars, loopVars
<1>0. TypeOK /\ ListInv /\ StateInv
  BY DEF IInv
<1>1. ASSUME NEW l \in Locals, addCandidate(l) PROVE ListInv' /\ StateInv'
  <2>1. /\ l \notin offered /\ offered' = offered \cup {l}
        /\ localCandidates' = localCandidates \cup {l}
        /\ UNCHANGED <<connectionState, started, dialing, remoteCreds, selectedPairs,
                       remoteCandidates, pending>>
    BY <1>1 DEF addCandidate
  <2>2. Selected' = Selected /\ Remotes' = Remotes
    BY <2>1 DEF Selected, Remotes
  <2>3. \A p \in Pairs : p \in pairsOfLocal(l) <=> p.local = l /\ p.remote \in Remotes
    BY DEF pairsOfLocal
  <2>4. \A p \in Pairs : Known(p) => p.local # l
    BY <1>0, <2>1 DEF ListInv, ChecklistCurrent
  <2>5. /\ \A p \in Pairs : p \in pairsOfLocal(l) => checklist'[p] = newCandidatePair
        /\ \A p \in Pairs : p \notin pairsOfLocal(l) => checklist'[p] = checklist[p]
    BY <1>0, <1>1, AddPairsFacts DEF addCandidate, TypeOK
  <2>6. \A p \in Pairs : Known(p)' <=> Known(p) \/ p \in pairsOfLocal(l)
    BY <2>5, EntryFacts DEF Known
  <2>7. ChecklistCurrent' /\ PairsComplete'
    BY <1>0, <2>1, <2>2, <2>3, <2>4, <2>6 DEF ListInv, ChecklistCurrent, PairsComplete
  <2>8. Selected \subseteq Pairs /\ \A p \in Selected : Known(p) /\ p.local # l
    BY <1>0, <2>4 DEF TypeOK, Selected, ListInv, SelectedSucceeded, Known
  <2>9. SelectedSucceeded' /\ PendingFromChecklist'
    BY <1>0, <2>1, <2>2, <2>3, <2>5, <2>6, <2>8
       DEF ListInv, SelectedSucceeded, PendingFromChecklist
  <2>10. StartedOnce'
    BY <1>0, <2>1 DEF StateInv, StartedOnce
  <2>11. StateInv'
    BY <1>0, <2>1, <2>2, <2>8, <2>10
       DEF StateInv, StateMatchesSelection, ConnectedUsable, FailedReleased,
           NoSelectionWithoutCredentials
  <2> QED BY <2>7, <2>9, <2>11 DEF ListInv
<1>2. CASE (\E s \in GatheringStates : setGatheringState(s)) \/ Stopped \/ UNCHANGED vars
  <2>1. UNCHANGED <<connectionState, started, dialing, remoteCreds, checklist, selectedPairs,
                    localCandidates, remoteCandidates, offered, pending>>
    BY <1>2 DEF setGatheringState, Stopped, vars
  <2>2. ListInv'
    BY <1>0, <2>1, ListFrame
  <2> QED BY <1>0, <2>1, <2>2, StateFrame
<1>3. CASE startConnectivityChecks
  <2>1. /\ dialing # NoCreds /\ connectionState # "Closed"
        /\ connectionState' = "Checking" /\ started' = TRUE
        /\ dialing' = NoCreds /\ remoteCreds' = dialing
        /\ UNCHANGED <<checklist, selectedPairs, localCandidates, remoteCandidates,
                       offered, pending>>
    BY <1>3 DEF startConnectivityChecks, Running
  <2>2. connectionState = "New"
    BY <1>0, <2>1 DEF StateInv, StartedOnce
  <2>3. selectedPairs' = <<>>
    BY <1>0, <2>1, <2>2 DEF StateInv, StateMatchesSelection
  <2>4. StartedOnce'
    BY <2>1 DEF StartedOnce
  <2>5. StateInv'
    BY <2>1, <2>3, <2>4 DEF StateInv, StateMatchesSelection, ConnectedUsable,
                            FailedReleased, NoSelectionWithoutCredentials
  <2> QED BY <1>0, <2>1, <2>5, ListFrame
<1>4. CASE Tick
  <2>1. UNCHANGED <<connectionState, started, dialing, remoteCreds, checklist, selectedPairs,
                    localCandidates, remoteCandidates, offered>>
    BY <1>4 DEF Tick
  <2>2. StateInv'
    BY <1>0, <2>1, StateFrame
  <2>3. \A tx \in pending' : \E t \in pending : tx.local = t.local /\ tx.dst = t.dst
    <3>1. \A t \in pending : /\ [t EXCEPT !.age = @ + 1].local = t.local
                             /\ [t EXCEPT !.age = @ + 1].dst = t.dst
      BY <1>0 DEF TypeOK
    <3> QED BY <1>4, <3>1, Zenon DEF Tick, invalidatePendingBindingRequests
  <2>4. Selected' = Selected /\ Remotes' = Remotes /\ \A p \in Pairs : Known(p)' <=> Known(p)
    BY <2>1 DEF Selected, Remotes, Known
  <2>5. PendingFromChecklist'
    BY <1>0, <2>3, <2>4 DEF ListInv, PendingFromChecklist
  <2> QED BY <1>0, <2>1, <2>2, <2>4, <2>5
          DEF ListInv, ChecklistCurrent, PairsComplete, SelectedSucceeded
<1> QED BY <1>1, <1>2, <1>3, <1>4 DEF AgentTask

\* A message that may have selected pair p, as in StateInv.
LEMMA SelectionState ==
    ASSUME TypeOK, StateInv, NEW p \in Pairs, p.local \in localCandidates,
           started, connectionState # "Closed", remoteCreds # NoCreds,
           UNCHANGED <<selectedPairs, connectionState>> \/ addSelectedPair(p),
           UNCHANGED <<started, dialing, remoteCreds, localCandidates>>
    PROVE  StateInv'
<1>1. CASE UNCHANGED <<selectedPairs, connectionState>>
  BY <1>1, StateFrame
<1>2. CASE addSelectedPair(p)
  BY <1>2, SelectInv
<1> QED BY <1>1, <1>2

\* A success response marks pairs as succeeded and may select one of them.
LEMMA SuccessLists ==
    ASSUME TypeOK, ListInv, NEW p \in Pairs, pending' \subseteq pending,
           \A q \in Pairs : checklist'[q].state = "None" <=> checklist[q].state = "None",
           \A q \in Pairs : \/ checklist'[q].state = checklist[q].state
                            \/ checklist'[q].state = "Succeeded",
           \/ UNCHANGED selectedPairs
           \/ checklist'[p].state = "Succeeded" /\ addSelectedPair(p),
           UNCHANGED <<offered, localCandidates, remoteCandidates>>
    PROVE  ListInv'
<1>1. Remotes' = Remotes
  BY DEF Remotes
<1>2. \A q \in Pairs : Known(q)' <=> Known(q)
  BY DEF Known
<1>3. ChecklistCurrent' /\ PairsComplete' /\ PendingFromChecklist'
  BY <1>1, <1>2, Zenon DEF ListInv, ChecklistCurrent, PairsComplete, PendingFromChecklist
<1>4. Selected' = Selected \/ (checklist'[p].state = "Succeeded" /\ Selected' = Selected \cup {p})
  <2>1. CASE UNCHANGED selectedPairs
    BY <2>1 DEF Selected
  <2>2. CASE checklist'[p].state = "Succeeded" /\ addSelectedPair(p)
    BY <2>2, AddSelectedFacts, Zenon DEF TypeOK
  <2> QED BY <2>1, <2>2
<1>5. SelectedSucceeded'
  BY <1>4, SelectedTyped, Zenon DEF ListInv, SelectedSucceeded
<1> QED BY <1>3, <1>5 DEF ListInv

\* Inbound packets keep the invariant.
LEMMA InvInbound == IInv /\ Inbound => ListInv' /\ StateInv'
<1> SUFFICES ASSUME IInv, NEW l \in Locals, NEW a \in Addrs,
                    \/ \E m \in Requests : handleRequest(l, a, m)
                    \/ \E key \in PeerCreds : \E tx \in pending : handleSuccess(l, a, key, tx)
                    \/ handleOther(l, a)
             PROVE  ListInv' /\ StateInv'
  BY DEF Inbound
<1> USE DEF stateVars, credVars, candVars, pairVars, loopVars
<1>0. TypeOK /\ ListInv /\ StateInv /\ ChecklistCurrent
  BY DEF IInv, ListInv
<1>1. ASSUME NEW m \in Requests, handleRequest(l, a, m) PROVE ListInv' /\ StateInv'
  <2> DEFINE r == requester(a)
             p == [local |-> l, remote |-> r]
  <2>1. /\ l \in localCandidates /\ r.addr = a /\ p \in Pairs
        /\ p.local = l /\ p.remote = r
        /\ matching(a) # {} => r \in Remotes
        /\ Remotes' = Remotes \cup {r}
    BY <1>0, <1>1, RequesterFacts
  <2>2. /\ \A q \in Pairs : Known(q) => checklist'[q].state = checklist[q].state
        /\ \A q \in Pairs : ~Known(q) => \/ checklist'[q].state = "None"
                                         \/ q.remote = r /\ q.local \in localCandidates
        /\ \A q \in Pairs : /\ matching(a) = {} /\ q.remote = r /\ q.local \in localCandidates
                            => checklist'[q].state # "None"
        /\ checklist'[p].state # "None"
    BY <1>0, <1>1, RequestChecklist
  <2>3. /\ \/ UNCHANGED <<selectedPairs, connectionState>>
           \/ checklist'[p].state = "Succeeded" /\ addSelectedPair(p)
        /\ \A tx \in pending' : tx \in pending \/ (tx.local = p.local /\ tx.dst = p.remote.addr)
    BY <1>0, <1>1, RequestSelection
  <2>4. UNCHANGED <<offered, localCandidates, started, dialing, remoteCreds>>
    BY <1>0, <1>1, RequestUnfold, Zenon
  <2>5. started /\ connectionState # "Closed" /\ remoteCreds # NoCreds
    BY <1>1, RequestAuthentic
  <2> HIDE DEF r, p
  <2>6. \A q \in Pairs : Known(q) => Known(q)'
    BY <2>2 DEF Known
  <2>7. localCandidates \subseteq offered /\ Selected \subseteq Pairs
    BY <1>0, SelectedTyped
  <2>8. ChecklistCurrent'
    BY <1>0, <2>1, <2>2, <2>4, <2>7 DEF ChecklistCurrent, Known
  <2>9. PairsComplete'
    BY <1>0, <2>1, <2>2, <2>4, <2>6 DEF ListInv, PairsComplete, Known
  <2>10. Selected' = Selected \/ (checklist'[p].state = "Succeeded" /\ Selected' = Selected \cup {p})
    <3>1. CASE UNCHANGED selectedPairs
      BY <3>1 DEF Selected
    <3>2. CASE checklist'[p].state = "Succeeded" /\ addSelectedPair(p)
      BY <1>0, <2>1, <3>2, AddSelectedFacts, Zenon DEF TypeOK
    <3> QED BY <2>3, <3>1, <3>2
  <2>11. SelectedSucceeded'
    BY <1>0, <2>2, <2>7, <2>10 DEF ListInv, SelectedSucceeded, Known
  <2>12. PendingFromChecklist'
    BY <1>0, <2>1, <2>2, <2>3, <2>6 DEF ListInv, PendingFromChecklist, Known
  <2>13. StateInv'
    BY <1>0, <2>1, <2>3, <2>4, <2>5, SelectionState
  <2> QED BY <2>8, <2>9, <2>11, <2>12, <2>13 DEF ListInv
<1>2. ASSUME NEW key \in PeerCreds, NEW tx \in pending, handleSuccess(l, a, key, tx)
      PROVE  ListInv' /\ StateInv'
  <2> DEFINE p == [local |-> l, remote |-> findRemoteCandidate(a)]
  <2>1. /\ p \in Pairs /\ l \in localCandidates /\ p.local = l
        /\ \A q \in Pairs : checklist'[q].state = "None" <=> checklist[q].state = "None"
        /\ \A q \in Pairs : \/ checklist'[q].state = checklist[q].state
                            \/ checklist'[q].state = "Succeeded"
        /\ pending' \subseteq pending
        /\ \/ UNCHANGED <<selectedPairs, connectionState>>
           \/ checklist'[p].state = "Succeeded" /\ addSelectedPair(p)
        /\ UNCHANGED <<started, credVars, candVars>>
    BY <1>0, <1>2, SuccessFacts
  <2>2. started /\ connectionState # "Closed" /\ remoteCreds # NoCreds
    BY <1>2, SuccessAuthentic
  <2> HIDE DEF p
  <2>3. ListInv'
    BY <1>0, <2>1, SuccessLists, Zenon
  <2>4. StateInv'
    BY <1>0, <2>1, <2>2, SelectionState, Zenon
  <2> QED BY <2>3, <2>4
<1>3. CASE handleOther(l, a)
  <2>1. UNCHANGED <<connectionState, started, dialing, remoteCreds, checklist, selectedPairs,
                    localCandidates, remoteCandidates, offered, pending>>
    BY <1>3 DEF handleOther
  <2>2. ListInv'
    BY <1>0, <2>1, ListFrame
  <2> QED BY <1>0, <2>1, <2>2, StateFrame
<1> QED BY <1>1, <1>2, <1>3

\* The connectivityChecks loop keeps the invariant.
LEMMA InvContact == IInv /\ contact => ListInv' /\ StateInv'
<1> SUFFICES ASSUME IInv, contact PROVE ListInv' /\ StateInv'
  OBVIOUS
<1> USE DEF credVars, pairVars
<1>0. TypeOK /\ ListInv /\ StateInv
  BY DEF IInv
<1>1. /\ UNCHANGED <<started, dialing, remoteCreds, offered, selectedPairs>>
      /\ Selected' = Selected
  BY <1>0, ContactFacts DEF Selected
<1>2. connectionState # "Closed" /\ started /\ connectionState # "New"
  BY <1>0 DEF contact, Running, StateInv, StartedOnce
<1>3. ASSUME connectionState' \in {"Connected", "Disconnected", "Failed", "Checking"}
      PROVE  StartedOnce'
  BY <1>0, <1>1, <1>2, <1>3 DEF StateInv, StartedOnce
<1>4. ASSUME connectionState' = "Failed", deleteAllCandidates PROVE StateInv'
  BY <1>0, <1>1, <1>3, <1>4
     DEF deleteAllCandidates, StateInv, StateMatchesSelection, ConnectedUsable,
         FailedReleased, NoSelectionWithoutCredentials
<1>5. CASE ContactGivesUp
  <2>1. CASE connectionState' = "Failed" /\ deleteAllCandidates
    BY <1>0, <1>1, <1>4, <1>5, <2>1, ListDelete DEF ContactGivesUp, TypeOK
  <2>2. CASE UNCHANGED <<connectionState, localCandidates, remoteCandidates, lastReceived>>
    <3>1. ListInv'
      BY <1>0, <1>1, <1>5, <2>2, ListFrame DEF ContactGivesUp
    <3> QED BY <1>0, <1>1, <2>2, <3>1, StateFrame
  <2> QED BY <1>5, <2>1, <2>2 DEF ContactGivesUp
<1>6. CASE ContactValidates
  <2>0. /\ selectedPairs # <<>> /\ connectionState # "Failed" /\ UNCHANGED checklist
        /\ \A tx \in pending' : \/ tx \in pending
                                \/ \E p \in Selected : tx.local = p.local /\ tx.dst = p.remote.addr
    BY <1>6 DEF ContactValidates
  <2>1. CASE connectionState' = "Failed" /\ deleteAllCandidates
    <3>1. ListInv'
      BY <1>0, <1>1, <2>0, <2>1, ListDelete DEF TypeOK
    <3> QED BY <1>4, <2>1, <3>1
  <2>2. CASE /\ connectionState' \in {"Connected", "Disconnected"}
             /\ UNCHANGED <<localCandidates, remoteCandidates, lastReceived>>
    <3>1. connectionState \in {"Connected", "Disconnected"}
      BY <1>0, <1>2, <2>0 DEF TypeOK, ConnectionStates, StateInv, StateMatchesSelection
    <3>2. StateInv'
      BY <1>0, <1>1, <1>3, <2>2, <3>1
         DEF StateInv, StateMatchesSelection, ConnectedUsable, FailedReleased,
             NoSelectionWithoutCredentials
    <3>3. Remotes' = Remotes /\ \A p \in Pairs : Known(p)' <=> Known(p)
      BY <2>0, <2>2 DEF Remotes, Known
    <3>4. Selected \subseteq Pairs /\ \A p \in Selected : Known(p)
      BY <1>0 DEF TypeOK, Selected, ListInv, SelectedSucceeded, Known
    <3>5. PendingFromChecklist'
      BY <1>0, <2>0, <3>3, <3>4 DEF ListInv, PendingFromChecklist
    <3>6. ChecklistCurrent' /\ PairsComplete' /\ SelectedSucceeded'
      BY <1>0, <1>1, <2>0, <2>2, <3>3 DEF ListInv, ChecklistCurrent, PairsComplete,
                                          SelectedSucceeded
    <3> QED BY <3>2, <3>5, <3>6 DEF ListInv
  <2> QED BY <1>6, <2>1, <2>2 DEF ContactValidates
<1>7. CASE ContactChecks
  <2>1. /\ selectedPairs = <<>>
        /\ UNCHANGED <<connectionState, localCandidates, remoteCandidates>>
        /\ \A p \in Pairs : \/ checklist'[p] = checklist[p]
                            \/ /\ checklist[p].state \in {"Waiting", "InProgress"}
                               /\ checklist'[p].state \in {"InProgress", "Failed"}
        /\ \A tx \in pending' :
              \/ tx \in pending
              \/ \E p \in Pairs : /\ checklist[p].state # "None"
                                  /\ tx.local = p.local /\ tx.dst = p.remote.addr
    BY <1>7 DEF ContactChecks
  <2>2. Remotes' = Remotes /\ Selected' = {} /\ \A p \in Pairs : Known(p)' <=> Known(p)
    BY <1>1, <2>1 DEF Remotes, Selected, Known
  <2>3. PendingFromChecklist'
    BY <1>0, <2>1, <2>2 DEF ListInv, PendingFromChecklist, Known
  <2>4. ChecklistCurrent' /\ PairsComplete' /\ SelectedSucceeded'
    BY <1>0, <1>1, <2>1, <2>2 DEF ListInv, ChecklistCurrent, PairsComplete, SelectedSucceeded
  <2>5. StateInv'
    BY <1>0, <1>1, <2>1, StateFrame
  <2> QED BY <2>3, <2>4, <2>5 DEF ListInv
<1> QED BY <1>0, <1>5, <1>6, <1>7, ContactFacts

\* Every step keeps the invariant.
LEMMA InvStep == IInv /\ [Next]_vars => IInv'
<1> SUFFICES ASSUME IInv, [Next]_vars PROVE IInv'
  OBVIOUS
<1>1. TypeOK /\ ChecklistCurrent
  BY DEF IInv, ListInv
<1>2. CASE Inbound
  BY <1>1, <1>2, TypeInbound, InvInbound DEF IInv
<1>3. CASE Application
  BY <1>1, <1>3, TypeApplication, InvApplication DEF IInv
<1>4. CASE contact
  BY <1>1, <1>4, TypeContact, InvContact DEF IInv
<1>5. CASE AgentTask \/ Tick \/ Stopped \/ UNCHANGED vars
  BY <1>1, <1>5, TypeOthers, InvOthers DEF IInv
<1> QED BY <1>2, <1>3, <1>4, <1>5 DEF Next

-----------------------------------------------------------------------------
\* The results.

\* The inductive invariant holds in every reachable state of the agent.
THEOREM Invariant == Spec => []IInv
BY InvInit, InvStep, PTL DEF Spec

\* Type correctness, with the bound on bindingRequestCount.
THEOREM TypeCorrect == Spec => []TypeOK
<1>1. IInv => TypeOK
  BY DEF IInv
<1> QED BY <1>1, Invariant, PTL

\* Only pairs whose check succeeded are selected.
THEOREM SelectionSound == Spec => []SelectedSucceeded
<1>1. IInv => SelectedSucceeded
  BY DEF IInv, ListInv
<1> QED BY <1>1, Invariant, PTL

\* The announced state agrees with the selection.
THEOREM StateTruthful == Spec => []StateMatchesSelection
<1>1. IInv => StateMatchesSelection
  BY DEF IInv, StateInv
<1> QED BY <1>1, Invariant, PTL

\* An announced connection has an open socket under a selected pair.
THEOREM ConnectionUsable == Spec => []ConnectedUsable
<1>1. IInv => ConnectedUsable
  BY DEF IInv, StateInv
<1> QED BY <1>1, Invariant, PTL

\* The checklist joins every open socket with every known remote candidate of its
\* network type.
THEOREM PairingComplete == Spec => []PairsComplete
<1>1. IInv => PairsComplete
  BY DEF IInv, ListInv
<1> QED BY <1>1, Invariant, PTL

\* Nothing of an earlier generation or of a released candidate is in the checklist.
THEOREM ChecklistExact == Spec => []ChecklistCurrent
<1>1. IInv => ChecklistCurrent
  BY DEF IInv, ListInv
<1> QED BY <1>1, Invariant, PTL

\* After a failure no socket of a selected path is left open.
THEOREM FailureReleases == Spec => []FailedReleased
<1>1. IInv => FailedReleased
  BY DEF IInv, StateInv
<1> QED BY <1>1, Invariant, PTL

\* No answer to a request of an earlier generation is accepted.
THEOREM RequestsCurrent == Spec => []PendingFromChecklist
<1>1. IInv => PendingFromChecklist
  BY DEF IInv, ListInv
<1> QED BY <1>1, Invariant, PTL

\* Nothing is selected before the peer's credentials are known.
THEOREM CredentialsFirst == Spec => []NoSelectionWithoutCredentials
<1>1. IInv => NoSelectionWithoutCredentials
  BY DEF IInv, StateInv
<1> QED BY <1>1, Invariant, PTL
\* A write or a keepalive dereferences a nil socket only if the application has
\* called GetSelectedCandidatePairs: nothing else detaches a selected pair.
THEOREM OnlyReadingPanics == Spec => [](panicked => ReadsPairs)
<1> DEFINE Attached == ReadsPairs \/ (copied = 0 /\ ~panicked)
<1>1. Init => Attached
  BY DEF Init
<1>2. Attached /\ [Next]_vars => Attached'
  <2> SUFFICES ASSUME ~ReadsPairs, copied = 0, ~panicked, [Next]_vars
               PROVE  copied' = 0 /\ ~panicked'
    OBVIOUS
  <2> USE DEF pairVars
  <2>1. CASE Inbound
    <3>1. ASSUME NEW l \in Locals, NEW a \in Addrs, NEW m \in Requests, handleRequest(l, a, m)
          PROVE  UNCHANGED <<copied, panicked>>
      BY <3>1 DEF handleRequest
    <3>2. ASSUME NEW l \in Locals, NEW a \in Addrs, NEW key \in PeerCreds, NEW tx \in pending,
                 handleSuccess(l, a, key, tx)
          PROVE  UNCHANGED <<copied, panicked>>
      BY <3>2 DEF handleSuccess
    <3>3. ASSUME NEW l \in Locals, NEW a \in Addrs, handleOther(l, a)
          PROVE  UNCHANGED <<copied, panicked>>
      BY <3>3 DEF handleOther
    <3> QED BY <2>1, <3>1, <3>2, <3>3 DEF Inbound
  <2>2. CASE Application
    <3>1. CASE Write
      <4>1. ~(copied > 0)
        OBVIOUS
      <4>2. panicked' = (copied > 0) /\ copied' = copied
        BY <3>1 DEF Write
      <4> QED BY <4>1, <4>2
    <3>2. CASE \E c \in LocalCreds : Restart(c)
      BY <3>2 DEF Restart, clearSelectedPairs
    <3>3. CASE \/ \E c \in Signalled : AddRemoteCandidate(c)
               \/ \E c \in PeerCreds : SetRemoteCredentials(c) \/ connect(c)
               \/ Close
      BY <3>3 DEF AddRemoteCandidate, SetRemoteCredentials, connect, Close
    <3> QED BY <2>2, <3>1, <3>2, <3>3 DEF Application, GetSelectedCandidatePairs
  <2>3. CASE contact
    <3>1. copied' = copied
      BY <2>3 DEF contact
    <3>2. ASSUME NEW down, ContactCandidates(down) PROVE ~panicked'
      <4>1. CASE UNCHANGED panicked
        BY <4>1
      <4>2. CASE checkKeepalive(down)
        <5>1. ~(copied > 0 /\ KeepaliveInterval # 0)
          OBVIOUS
        <5>2. panicked' = (copied > 0 /\ KeepaliveInterval # 0)
          BY <4>2 DEF checkKeepalive
        <5> QED BY <5>1, <5>2
      <4> QED BY <3>2, <4>1, <4>2 DEF ContactCandidates
    <3> QED BY <2>3, <3>1, <3>2 DEF contact
  <2>4. CASE AgentTask \/ Tick \/ Stopped \/ UNCHANGED vars
    BY <2>4 DEF AgentTask, addCandidate, setGatheringState, startConnectivityChecks, Tick,
       Stopped, vars
  <2> QED BY <2>1, <2>2, <2>3, <2>4 DEF Next
<1>3. Attached => (panicked => ReadsPairs)
  OBVIOUS
<1> QED BY <1>1, <1>2, <1>3, PTL DEF Spec
=============================================================================
