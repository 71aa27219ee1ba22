------------------------- MODULE IceAgentRefinement -------------------------
(***************************************************************************)
(* The agent implements the abstract connection lifecycle, and its pairs   *)
(* only move forward.                                                      *)
(***************************************************************************)
EXTENDS IceAgentInvariant

-----------------------------------------------------------------------------
\* The agent implements the lifecycle.

\* Selecting a pair is a Select step or changes nothing that is announced.
LEMMA SelectRefines ==
    ASSUME TypeOK, StateInv, NEW p \in Pairs, addSelectedPair(p), started,
           connectionState # "Closed"
    PROVE  [Lifecycle!Next]_(Lifecycle!lifecycle)
<1>1. CASE p \in Selected
  BY <1>1 DEF addSelectedPair, Lifecycle!lifecycle
<1>2. CASE p \notin Selected
  <2>1. selectedPairs' = Append(selectedPairs, p) /\ connectionState' = "Connected"
        /\ onConnected' = TRUE
    BY <1>2 DEF addSelectedPair
  <2>2. Len(selectedPairs') = Len(selectedPairs) + 1
    BY <2>1 DEF TypeOK
  <2>3. connectionState \in {"Checking", "Connected", "Disconnected", "Failed"}
    BY DEF TypeOK, ConnectionStates, StateInv, StartedOnce
  <2> QED BY <2>1, <2>2, <2>3 DEF Lifecycle!Next, Lifecycle!Select
<1> QED BY <1>1, <1>2

\* Every step of the agent is a step of the lifecycle or invisible to it.
LEMMA RefinementStep == IInv /\ [Next]_vars => [Lifecycle!Next]_(Lifecycle!lifecycle)
<1> SUFFICES ASSUME IInv, [Next]_vars PROVE [Lifecycle!Next]_(Lifecycle!lifecycle)
  OBVIOUS
<1> USE DEF stateVars, credVars, candVars, pairVars, loopVars
<1>0. TypeOK /\ StateInv /\ ChecklistCurrent
  BY DEF IInv, ListInv
<1>1. CASE UNCHANGED <<connectionState, selectedPairs, onConnected>>
  BY <1>1 DEF Lifecycle!lifecycle
<1>2. CASE Inbound
  <2>1. PICK l \in Locals, a \in Addrs :
          \/ \E m \in Requests : handleRequest(l, a, m)
          \/ \E key \in PeerCreds : \E tx \in pending : handleSuccess(l, a, key, tx)
          \/ handleOther(l, a)
    BY <1>2 DEF Inbound
  <2>2. ASSUME NEW m \in Requests, handleRequest(l, a, m)
        PROVE  [Lifecycle!Next]_(Lifecycle!lifecycle)
    <3> DEFINE p == [local |-> l, remote |-> requester(a)]
    <3>1. UNCHANGED <<connectionState, selectedPairs, onConnected>> \/ addSelectedPair(p)
      BY <1>0, <2>2, RequestSelection
    <3>2. p \in Pairs
      BY <1>0, <2>2, RequesterFacts
    <3>3. started /\ connectionState # "Closed"
      BY <2>2 DEF handleRequest, Receives, Running
    <3> HIDE DEF p
    <3> QED BY <1>0, <1>1, <3>1, <3>2, <3>3, SelectRefines
  <2>3. ASSUME NEW key \in PeerCreds, NEW tx \in pending, handleSuccess(l, a, key, tx)
        PROVE  [Lifecycle!Next]_(Lifecycle!lifecycle)
    <3> DEFINE p == [local |-> l, remote |-> findRemoteCandidate(a)]
    <3>1. /\ p \in Pairs
          /\ UNCHANGED <<connectionState, selectedPairs, onConnected>> \/ addSelectedPair(p)
      BY <1>0, <2>3, SuccessFacts
    <3>2. started /\ connectionState # "Closed"
      BY <2>3 DEF handleSuccess, Receives, Running
    <3> HIDE DEF p
    <3> QED BY <1>0, <1>1, <3>1, <3>2, SelectRefines
  <2>4. CASE handleOther(l, a)
    BY <1>1, <2>4 DEF handleOther
  <2> QED BY <2>1, <2>2, <2>3, <2>4
<1>3. CASE Application
  <2>1. ASSUME NEW c \in LocalCreds, Restart(c) PROVE [Lifecycle!Next]_(Lifecycle!lifecycle)
    <3>1. /\ selectedPairs' = <<>> /\ UNCHANGED onConnected /\ connectionState # "Closed"
          /\ connectionState' = IF connectionState = "New" THEN "New" ELSE "Checking"
      BY <2>1 DEF Restart, clearSelectedPairs, Running
    <3>2. CASE connectionState = "New"
      <4>1. selectedPairs = <<>>
        BY <1>0, <3>2 DEF StateInv, StateMatchesSelection
      <4> QED BY <1>1, <3>1, <3>2, <4>1
    <3>3. CASE connectionState # "New"
      <4>1. Len(selectedPairs') = 0
        BY <3>1
      <4> QED BY <3>1, <3>3, <4>1 DEF Lifecycle!Next, Lifecycle!Restart
    <3> QED BY <3>2, <3>3
  <2>2. CASE Close
    BY <2>2 DEF Close, Running, Lifecycle!Next, Lifecycle!Close
  <2>3. CASE \/ \E c \in Signalled : AddRemoteCandidate(c)
             \/ \E c \in PeerCreds : SetRemoteCredentials(c) \/ connect(c)
             \/ GetSelectedCandidatePairs
             \/ Write
    BY <1>1, <2>3 DEF AddRemoteCandidate, SetRemoteCredentials, connect,
                      GetSelectedCandidatePairs, Write
  <2> QED BY <1>3, <2>1, <2>2, <2>3 DEF Application
<1>4. CASE contact
  <2>1. UNCHANGED <<onConnected, selectedPairs>>
    BY <1>0, <1>4, ContactFacts
  <2>2. CASE ContactGivesUp
    BY <1>1, <2>1, <2>2 DEF ContactGivesUp, Lifecycle!Next, Lifecycle!GiveUp
  <2>3. CASE ContactValidates
    <3>1. connectionState \in {"Connected", "Disconnected"}
      BY <1>0, <1>4, <2>3 DEF ContactValidates, contact, Running, TypeOK, ConnectionStates,
                              StateInv, StartedOnce, StateMatchesSelection
    <3>2. Len(selectedPairs) > 0
      BY <1>0, <2>3 DEF ContactValidates, TypeOK
    <3> QED BY <2>1, <2>3, <3>1, <3>2 DEF ContactValidates, Lifecycle!Next, Lifecycle!Judge
  <2>4. CASE ContactChecks
    BY <1>1, <2>1, <2>4 DEF ContactChecks
  <2> QED BY <1>0, <1>4, <2>2, <2>3, <2>4, ContactFacts
<1>5. CASE AgentTask
  <2>1. CASE startConnectivityChecks
    <3>1. connectionState = "New"
      BY <1>0, <2>1 DEF startConnectivityChecks, Running, StateInv, StartedOnce
    <3> QED BY <2>1, <3>1 DEF startConnectivityChecks, Lifecycle!Next, Lifecycle!Start
  <2>2. CASE (\E l \in Locals : addCandidate(l)) \/ (\E s \in GatheringStates : setGatheringState(s))
    BY <1>1, <2>2 DEF addCandidate, setGatheringState
  <2> QED BY <1>5, <2>1, <2>2 DEF AgentTask
<1>6. CASE Tick \/ Stopped \/ UNCHANGED vars
  BY <1>1, <1>6 DEF Tick, Stopped, vars
<1> QED BY <1>2, <1>3, <1>4, <1>5, <1>6 DEF Next

\* The agent implements ConnectionLifecycle.
THEOREM Refinement == Spec => ImplementsLifecycle
<1>1. Init => Lifecycle!Init
  BY DEF Init, Lifecycle!Init
<1> QED BY <1>1, RefinementStep, Invariant, PTL DEF Spec, ImplementsLifecycle, Lifecycle!Spec

-----------------------------------------------------------------------------
\* Pairs only move forward.

\* The order of the pair states.
LEMMA RankFacts ==
    /\ Rank("None") = 0 /\ Rank("Waiting") = 1 /\ Rank("InProgress") = 2
    /\ Rank("Failed") = 3 /\ Rank("Succeeded") = 4
BY DEF Rank

\* A pair that keeps its entry, enters the list, or changes from one state to a
\* later one moves forward.
LEMMA ForwardFacts ==
    ASSUME checklist \in [Pairs -> Entry], checklist' \in [Pairs -> Entry], NEW p \in Pairs,
           \/ checklist'[p].state = checklist[p].state
           \/ checklist[p].state = "None"
           \/ checklist'[p].state = "Succeeded"
           \/ /\ checklist[p].state \in {"Waiting", "InProgress"}
              /\ checklist'[p].state \in {"InProgress", "Failed"}
    PROVE  Rank(checklist'[p].state) >= Rank(checklist[p].state)
<1>1. /\ checklist[p].state \in {"None", "Waiting", "InProgress", "Failed", "Succeeded"}
      /\ checklist'[p].state \in {"None", "Waiting", "InProgress", "Failed", "Succeeded"}
  BY DEF Entry
<1> QED BY <1>1, RankFacts

\* Every step but a Restart moves the pairs forward.
LEMMA ForwardStep ==
    IInv /\ [Next]_vars => (\E c \in LocalCreds : Restart(c)) \/ Forward
<1> SUFFICES ASSUME IInv, [Next]_vars, ~\E c \in LocalCreds : Restart(c) PROVE Forward
  OBVIOUS
<1> USE DEF stateVars, credVars, candVars, pairVars, loopVars
<1>0. TypeOK /\ ChecklistCurrent /\ TypeOK'
  BY InvStep DEF IInv, ListInv
<1>1. /\ checklist \in [Pairs -> Entry] /\ checklist' \in [Pairs -> Entry]
      /\ \A p \in Pairs : checklist[p].requests \in Nat
  BY <1>0, EntryUpdates, Zenon DEF TypeOK
<1>2. CASE UNCHANGED checklist
  BY <1>1, <1>2, ForwardFacts DEF Forward
<1>3. ASSUME NEW S, \A p \in S : ~Known(p), checklist' = addPairs(S) PROVE Forward
  <2>1. \A p \in Pairs : ~Known(p) \/ checklist'[p] = checklist[p]
    BY <1>1, <1>3, AddPairsFacts
  <2> QED BY <1>1, <2>1, ForwardFacts DEF Forward, Known
<1>4. CASE Inbound
  <2>1. PICK l \in Locals, a \in Addrs :
          \/ \E m \in Requests : handleRequest(l, a, m)
          \/ \E key \in PeerCreds : \E tx \in pending : handleSuccess(l, a, key, tx)
          \/ handleOther(l, a)
    BY <1>4 DEF Inbound
  <2>2. ASSUME NEW m \in Requests, handleRequest(l, a, m) PROVE Forward
    <3>1. \A q \in Pairs : Known(q) => /\ checklist'[q].state = checklist[q].state
                                       /\ checklist'[q].requests = checklist[q].requests
      BY <1>0, <2>2, RequestChecklist, Zenon
    <3> QED BY <1>1, <3>1, ForwardFacts DEF Forward, Known
  <2>3. ASSUME NEW key \in PeerCreds, NEW tx \in pending, handleSuccess(l, a, key, tx)
        PROVE  Forward
    <3>1. /\ \A q \in Pairs : \/ checklist'[q].state = checklist[q].state
                              \/ checklist'[q].state = "Succeeded"
          /\ \A q \in Pairs : checklist'[q].requests = checklist[q].requests
      BY <1>0, <2>3, SuccessFacts, Zenon
    <3> QED BY <1>1, <3>1, ForwardFacts DEF Forward
  <2>4. CASE handleOther(l, a)
    BY <1>2, <2>4 DEF handleOther
  <2> QED BY <2>1, <2>2, <2>3, <2>4
<1>5. CASE Application
  <2>1. ASSUME NEW c \in Signalled, AddRemoteCandidate(c) PROVE Forward
    <3>1. \A p \in pairsOfRemote(c) : ~Known(p)
      BY <1>0, <2>1 DEF AddRemoteCandidate, isDuplicate, pairsOfRemote, ChecklistCurrent
    <3> QED BY <1>3, <2>1, <3>1 DEF AddRemoteCandidate
  <2>2. CASE \/ \E c \in PeerCreds : SetRemoteCredentials(c) \/ connect(c)
             \/ GetSelectedCandidatePairs
             \/ Write
             \/ Close
    BY <1>2, <2>2 DEF SetRemoteCredentials, connect, GetSelectedCandidatePairs, Write, Close
  <2> QED BY <1>5, <2>1, <2>2 DEF Application
<1>6. CASE contact
  <2>1. UNCHANGED checklist \/ ContactChecks
    BY <1>0, <1>6, ContactFacts DEF ContactGivesUp, ContactValidates
  <2>2. CASE ContactChecks
    BY <1>1, <2>2, ForwardFacts DEF ContactChecks, Forward
  <2> QED BY <1>2, <2>1, <2>2
<1>7. CASE AgentTask
  <2>1. ASSUME NEW l \in Locals, addCandidate(l) PROVE Forward
    <3>1. \A p \in pairsOfLocal(l) : ~Known(p)
      BY <1>0, <2>1 DEF addCandidate, pairsOfLocal, ChecklistCurrent
    <3> QED BY <1>3, <2>1, <3>1 DEF addCandidate
  <2>2. CASE startConnectivityChecks \/ \E s \in GatheringStates : setGatheringState(s)
    BY <1>2, <2>2 DEF startConnectivityChecks, setGatheringState
  <2> QED BY <1>7, <2>1, <2>2 DEF AgentTask
<1>8. CASE Tick \/ Stopped \/ UNCHANGED vars
  BY <1>2, <1>8 DEF Tick, Stopped, vars
<1> QED BY <1>4, <1>5, <1>6, <1>7, <1>8 DEF Next

\* Within a generation no pair moves back or is entered twice.
THEOREM PairsMoveForward == Spec => PairProgress
<1>1. IInv /\ [Next]_vars => [(\E c \in LocalCreds : Restart(c)) \/ Forward]_vars
  BY ForwardStep
<1> QED BY <1>1, Invariant, PTL DEF Spec, PairProgress
=============================================================================
