------------------------ MODULE IceAgentTimerProofs -------------------------
(***************************************************************************)
(* How long the agent stays in Checking, for every value of the timeouts.  *)
(***************************************************************************)
EXTENDS IceAgentInvariant, IceAgentTimer

\* What the timer of the loop and the real time in Checking have to do with each
\* other: before the loop has noticed Checking, and after.
TimerInv ==
    /\ sinceContact \in Nat /\ inChecking \in Nat
    /\ sinceContact =< interval
    /\ connectionState # "Checking" => inChecking = 0
    /\ connectionState = "Checking" /\ lastConnectionState # "Checking" =>
         inChecking =< sinceContact /\ ~inherited
    /\ connectionState = "Checking" /\ lastConnectionState = "Checking" =>
         /\ inChecking =< TimeToFailure + interval + sinceContact
         /\ checkingAge =< TimeToFailure => inChecking =< checkingAge + interval
         /\ inherited \/ checkingAge =< inChecking

\* The sums of timeouts are numbers, and ages saturate above them.
LEMMA TimerNumbers ==
    /\ interval \in Nat /\ TimeToFailure \in Nat /\ MaxAge \in Nat
    /\ MaxAge > TimeToFailure
    /\ \A age \in Ages : age \in Nat /\ (age > TimeToFailure \/ older(age) = age + 1)
    /\ \A age \in Ages : older(age) \in age .. age + 1
BY NumbersAssumption, IntervalAssumption DEF interval, updateInterval, TimeToFailure, MaxAge, Ages, older

\* Tasks other than contact leave the loop's variables alone and fail nothing.
LEMMA TasksKeepTimer ==
    ASSUME Inbound \/ Application \/ AgentTask \/ Stopped
    PROVE  /\ UNCHANGED <<lastConnectionState, checkingAge>>
           /\ connectionState' = "Failed" => connectionState = "Failed"
<1> USE DEF stateVars, credVars, candVars, pairVars, loopVars, vars
<1>1. CASE Inbound
  <2>1. ASSUME NEW l \in Locals, NEW a \in Addrs, NEW m \in Requests, handleRequest(l, a, m)
        PROVE  /\ UNCHANGED <<lastConnectionState, checkingAge>>
               /\ connectionState' \in {connectionState, "Connected"}
    BY <2>1 DEF handleRequest, controllingHandleBindingRequest,
       controlledHandleBindingRequest, addSelectedPair
  <2>2. ASSUME NEW l \in Locals, NEW a \in Addrs, NEW key \in PeerCreds, NEW tx \in pending,
               handleSuccess(l, a, key, tx)
        PROVE  /\ UNCHANGED <<lastConnectionState, checkingAge>>
               /\ connectionState' \in {connectionState, "Connected"}
    BY <2>2 DEF handleSuccess, HandleSuccessResponse, addSelectedPair
  <2>3. ASSUME NEW l \in Locals, NEW a \in Addrs, handleOther(l, a)
        PROVE  /\ UNCHANGED <<lastConnectionState, checkingAge>>
               /\ connectionState' \in {connectionState, "Connected"}
    BY <2>3 DEF handleOther
  <2> QED BY <1>1, <2>1, <2>2, <2>3 DEF Inbound
<1>2. CASE Application
  BY <1>2 DEF Application, AddRemoteCandidate, SetRemoteCredentials, connect, Restart,
     GetSelectedCandidatePairs, Write, Close
<1>3. CASE AgentTask \/ Stopped
  BY <1>3 DEF AgentTask, addCandidate, setGatheringState, startConnectivityChecks, Stopped
<1> QED BY <1>1, <1>2, <1>3

\* contact ends Checking exactly when its timer has expired.
LEMMA ContactTimer ==
    ASSUME contact, StateMatchesSelection
    PROVE  /\ lastConnectionState' = connectionState' /\ checkingAge' = newCheckingAge
           /\ connectionState' = "Checking" => connectionState = "Checking" /\ ~checkingExpired
           /\ connectionState = "Checking" /\ connectionState' = "Failed" => checkingExpired
BY DEF contact, ContactCandidates, validateSelectedPairs, validatedState, checkingExpired,
   StateMatchesSelection

\* A step of the agent with its clock is a step of the agent.
LEMMA TimerIsAgent == TimerSpec => Spec
<1>1. TimerInit => Init
  BY DEF TimerInit
<1>2. [TimerNext]_timerVars => [Next]_vars
  BY DEF TimerNext, timedTick, timedContact, Next, timerVars
<1> QED BY <1>1, <1>2, PTL DEF TimerSpec, Spec

\* Time passes in Checking only with the loop's timer, and never for longer than
\* the interval without a contact.
LEMMA TimerTick ==
    ASSUME TypeOK, StartedOnce, TimerInv,
           timedTick
    PROVE  TimerInv'
<1>1. /\ UNCHANGED <<connectionState, lastConnectionState>>
      /\ checkingAge' = older(checkingAge) /\ checkingAge \in Ages
  BY DEF timedTick, Tick, stateVars, TypeOK
<1>2. connectionState = "Checking" => started
  BY DEF StartedOnce
<1>3. sinceContact' \in Nat /\ inChecking' \in Nat /\ sinceContact' =< interval
  BY TimerNumbers DEF timedTick, TimerInv
<1>4. CASE connectionState # "Checking"
  BY <1>1, <1>3, <1>4 DEF timedTick, TimerInv
<1>5. CASE connectionState = "Checking"
  <2>1. sinceContact' = sinceContact + 1 /\ inChecking' = inChecking + 1
    BY <1>2, <1>5 DEF timedTick
  <2>2. checkingAge \in Nat /\ older(checkingAge) \in Nat
    BY <1>1, TimerNumbers
  <2>3. checkingAge > TimeToFailure \/ older(checkingAge) = checkingAge + 1
    BY <1>1, TimerNumbers
  <2>4. older(checkingAge) =< checkingAge + 1 /\ older(checkingAge) >= checkingAge
    BY <1>1, TimerNumbers
  <2> QED BY <1>1, <1>3, <1>5, <2>1, <2>2, <2>3, <2>4, TimerNumbers DEF timedTick, TimerInv
<1> QED BY <1>4, <1>5

\* contact starts the timer if it notices Checking, and leaves Checking if the
\* timer has expired.
LEMMA TimerContact ==
    ASSUME TypeOK, StateMatchesSelection, TimerInv,
           timedContact
    PROVE  TimerInv'
<1>1. checkingAge \in Nat
  BY TimerNumbers DEF TypeOK
<1> QED BY <1>1, ContactTimer, TimerNumbers
        DEF timedContact, TimerInv, Watch, EntersChecking, newCheckingAge, checkingExpired

\* The other tasks enter or leave Checking.
LEMMA TimerTasks ==
    ASSUME TypeOK, TimerInv,
           Inbound \/ Application \/ AgentTask \/ Stopped, UNCHANGED sinceContact, Watch
    PROVE  TimerInv'
<1>1. checkingAge \in Nat
  BY TimerNumbers DEF TypeOK
<1>2. CASE connectionState' # "Checking"
  BY <1>2, TasksKeepTimer DEF TimerInv, Watch
<1>3. CASE EntersChecking
  <2>1. inChecking' = 0
    BY <1>3 DEF Watch, EntersChecking
  <2>2. lastConnectionState # "Checking" => ~inherited'
    BY <1>3, Zenon DEF Watch
  <2>3. lastConnectionState = "Checking" => inherited'
    BY <1>3, Zenon DEF Watch
  <2> QED BY <1>1, <1>3, <2>1, <2>2, <2>3, TasksKeepTimer, TimerNumbers
          DEF TimerInv, EntersChecking
<1>4. CASE connectionState = "Checking" /\ connectionState' = "Checking"
  BY <1>4, TasksKeepTimer DEF TimerInv, Watch, EntersChecking
<1> QED BY <1>2, <1>3, <1>4 DEF EntersChecking

\* The timer's invariant holds in every reachable state.
THEOREM TimerInvariance == TimerSpec => []TimerInv
<1>1. TimerInit => TimerInv
  BY TimerNumbers DEF TimerInit, Init, TimerInv
<1>2. IInv /\ TimerInv /\ [TimerNext]_timerVars => TimerInv'
  <2> SUFFICES ASSUME IInv, TimerInv, [TimerNext]_timerVars PROVE TimerInv'
    OBVIOUS
  <2>1. TypeOK /\ StartedOnce /\ StateMatchesSelection
    BY DEF IInv, StateInv
  <2>2. CASE UNCHANGED timerVars
    BY <2>2 DEF timerVars, vars, stateVars, loopVars, TimerInv
  <2>3. CASE TimerNext
    BY <2>1, <2>3, TimerTick, TimerContact, TimerTasks DEF TimerNext
  <2> QED BY <2>2, <2>3
<1> QED BY <1>1, <1>2, TimerIsAgent, Invariant, PTL DEF TimerSpec

\* connectivityChecks ends Checking in time, whatever the peer and the application
\* do: after both timeouts, a wait of the loop until it has noticed Checking and
\* one until it notices that they are over.
THEOREM CheckingEndsInTime == TimerSpec => []CheckingBounded
<1>1. TimerInv => CheckingBounded
  BY TimerNumbers DEF TimerInv, CheckingBounded
<1> QED BY <1>1, TimerInvariance, PTL

\* It does not end Checking early unless it took over the timer of an earlier
\* time in Checking.
THEOREM FailsInTime == TimerSpec => FailsAfterTimeoutOrInherits
<1>1. IInv /\ TimerInv /\ [TimerNext]_timerVars =>
        [connectionState = "Checking" /\ connectionState' = "Failed"
           => inChecking > TimeToFailure \/ inherited]_timerVars
  <2> SUFFICES ASSUME IInv, TimerInv, TimerNext, connectionState = "Checking",
                      connectionState' = "Failed", ~inherited
               PROVE  inChecking > TimeToFailure
    OBVIOUS
  <2>1. CASE contact
    <3>1. checkingExpired /\ checkingAge \in Nat
      BY <2>1, ContactTimer, TimerNumbers DEF IInv, StateInv, TypeOK
    <3> QED BY <3>1, TimerNumbers DEF TimerInv, checkingExpired, newCheckingAge
  <2>2. CASE Tick
    BY <2>2 DEF Tick, stateVars
  <2> QED BY <2>1, <2>2, TasksKeepTimer DEF TimerNext, timedTick, timedContact
<1> QED BY <1>1, TimerInvariance, TimerIsAgent, Invariant, PTL
        DEF TimerSpec, FailsAfterTimeoutOrInherits
=============================================================================
