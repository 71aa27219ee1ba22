---------------------------- MODULE IceAgentTimer ----------------------------
(***************************************************************************)
(* IceAgent with the interval of the connectivityChecks loop, and with a   *)
(* history variable: how long the agent has really been in Checking.  The  *)
(* loop keeps a timer of its own (checkingAge), which it only resets when  *)
(* the state at its previous step was not Checking.                        *)
(***************************************************************************)
EXTENDS IceAgent

CONSTANT DefaultKeepaliveInterval

\* defaultKeepaliveInterval is 2 seconds.
ASSUME IntervalAssumption == DefaultKeepaliveInterval \in Nat \ {0}

VARIABLES
    sinceContact,   \* clock units since the loop last ran contact
    inChecking,     \* history: clock units since the agent entered Checking, else 0
    inherited       \* history: the loop has not noticed that it did

timerVars == <<vars, sinceContact, inChecking, inherited>>

\* The longest the loop waits.  It waits less for checkInterval and
\* keepaliveInterval, and contact may run at any time before.
updateInterval(i, x) == IF x # 0 /\ i > x THEN x ELSE i

interval ==
    updateInterval(updateInterval(DefaultKeepaliveInterval, DisconnectedTimeout),
                   FailedTimeout)

TimerInit ==
    /\ Init
    /\ sinceContact = 0 /\ inChecking = 0 /\ inherited = FALSE

EntersChecking == connectionState # "Checking" /\ connectionState' = "Checking"

\* A step that is not one of the clock's enters or leaves Checking, or neither.
Watch ==
    /\ inChecking' = IF connectionState = "Checking" /\ connectionState' = "Checking"
                       THEN inChecking ELSE 0
    /\ inherited' = IF EntersChecking THEN lastConnectionState = "Checking" ELSE inherited

\* Time does not pass while the loop is late.
timedTick ==
    /\ Tick
    /\ started => sinceContact < interval
    /\ sinceContact' = IF started THEN sinceContact + 1 ELSE 0
    /\ inChecking' = IF connectionState = "Checking" THEN inChecking + 1 ELSE 0
    /\ UNCHANGED inherited

timedContact == contact /\ sinceContact' = 0 /\ Watch

TimerNext ==
    \/ timedTick
    \/ timedContact
    \/ /\ Inbound \/ Application \/ AgentTask \/ Stopped
       /\ UNCHANGED sinceContact
       /\ Watch

TimerSpec == TimerInit /\ [][TimerNext]_timerVars

\* The loop runs and time passes, as in IceAgent.
TimerFairSpec == TimerSpec /\ WF_timerVars(timedContact) /\ WF_timerVars(timedTick)

\* connectivityChecks moves Checking to Failed because "We have been in checking
\* longer then Disconnect+Failed timeout".
FailsOnlyAfterTimeout ==
    [][connectionState = "Checking" /\ connectionState' = "Failed"
         => inChecking > TimeToFailure]_timerVars

\* It does, unless the agent left Checking and came back between two steps of the
\* loop, which then goes on with the timer of the first time.
FailsAfterTimeoutOrInherits ==
    [][connectionState = "Checking" /\ connectionState' = "Failed"
         => inChecking > TimeToFailure \/ inherited]_timerVars

\* Checking does not last longer than both timeouts, the wait until the loop
\* notices that it has begun and the wait until it notices that it is over.
CheckingBounded == inChecking =< TimeToFailure + 2 * interval
=============================================================================
