------------------------------ MODULE TaskLoop ------------------------------
(***************************************************************************)
(* The goroutines of one agent and the unbuffered channels between them:   *)
(* run and taskLoop, the functions registered with afterRun, the two       *)
(* goroutines that call the application's handlers, one candidate's        *)
(* recvLoop, the gathering goroutine and Close (agent.go, gather.go,       *)
(* candidate_base.go).  What a task computes is module IceAgent; here a    *)
(* task is what it blocks on and what it registers for afterwards.         *)
(*                                                                         *)
(* A send on an unbuffered channel is a joint step with its receiver.      *)
(***************************************************************************)
EXTENDS Naturals, Sequences, FiniteSets

CONSTANTS
    Callers,            \* goroutines that call the API, and connectivityChecks
    Closers,            \* goroutines that call Close
    Handlers,           \* goroutines for connection state handlers
    StateHandler, PairHandler, CandidateHandler,
                        \* what the application's handlers may do
    MaxCalls            \* bound: API calls and inbound packets in a behaviour

\* The goroutines that exist once per agent: the two of
\* startOnConnectionStateChangeRoutine, gatherCandidates, and recvLoop.
Fixed == {"pairs", "events", "gather", "recv"}

Goroutines == Callers \cup Closers \cup Handlers \cup Fixed

Behaviours == {"returns", "runs", "closes"}

ASSUME HandlersAssumption ==
    /\ \A h \in {StateHandler, PairHandler, CandidateHandler} :
            "returns" \in h /\ h \subseteq Behaviours
    /\ MaxCalls \in Nat
    \* go a.onConnectionStateChange never waits for a goroutine
    /\ IsFiniteSet(Handlers) /\ Cardinality(Handlers) > MaxCalls

ASSUME NamesAssumption ==
    /\ (Callers \cup Closers) \cap Handlers = {}
    /\ (Callers \cup Closers \cup Handlers) \cap Fixed = {}

\* What a task does: nothing another goroutine sees; updateConnectionState, for
\* Failed also deleteAllCandidates; handleInbound; GatherCandidates; and the
\* tasks of the gathering goroutine.
CallKinds == {"query", "update", "fail", "gather"}
Kinds == CallKinds \cup {"inbound", "gathering", "candidate", "complete"}

VARIABLES
    loop,       \* where taskLoop is
    caller,     \* whose task it runs
    status,     \* what each goroutine does
    kind,       \* the task of each goroutine in run
    afterRunFn, \* registered functions
    fns,        \* the ones after() has fetched and not yet run
    done,       \* the channel of this name is closed
    closeCalled,
    cancelled,  \* the context of the gathering goroutine
    closeCh,    \* the candidate's channel of this name is closed
    calls,      \* bounded by MaxCalls
    owed        \* history: gathering was running when Close was called

vars == <<loop, caller, status, kind, afterRunFn, fns, done, closeCalled,
          cancelled, closeCh, calls, owed>>

-----------------------------------------------------------------------------
Init ==
    /\ loop = "select"
    /\ caller = "none"
    /\ status = [g \in Goroutines |-> IF g \in {"gather", "recv"} THEN "none" ELSE "free"]
    /\ kind = [g \in Goroutines |-> "query"]
    /\ afterRunFn = <<>> /\ fns = <<>>
    /\ done = FALSE /\ closeCalled = FALSE
    /\ cancelled = FALSE /\ closeCh = FALSE
    /\ calls = 0
    /\ owed = FALSE

Goto(g, s) == status' = [status EXCEPT ![g] = s]

-----------------------------------------------------------------------------
\* run

\* Where g goes on when its run has returned.  The gathering goroutine gives up
\* when it cannot enter Gathering and ends, closing gatherCandidateDone, after
\* Complete; a handler returns.
returned_Mut(g, ok) == IF ok THEN "task" ELSE "free"
returned(g, ok) ==
    IF g = "gather" /\ (kind[g] = "complete" \/ (kind[g] = "gathering" /\ ~ok))
      THEN "ended" ELSE "free"

\* Only the gathering goroutine's next step depends on its last task.
forget(g) == kind' = [kind EXCEPT ![g] = IF g = "gather" THEN @ ELSE "query"]

\* The call of run: ok(), and then the wait for the task loop.
run(g, k) ==
    /\ kind' = [kind EXCEPT ![g] = IF done /\ g # "gather" THEN @ ELSE k]
    /\ Goto(g, IF ~done THEN "select"
               ELSE IF g = "gather" /\ k # "candidate" THEN "ended" ELSE "free")

\* The context a goroutine passes to run.
ctxDone_Mut(g) == done
ctxDone(g) ==
    \/ g = "recv" /\ closeCh
    \/ g # "recv" /\ done
    \/ g = "gather" /\ kind[g] = "candidate" /\ cancelled

runCanceled(g) ==
    /\ status[g] = "select" /\ ctxDone(g)
    /\ Goto(g, returned(g, FALSE))
    /\ forget(g)
    /\ UNCHANGED <<loop, caller, afterRunFn, fns, done, closeCalled,
                   cancelled, closeCh, calls, owed>>

-----------------------------------------------------------------------------
\* taskLoop

\* The loop takes a task, even when done is closed too: select is not ordered.
\* addCandidate starts recvLoop before it blocks on chanCandidate; a failure
\* closes the candidate before it waits for recvLoop.
takeTask(g) ==
    /\ loop = "select" /\ status[g] = "select"
    /\ loop' = "task" /\ caller' = g
    /\ status' = [status EXCEPT
         ![g] = "task",
         !["recv"] = IF kind[g] = "candidate" /\ @ = "none" THEN "free" ELSE @,
         !["gather"] = IF kind[g] = "gather" /\ @ = "none" THEN "free" ELSE @]
    /\ cancelled' = (cancelled /\ ~(kind[g] = "gather" /\ status["gather"] = "none"))
    /\ closeCh' = (closeCh \/ (kind[g] = "fail" /\ status["recv"] # "none"))
    /\ UNCHANGED <<kind, afterRunFn, fns, done, closeCalled, calls, owed>>

\* What a task may register with afterRun: updateConnectionState and
\* addSelectedPair.
registers(k) ==
    CASE k = "update" -> {<<>>, <<"state">>}
      [] k = "fail" -> {<<"state">>}
      [] k = "inbound" -> {<<>>, <<"pair">>, <<"state", "pair">>}
      [] OTHER -> {<<>>}

sends(k) == k \in {"candidate", "complete"}

recvGone == status["recv"] \in {"none", "ended"}

\* The task returns and its caller goes on.
endTask ==
    /\ loop = "task"
    /\ loop' = "after" /\ caller' = "none"
    /\ \E new \in registers(kind[caller]) : afterRunFn' = afterRunFn \o new
    /\ \/ /\ sends(kind[caller])
          /\ status["events"] = "free"
          /\ status' = [status EXCEPT ![caller] = returned(caller, TRUE),
                                      !["events"] = "handler"]
       \/ /\ ~sends(kind[caller])
          /\ kind[caller] = "fail" => recvGone
          /\ Goto(caller, returned(caller, TRUE))
    /\ forget(caller)
    /\ UNCHANGED <<fns, done, closeCalled, cancelled, closeCh, calls, owed>>

\* after() fetches the registered functions ...
getAfterRunFn ==
    /\ loop \in {"after", "deferred"}
    /\ fns = <<>> /\ afterRunFn # <<>>
    /\ fns' = afterRunFn /\ afterRunFn' = <<>>
    /\ UNCHANGED <<loop, caller, status, kind, done, closeCalled, cancelled,
                   closeCh, calls, owed>>

freeHandler == CHOOSE h \in Handlers : status[h] = "free"

\* ... and runs them one by one.  A state is sent without regard to done, a
\* pair is given up when done is closed, and Close's function cancels gathering
\* and waits for its end.
runAfterFn ==
    /\ loop \in {"after", "deferred"} /\ fns # <<>>
    /\ \/ /\ Head(fns) = "state"
          /\ status["events"] = "free"
          /\ \E h \in Handlers : status[h] = "free"
          /\ Goto(freeHandler, "handler")
          /\ fns' = Tail(fns) /\ UNCHANGED cancelled
       \/ /\ Head(fns) = "pair"
          /\ \/ status["pairs"] = "free" /\ Goto("pairs", "handler")
             \/ done /\ UNCHANGED status
          /\ fns' = Tail(fns) /\ UNCHANGED cancelled
       \/ /\ Head(fns) = "cancel"
          /\ cancelled' = TRUE
          /\ fns' = <<"await">> \o Tail(fns) /\ UNCHANGED status
       \/ /\ Head(fns) = "await"
          /\ status["gather"] \in {"none", "ended"}
          /\ fns' = Tail(fns) /\ UNCHANGED <<cancelled, status>>
    /\ UNCHANGED <<loop, caller, kind, afterRunFn, done, closeCalled, closeCh,
                   calls, owed>>

afterReturns ==
    /\ loop = "after" /\ fns = <<>> /\ afterRunFn = <<>>
    /\ loop' = "select"
    /\ UNCHANGED <<caller, status, kind, afterRunFn, fns, done, closeCalled,
                   cancelled, closeCh, calls, owed>>

\* The deferred function: deleteAllCandidates closes the candidate and waits
\* for its recvLoop, then Closed is registered and after() runs once more.
seesDone_Mut ==
    /\ loop = "select" /\ done
    /\ loop' = "deleting"
    /\ UNCHANGED <<caller, status, kind, afterRunFn, fns, done, closeCalled,
                   cancelled, closeCh, calls, owed>>
seesDone ==
    /\ loop = "select" /\ done
    /\ loop' = "deleting"
    /\ closeCh' = (status["recv"] # "none")
    /\ UNCHANGED <<caller, status, kind, afterRunFn, fns, done, closeCalled,
                   cancelled, calls, owed>>

updatesToClosed ==
    /\ loop = "deleting" /\ recvGone
    /\ loop' = "deferred"
    /\ afterRunFn' = Append(afterRunFn, "state")
    /\ UNCHANGED <<caller, status, kind, fns, done, closeCalled, cancelled,
                   closeCh, calls, owed>>

\* The channels to the handler goroutines and taskLoopDone are closed.
finishes_Mut ==
    /\ loop = "deleting" /\ recvGone
    /\ loop' = "finished"
    /\ UNCHANGED <<caller, status, kind, afterRunFn, fns, done, closeCalled,
                   cancelled, closeCh, calls, owed>>
finishes ==
    /\ loop = "deferred" /\ fns = <<>> /\ afterRunFn = <<>>
    /\ loop' = "finished"
    /\ UNCHANGED <<caller, status, kind, afterRunFn, fns, done, closeCalled,
                   cancelled, closeCh, calls, owed>>

taskLoop ==
    \/ \E g \in Goroutines : takeTask(g)
    \/ endTask \/ getAfterRunFn \/ runAfterFn \/ afterReturns
    \/ seesDone \/ updatesToClosed \/ finishes

-----------------------------------------------------------------------------
\* Close.  One goroutine calls it.

closeBegins(g) ==
    /\ ~done /\ ~closeCalled
    /\ closeCalled' = TRUE
    /\ afterRunFn' = Append(afterRunFn, "cancel")
    /\ owed' = (status["gather"] \notin {"none", "ended"})
    /\ Goto(g, "closing")
    /\ UNCHANGED <<loop, caller, kind, fns, done, cancelled, closeCh, calls>>

closesDone(g) ==
    /\ status[g] = "closing"
    /\ done' = TRUE
    /\ Goto(g, "waiting")
    /\ UNCHANGED <<loop, caller, kind, afterRunFn, fns, closeCalled, cancelled,
                   closeCh, calls, owed>>

closeReturns(g) ==
    /\ status[g] = "waiting" /\ loop = "finished"
    /\ Goto(g, "free")
    /\ UNCHANGED <<loop, caller, kind, afterRunFn, fns, done, closeCalled,
                   cancelled, closeCh, calls, owed>>

-----------------------------------------------------------------------------
\* The other goroutines.

API(g) ==
    /\ status[g] = "free"
    /\ \/ /\ g \in Callers /\ calls < MaxCalls /\ ~done
          /\ calls' = calls + 1
          /\ \E k \in CallKinds : run(g, k)
          /\ UNCHANGED <<loop, caller, afterRunFn, fns, done, closeCalled,
                         cancelled, closeCh, owed>>
       \/ g \in Closers /\ closeBegins(g)

\* recvLoop reads packets until its socket is closed.
recvLoop ==
    /\ status["recv"] = "free"
    /\ \/ ~closeCh /\ calls < MaxCalls /\ calls' = calls + 1 /\ run("recv", "inbound")
       \/ closeCh /\ Goto("recv", "ended") /\ UNCHANGED <<calls, kind>>
    /\ UNCHANGED <<loop, caller, afterRunFn, fns, done, closeCalled, cancelled,
                   closeCh, owed>>

\* gatherCandidates: setGatheringState, one candidate, setGatheringState.
gatherCandidates ==
    /\ status["gather"] = "free"
    /\ run("gather", CASE kind["gather"] = "query" -> "gathering"
                       [] kind["gather"] = "gathering" -> "candidate"
                       [] kind["gather"] = "candidate" -> "complete")
    /\ UNCHANGED <<loop, caller, afterRunFn, fns, done, closeCalled, cancelled,
                   closeCh, calls, owed>>

behaviour(g) == IF g = "pairs" THEN PairHandler
                ELSE IF g = "events" THEN CandidateHandler ELSE StateHandler

\* The application's handler runs a task, closes the agent, or just returns.
handler(g) ==
    /\ status[g] = "handler"
    /\ \/ "closes" \in behaviour(g) /\ closeBegins(g)
       \/ /\ "runs" \in behaviour(g)
          /\ run(g, "query")
          /\ UNCHANGED <<loop, caller, afterRunFn, fns, done, closeCalled,
                         cancelled, closeCh, calls, owed>>
       \/ /\ Goto(g, "free")
          /\ UNCHANGED <<loop, caller, kind, afterRunFn, fns, done, closeCalled,
                         cancelled, closeCh, calls, owed>>

\* A handler goroutine ends when its channel is closed.
channelClosed(g) ==
    /\ g \in {"pairs", "events"} /\ status[g] = "free" /\ loop = "finished"
    /\ Goto(g, "ended")
    /\ UNCHANGED <<loop, caller, kind, afterRunFn, fns, done, closeCalled,
                   cancelled, closeCh, calls, owed>>

\* Steps a goroutine takes by itself once it is on its way.
proceeds(g) ==
    runCanceled(g) \/ closesDone(g) \/ closeReturns(g) \/ handler(g) \/ channelClosed(g)

closesCandidate == closeCh /\ recvLoop

\* Nobody waits for anybody, and the application makes no more calls.
AtRest ==
    /\ loop \in {"select", "finished"}
    /\ \A g \in Goroutines : status[g] \in {"none", "free", "ended"}

Idle == AtRest /\ UNCHANGED vars

Next ==
    \/ taskLoop
    \/ \E g \in Goroutines : API(g) \/ proceeds(g)
    \/ recvLoop
    \/ gatherCandidates
    \/ Idle

Spec == Init /\ [][Next]_vars

\* Every goroutine that can go on does: the Go scheduler.  No packet needs to
\* arrive, no API call to be made.
FairSpec ==
    /\ Spec
    /\ WF_vars(taskLoop)
    /\ WF_vars(gatherCandidates)
    /\ WF_vars(closesCandidate)
    /\ \A g \in Goroutines : WF_vars(proceeds(g))

-----------------------------------------------------------------------------
\* Properties.

Statuses == {"none", "free", "handler", "select", "task", "closing", "waiting", "ended"}

Functions == {"state", "pair", "cancel", "await"}

\* Every variable has its type, and a task that is being run has a caller that
\* waits for it.
TypeOK ==
    /\ loop \in {"select", "task", "after", "deleting", "deferred", "finished"}
    /\ caller \in Goroutines \cup {"none"} /\ (loop = "task" => caller \in Goroutines)
    /\ status \in [Goroutines -> Statuses]
    /\ kind \in [Goroutines -> Kinds]
    /\ afterRunFn \in Seq(Functions) /\ fns \in Seq(Functions)
    /\ {done, closeCalled, cancelled, closeCh, owed} \subseteq BOOLEAN
    /\ calls \in 0 .. MaxCalls
    /\ \A g \in Goroutines : status[g] = "task" <=> loop = "task" /\ caller = g

\* When Close returns, the goroutines that use the agent's sockets are gone: the
\* recvLoop of each candidate, however late it was added, and a gathering that
\* was running when Close was called (Close, taskLoop's deferred function,
\* candidateBase.close).
CloseJoins ==
    loop = "finished" => recvGone /\ (owed => status["gather"] = "ended")

\* What can go on without waiting: a goroutine, ...
goesOn(g) ==
    \/ status[g] = "select" /\ (loop = "select" \/ ctxDone(g))
    \/ status[g] \in {"handler", "closing"}
    \/ status[g] = "waiting" /\ loop = "finished"
    \/ g = "gather" /\ status[g] = "free"
    \/ g = "recv" /\ status[g] = "free" /\ closeCh

\* ... and the task loop.  Starting a handler goroutine waits for nothing.
loopGoesOn ==
    \/ loop = "select" /\ done
    \/ /\ loop = "task"
       /\ sends(kind[caller]) => status["events"] = "free"
       /\ kind[caller] = "fail" => recvGone
    \/ /\ loop \in {"after", "deferred"}
       /\ \/ fns = <<>>
          \/ Head(fns) = "state" /\ status["events"] = "free"
          \/ Head(fns) = "pair" /\ (status["pairs"] = "free" \/ done)
          \/ Head(fns) = "cancel"
          \/ Head(fns) = "await" /\ status["gather"] \in {"none", "ended"}
    \/ loop = "deleting" /\ recvGone

\* The goroutines never wait for each other in a circle: as long as somebody is in
\* run, in a handler or in Close, somebody can go on, however many callers there
\* are and whenever Close is called (run, taskLoop,
\* startOnConnectionStateChangeRoutine, candidateBase.close).
NoCircularWait == AtRest \/ loopGoesOn \/ \E g \in Goroutines : goesOn(g)

InRun(g) == status[g] \in {"select", "task"}

\* Every call of run returns: the caller, the task loop, the handler goroutines,
\* recvLoop and gathering never wait for each other in a circle, whenever Close
\* is called (run, taskLoop, startOnConnectionStateChangeRoutine).
RunReturns == \A g \in Goroutines : InRun(g) ~> ~InRun(g)

\* A handler of OnSelectedCandidatePairChange can run a task of the agent, as
\* TestRunTaskInSelectedCandidatePairChangeCallback does: the call returns.
PairHandlerCanRun == InRun("pairs") ~> ~InRun("pairs")

\* Once Close has closed done, Close returns, every handler that was called has
\* returned and no goroutine of the agent is left.
ShutsDown ==
    done ~> /\ AtRest /\ loop = "finished"
            /\ \A g \in Fixed : status[g] \in {"none", "ended"}
=============================================================================
