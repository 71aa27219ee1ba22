--------------------------- MODULE TaskLoopProofs ---------------------------
(***************************************************************************)
(* What Close joins, and that nobody waits in a circle, for any number of  *)
(* goroutines, handlers and calls.                                         *)
(***************************************************************************)
EXTENDS TaskLoop, TLAPS

-----------------------------------------------------------------------------
\* The inductive invariant.

\* The goroutines that exist once per agent call no handlers and not Close, and
\* the gathering goroutine ends with its last task.
FixedOK ==
    /\ \A g \in {"gather", "recv"} : status[g] \in {"none", "free", "select", "task", "ended"}
    /\ kind["gather"] \in {"query", "gathering", "candidate", "complete"}
    /\ kind["gather"] = "complete" => status["gather"] \in {"select", "task", "ended"}

\* The loop leaves when done is closed; from then on it takes no task, so that no
\* recvLoop can start.
LeavingOK ==
    /\ loop \in {"deleting", "deferred", "finished"} => done
    /\ loop \in {"deferred", "finished"} => recvGone
    /\ loop = "finished" => afterRunFn = <<>> /\ fns = <<>>

\* Close's function has been registered and has not waited for gathering yet.
AwaitsGathering ==
    \/ \E i \in 1..Len(afterRunFn) : afterRunFn[i] = "cancel"
    \/ \E i \in 1..Len(fns) : fns[i] \in {"cancel", "await"}

OwedOK ==
    owed => /\ status["gather"] # "none"
            /\ status["gather"] = "ended" \/ AwaitsGathering

IInv == TypeOK /\ FixedOK /\ LeavingOK /\ OwedOK

-----------------------------------------------------------------------------
\* Taking the first function leaves the others registered.
LEMMA Fetching ==
    ASSUME NEW s \in Seq(Functions), s # <<>>, NEW i \in 1..Len(s), s[i] # Head(s)
    PROVE  i - 1 \in 1..Len(Tail(s)) /\ Tail(s)[i - 1] = s[i]
  OBVIOUS

\* A task registers calls of handlers only.
LEMMA RegistersType ==
    ASSUME NEW k
    PROVE  /\ registers(k) \subseteq Seq({"state", "pair"})
           /\ registers(k) \subseteq Seq(Functions)
  <1> DEFINE new == {<<>>, <<"state">>, <<"pair">>, <<"state", "pair">>}
  <1>1. ASSUME NEW S, "state" \in S, "pair" \in S PROVE new \subseteq Seq(S)
    <2>1. <<>> \in Seq(S)
      OBVIOUS
    <2>2. <<"state">> \in Seq(S) /\ <<"pair">> \in Seq(S)
      BY <1>1
    <2>3. <<"state", "pair">> \in Seq(S)
      BY <1>1
    <2> QED
      BY <2>1, <2>2, <2>3
  <1>2. registers(k) \subseteq new
    BY DEF registers
  <1> HIDE DEF new
  <1> QED
    BY <1>1, <1>2 DEF Functions

\* run puts a goroutine into its select, or returns at once if the agent is
\* closed.
LEMMA RunType ==
    ASSUME TypeOK, NEW g \in Goroutines, NEW k \in Kinds, run(g, k), status[g] # "task"
    PROVE  /\ status' \in [Goroutines -> Statuses]
           /\ kind' \in [Goroutines -> Kinds]
           /\ \A h \in Goroutines : status'[h] = "task" <=> status[h] = "task"
           /\ \A h \in Goroutines : h # g => status'[h] = status[h] /\ kind'[h] = kind[h]
           /\ status'[g] \in {"select", "free", "ended"}
           /\ kind'[g] \in {k, kind[g]}
           /\ g = "gather" => kind'[g] = k /\ (k = "complete" => status'[g] # "free")
  BY DEF run, Goto, TypeOK, Statuses

\* A goroutine that returns from run is free or has ended.
LEMMA ReturnType ==
    ASSUME NEW g, NEW ok
    PROVE  returned(g, ok) \in {"free", "ended"}
  BY DEF returned

\* Forgetting what a finished call was about spares the gathering goroutine.
LEMMA ForgetType ==
    ASSUME TypeOK, NEW g \in Goroutines, forget(g)
    PROVE  kind' \in [Goroutines -> Kinds] /\ kind'["gather"] = kind["gather"]
  BY DEF forget, TypeOK, Kinds, CallKinds

\* A run that sees done closed returns without its task.
LEMMA Step_runCanceled ==
    ASSUME IInv, NEW g \in Goroutines, runCanceled(g)
    PROVE  IInv'
  <1>1. TypeOK'
    BY ForgetType DEF runCanceled, returned, forget, IInv, TypeOK, Goto, Statuses
  <1>2. FixedOK'
    BY DEF runCanceled, returned, forget, IInv, TypeOK, FixedOK, Goto
  <1>3. LeavingOK'
    BY DEF runCanceled, returned, forget, IInv, LeavingOK, recvGone, Goto
  <1>4. OwedOK'
    BY DEF runCanceled, returned, forget, IInv, OwedOK, AwaitsGathering, Goto
  <1> QED
    BY <1>1, <1>2, <1>3, <1>4 DEF IInv

\* The loop takes a task only while it serves.
LEMMA Step_takeTask ==
    ASSUME IInv, NEW g \in Goroutines, takeTask(g)
    PROVE  IInv'
  <1>1. TypeOK'
    BY DEF takeTask, IInv, TypeOK, Statuses, Goroutines, Fixed
  <1>2. FixedOK'
    BY DEF takeTask, IInv, TypeOK, FixedOK, Goroutines, Fixed
  <1>3. LeavingOK'
    BY DEF takeTask, IInv, TypeOK, FixedOK, LeavingOK
  <1>4. OwedOK'
    BY DEF takeTask, IInv, TypeOK, FixedOK, OwedOK, AwaitsGathering, Goroutines, Fixed
  <1> QED
    BY <1>1, <1>2, <1>3, <1>4 DEF IInv

\* A task ends and registers functions behind those that are there, so that
\* what Close owes stays owed.
LEMMA Step_endTask ==
    ASSUME IInv, endTask
    PROVE  IInv'
  <1>1. TypeOK'
    <2>1. afterRunFn' \in Seq(Functions)
      BY RegistersType DEF endTask, IInv, TypeOK
    <2>2. \A g \in Goroutines : status'[g] \in Statuses /\ status'[g] # "task"
      <3>1. \A g \in Goroutines : status[g] = "task" => g = caller
        BY DEF IInv, TypeOK
      <3>2. CASE Goto(caller, returned(caller, TRUE))
        BY <3>1, <3>2, ReturnType DEF Goto, IInv, TypeOK, Statuses
      <3>3. CASE status' = [status EXCEPT ![caller] = returned(caller, TRUE), !["events"] = "handler"]
        BY <3>1, <3>3, ReturnType DEF IInv, TypeOK, Statuses
      <3> QED
        BY <3>2, <3>3 DEF endTask
    <2>3. status' \in [Goroutines -> Statuses]
      BY <2>2 DEF endTask, Goto, IInv, TypeOK
    <2>4. kind' \in [Goroutines -> Kinds]
      BY DEF endTask, forget, IInv, TypeOK, Kinds, CallKinds
    <2> QED
      BY <2>1, <2>2, <2>3, <2>4 DEF endTask, IInv, TypeOK
  <1>2. FixedOK'
    BY DEF endTask, returned, forget, CallKinds, IInv, TypeOK, FixedOK, Goto,
       Goroutines, Fixed
  <1>3. LeavingOK'
    BY DEF endTask, returned, forget, CallKinds, IInv, TypeOK, FixedOK, LeavingOK
  <1>4. OwedOK'
    BY DEF endTask, returned, forget, CallKinds, IInv, TypeOK, OwedOK, AwaitsGathering,
       Goto, Goroutines, Fixed
  <1> QED
    BY <1>1, <1>2, <1>3, <1>4 DEF IInv

\* The loop fetches all registered functions at once.
LEMMA Step_getAfterRunFn ==
    ASSUME IInv, getAfterRunFn
    PROVE  IInv'
  <1>1. TypeOK'
    BY DEF getAfterRunFn, IInv, TypeOK
  <1>2. FixedOK'
    BY DEF getAfterRunFn, IInv, FixedOK
  <1>3. LeavingOK'
    BY DEF getAfterRunFn, IInv, TypeOK, FixedOK, LeavingOK, recvGone
  <1>4. OwedOK'
    BY DEF getAfterRunFn, IInv, TypeOK, FixedOK, OwedOK, AwaitsGathering
  <1> QED
    BY <1>1, <1>2, <1>3, <1>4 DEF IInv

\* The loop runs the first function; Close's becomes a wait for the gathering,
\* and only the end of the gathering removes that.
LEMMA Step_runAfterFn ==
    ASSUME IInv, runAfterFn
    PROVE  IInv'
  <1>1. TypeOK'
    <2>1. fns' \in Seq(Functions)
      <3>1. Tail(fns) \in Seq(Functions)
        BY DEF runAfterFn, IInv, TypeOK
      <3>2. <<"await">> \o Tail(fns) \in Seq(Functions)
        BY <3>1 DEF Functions
      <3> QED
        BY <3>1, <3>2 DEF runAfterFn
    <2>2. status' \in [Goroutines -> Statuses] /\ cancelled' \in BOOLEAN
      BY DEF runAfterFn, Goto, IInv, TypeOK, Statuses
    <2>3. \A g \in Goroutines : status'[g] # "task"
      BY DEF runAfterFn, Goto, IInv, TypeOK
    <2> QED
      BY <2>1, <2>2, <2>3 DEF runAfterFn, IInv, TypeOK
  <1>2. FixedOK'
    BY Fetching, NamesAssumption DEF runAfterFn, freeHandler, IInv, TypeOK, FixedOK,
       Goto, Goroutines, Fixed
  <1>3. LeavingOK'
    BY Fetching DEF runAfterFn, freeHandler, IInv, TypeOK, LeavingOK, recvGone, Goto,
       Goroutines, Fixed
  <1>4. OwedOK'
    <2> SUFFICES ASSUME owed PROVE OwedOK'
      BY DEF OwedOK, runAfterFn
    <2>1. status'["gather"] = status["gather"]
      BY NamesAssumption DEF runAfterFn, freeHandler, Goto, IInv, TypeOK, Goroutines,
         Fixed
    <2>2. CASE Head(fns) \in {"state", "pair"}
      <3>1. fns' = Tail(fns) /\ afterRunFn' = afterRunFn
        BY <2>2 DEF runAfterFn
      <3>2. \A i \in 1..Len(fns) : fns[i] \in {"cancel", "await"} =>
                i - 1 \in 1..Len(fns') /\ fns'[i - 1] = fns[i]
        BY <2>2, <3>1
      <3> QED
        BY <2>1, <3>1, <3>2 DEF IInv, OwedOK, AwaitsGathering
    <2>3. CASE Head(fns) = "cancel"
      <3>1. fns' = <<"await">> \o Tail(fns) /\ Tail(fns) \in Seq(Functions)
        BY <2>3 DEF runAfterFn, IInv, TypeOK
      <3>2. 1 \in 1..Len(fns') /\ fns'[1] = "await"
        BY <3>1
      <3> QED
        BY <2>1, <3>2 DEF IInv, OwedOK, AwaitsGathering
    <2>4. CASE Head(fns) = "await"
      BY <2>1, <2>4 DEF runAfterFn, IInv, OwedOK
    <2> QED
      BY <2>2, <2>3, <2>4 DEF runAfterFn
  <1> QED
    BY <1>1, <1>2, <1>3, <1>4 DEF IInv

\* With no function left the loop serves again, or goes on leaving.
LEMMA Step_afterReturns ==
    ASSUME IInv, afterReturns
    PROVE  IInv'
  <1>1. TypeOK'
    BY DEF afterReturns, IInv, TypeOK
  <1>2. FixedOK'
    BY DEF afterReturns, IInv, TypeOK, FixedOK
  <1>3. LeavingOK'
    BY DEF afterReturns, IInv, TypeOK, FixedOK, LeavingOK
  <1>4. OwedOK'
    BY DEF afterReturns, IInv, TypeOK, FixedOK, OwedOK, AwaitsGathering
  <1> QED
    BY <1>1, <1>2, <1>3, <1>4 DEF IInv

\* The loop leaves only between tasks, when done is closed.
LEMMA Step_seesDone ==
    ASSUME IInv, seesDone
    PROVE  IInv'
  <1>1. TypeOK'
    BY DEF seesDone, IInv, TypeOK
  <1>2. FixedOK'
    BY DEF seesDone, IInv, TypeOK, FixedOK
  <1>3. LeavingOK'
    BY DEF seesDone, IInv, TypeOK, FixedOK, LeavingOK, recvGone
  <1>4. OwedOK'
    BY DEF seesDone, IInv, TypeOK, FixedOK, OwedOK, AwaitsGathering
  <1> QED
    BY <1>1, <1>2, <1>3, <1>4 DEF IInv

\* The loop has waited for the packet loop before it announces Closed.
LEMMA Step_updatesToClosed ==
    ASSUME IInv, updatesToClosed
    PROVE  IInv'
  <1>1. TypeOK'
    BY DEF updatesToClosed, recvGone, IInv, TypeOK, Statuses, Functions, Goroutines,
       Fixed
  <1>2. FixedOK'
    BY DEF updatesToClosed, recvGone, IInv, TypeOK, FixedOK
  <1>3. LeavingOK'
    BY DEF updatesToClosed, recvGone, IInv, TypeOK, FixedOK, LeavingOK, recvGone
  <1>4. OwedOK'
    BY DEF updatesToClosed, recvGone, IInv, OwedOK, AwaitsGathering, Goroutines
  <1> QED
    BY <1>1, <1>2, <1>3, <1>4 DEF IInv

\* The loop finishes when nothing is registered any more.
LEMMA Step_finishes ==
    ASSUME IInv, finishes
    PROVE  IInv'
  <1>1. TypeOK'
    BY DEF finishes, IInv, TypeOK, Statuses, Goroutines
  <1>2. FixedOK'
    BY DEF finishes, IInv, TypeOK, FixedOK
  <1>3. LeavingOK'
    BY DEF finishes, IInv, TypeOK, FixedOK, LeavingOK, recvGone
  <1>4. OwedOK'
    BY DEF finishes, IInv, TypeOK, FixedOK, OwedOK, AwaitsGathering
  <1> QED
    BY <1>1, <1>2, <1>3, <1>4 DEF IInv

\* Close begins, and owes a wait to a gathering that has been started.
LEMMA Step_closeBegins ==
    ASSUME IInv, NEW g \in Goroutines \ {"gather", "recv"}, status[g] # "task", closeBegins(g)
    PROVE  IInv'
  <1>1. TypeOK'
    BY DEF closeBegins, IInv, TypeOK, Goto, Statuses, Functions, Goroutines, Fixed
  <1>2. FixedOK'
    BY DEF closeBegins, IInv, TypeOK, FixedOK, Goto, Goroutines, Fixed
  <1>3. LeavingOK'
    BY DEF closeBegins, IInv, TypeOK, FixedOK, LeavingOK, recvGone, Fixed
  <1>4. OwedOK'
    BY HandlersAssumption DEF closeBegins, IInv, TypeOK, OwedOK, AwaitsGathering, Goto,
       Goroutines
  <1> QED
    BY <1>1, <1>2, <1>3, <1>4 DEF IInv

\* Close closes done after its function was registered.
LEMMA Step_closesDone ==
    ASSUME IInv, NEW g \in Goroutines, closesDone(g)
    PROVE  IInv'
  <1>1. TypeOK'
    BY DEF closesDone, IInv, TypeOK, Goto, Statuses, Goroutines, Fixed
  <1>2. FixedOK'
    BY DEF closesDone, IInv, TypeOK, FixedOK, Goto, Goroutines, Fixed
  <1>3. LeavingOK'
    BY DEF closesDone, IInv, LeavingOK, recvGone, Goto, Goroutines
  <1>4. OwedOK'
    BY DEF closesDone, IInv, OwedOK, AwaitsGathering, Goto, Goroutines
  <1> QED
    BY <1>1, <1>2, <1>3, <1>4 DEF IInv

\* Close returns when the loop has finished.
LEMMA Step_closeReturns ==
    ASSUME IInv, NEW g \in Goroutines, closeReturns(g)
    PROVE  IInv'
  <1>1. TypeOK'
    BY DEF closeReturns, IInv, TypeOK, Goto, Statuses, Goroutines, Fixed
  <1>2. FixedOK'
    BY DEF closeReturns, IInv, TypeOK, FixedOK, Goto, Goroutines, Fixed
  <1>3. LeavingOK'
    BY DEF closeReturns, IInv, LeavingOK, recvGone, Goto, Goroutines
  <1>4. OwedOK'
    BY DEF closeReturns, IInv, OwedOK, AwaitsGathering, Goto, Goroutines
  <1> QED
    BY <1>1, <1>2, <1>3, <1>4 DEF IInv

\* The handler goroutines end when the loop has closed their channels.
LEMMA Step_channelClosed ==
    ASSUME IInv, NEW g \in Goroutines, channelClosed(g)
    PROVE  IInv'
  <1>1. TypeOK'
    BY DEF channelClosed, IInv, TypeOK, Goto, Statuses, Fixed
  <1>2. FixedOK'
    BY DEF channelClosed, IInv, TypeOK, FixedOK, Goto, Goroutines, Fixed
  <1>3. LeavingOK'
    BY DEF channelClosed, IInv, LeavingOK, recvGone, Goto, Goroutines
  <1>4. OwedOK'
    BY DEF channelClosed, IInv, OwedOK, AwaitsGathering, Goto, Goroutines
  <1> QED
    BY <1>1, <1>2, <1>3, <1>4 DEF IInv

\* A goroutine that waits for the loop disturbs nothing else.
LEMMA Step_run ==
    ASSUME IInv, NEW g \in Goroutines, NEW k \in Kinds, run(g, k),
           status[g] \notin {"task", "none", "ended"},
           g = "gather" => k \in {"gathering", "candidate", "complete"},
           calls' \in 0..MaxCalls,
           UNCHANGED <<loop, caller, afterRunFn, fns, done, closeCalled, cancelled, closeCh, owed>>
    PROVE  IInv'
  <1>1. /\ status' \in [Goroutines -> Statuses]
        /\ kind' \in [Goroutines -> Kinds]
        /\ \A h \in Goroutines : status'[h] = "task" <=> status[h] = "task"
        /\ \A h \in Goroutines : h # g => status'[h] = status[h] /\ kind'[h] = kind[h]
        /\ status'[g] \in {"select", "free", "ended"}
        /\ kind'[g] \in {k, kind[g]}
        /\ g = "gather" => kind'[g] = k /\ (k = "complete" => status'[g] # "free")
    BY RunType DEF IInv
  <1>2. TypeOK'
    BY <1>1 DEF IInv, TypeOK
  <1>3. FixedOK'
    BY <1>1 DEF IInv, FixedOK, Goroutines, Fixed
  <1>4. LeavingOK'
    BY <1>1 DEF IInv, LeavingOK, recvGone, Goroutines, Fixed
  <1>5. OwedOK'
    BY <1>1 DEF IInv, OwedOK, AwaitsGathering, Goroutines, Fixed
  <1> QED
    BY <1>2, <1>3, <1>4, <1>5 DEF IInv

\* An API call enters run, or begins Close.
LEMMA Step_API ==
    ASSUME IInv, NEW g \in Goroutines, API(g)
    PROVE  IInv'
  <1>1. CASE g \in Callers
    <2>1. CASE closeBegins(g)
      BY <1>1, <2>1, NamesAssumption, Step_closeBegins DEF API, Fixed
    <2>2. CASE ~closeBegins(g)
      <3>1. PICK k \in CallKinds : run(g, k)
        BY <2>2 DEF API
      <3>2. calls' \in 0..MaxCalls /\ g # "gather"
        BY <1>1, <2>2, NamesAssumption, HandlersAssumption DEF API, Fixed, IInv, TypeOK
      <3> QED
        BY <2>2, <3>1, <3>2, Step_run DEF API, Kinds
    <2> QED
      BY <2>1, <2>2
  <1>2. CASE g \notin Callers
    BY <1>2, NamesAssumption, Step_closeBegins DEF API, Fixed
  <1> QED
    BY <1>1, <1>2

\* A packet makes the packet loop run a task.
LEMMA Step_recvLoop ==
    ASSUME IInv, recvLoop
    PROVE  IInv'
  <1>1. CASE run("recv", "inbound")
    <2>1. calls' \in 0..MaxCalls
      BY <1>1, HandlersAssumption DEF recvLoop, IInv, TypeOK
    <2> QED
      BY <1>1, <2>1, Step_run DEF recvLoop, Kinds, Goroutines, Fixed
  <1>2. CASE Goto("recv", "ended") /\ UNCHANGED <<calls, kind>>
    <2>1. TypeOK'
      BY <1>2 DEF recvLoop, Goto, IInv, TypeOK, Statuses
    <2>2. FixedOK' /\ OwedOK'
      BY <1>2 DEF recvLoop, Goto, IInv, FixedOK, OwedOK, AwaitsGathering, Goroutines
    <2>3. LeavingOK'
      BY <1>2 DEF recvLoop, IInv, TypeOK, LeavingOK, recvGone, Fixed
    <2> QED
      BY <2>1, <2>2, <2>3 DEF IInv
  <1> QED
    BY <1>1, <1>2 DEF recvLoop

\* The gathering goroutine runs its tasks in turn and ends with the last one.
LEMMA Step_gatherCandidates ==
    ASSUME IInv, gatherCandidates
    PROVE  IInv'
  <1>1. PICK k \in {"gathering", "candidate", "complete"} : run("gather", k)
    BY DEF gatherCandidates, IInv, FixedOK
  <1>2. calls' \in 0..MaxCalls
    BY DEF gatherCandidates, IInv, TypeOK
  <1> QED
    BY <1>1, <1>2, Step_run DEF gatherCandidates, Kinds, Goroutines, Fixed

\* A handler returns, runs a task or closes the agent.
LEMMA Step_handler ==
    ASSUME IInv, NEW g \in Goroutines, handler(g)
    PROVE  IInv'
  <1>0. g \notin {"gather", "recv"} /\ status[g] = "handler"
    BY DEF handler, IInv, FixedOK
  <1>1. CASE closeBegins(g)
    BY <1>0, <1>1, Step_closeBegins
  <1>2. CASE /\ run(g, "query")
             /\ UNCHANGED <<loop, caller, afterRunFn, fns, done, closeCalled, cancelled, closeCh,
                            calls, owed>>
    BY <1>0, <1>2, Step_run DEF IInv, TypeOK, Kinds, CallKinds
  <1>3. CASE /\ Goto(g, "free")
             /\ UNCHANGED <<loop, caller, kind, afterRunFn, fns, done, closeCalled, cancelled,
                            closeCh, calls, owed>>
    <2>1. TypeOK'
      BY <1>0, <1>3 DEF Goto, IInv, TypeOK, Statuses
    <2>2. FixedOK' /\ OwedOK'
      BY <1>0, <1>3 DEF Goto, IInv, FixedOK, OwedOK, AwaitsGathering, Goroutines
    <2>3. LeavingOK'
      BY <1>0, <1>3 DEF Goto, IInv, LeavingOK, recvGone, Goroutines
    <2> QED
      BY <2>1, <2>2, <2>3 DEF IInv
  <1> QED
    BY <1>1, <1>2, <1>3 DEF handler

-----------------------------------------------------------------------------
\* Every reachable state satisfies the inductive invariant.
THEOREM Invariance == Spec => []IInv
  <1>1. Init => IInv
    <2> SUFFICES ASSUME Init PROVE IInv
      OBVIOUS
    <2>1. TypeOK
      <3>1. afterRunFn \in Seq(Functions) /\ fns \in Seq(Functions)
        BY DEF Init
      <3>2. /\ status \in [Goroutines -> Statuses]
            /\ \A g \in Goroutines : status[g] # "task"
        BY DEF Init, Statuses
      <3>3. kind \in [Goroutines -> Kinds]
        BY DEF Init, Kinds, CallKinds
      <3>4. loop = "select" /\ caller = "none" /\ calls \in 0 .. MaxCalls
        BY HandlersAssumption DEF Init
      <3>5. {done, closeCalled, cancelled, closeCh, owed} \subseteq BOOLEAN
        BY DEF Init
      <3> QED
        BY <3>1, <3>2, <3>3, <3>4, <3>5 DEF TypeOK
    <2>2. FixedOK /\ LeavingOK /\ OwedOK
      BY DEF Init, FixedOK, LeavingOK, OwedOK, Goroutines, Fixed
    <2> QED
      BY <2>1, <2>2 DEF IInv
  <1>2. IInv /\ [Next]_vars => IInv'
    <2> SUFFICES ASSUME IInv, [Next]_vars PROVE IInv'
      OBVIOUS
    <2>1. CASE UNCHANGED vars
      BY <2>1 DEF vars, IInv, TypeOK, FixedOK, LeavingOK, recvGone, OwedOK,
         AwaitsGathering
    <2>2. CASE taskLoop
      BY <2>2, Step_takeTask, Step_endTask, Step_getAfterRunFn, Step_runAfterFn,
         Step_afterReturns, Step_seesDone, Step_updatesToClosed, Step_finishes DEF
         taskLoop
    <2>3. CASE \E g \in Goroutines : API(g) \/ proceeds(g)
      BY <2>3, Step_API, Step_runCanceled, Step_closesDone, Step_closeReturns,
         Step_handler, Step_channelClosed DEF proceeds
    <2>4. CASE recvLoop \/ gatherCandidates
      BY <2>4, Step_recvLoop, Step_gatherCandidates
    <2> QED
      BY <2>1, <2>2, <2>3, <2>4 DEF Next, Idle
  <1> QED
    BY <1>1, <1>2, PTL DEF Spec

\* Types; a task that is being run has a caller that waits for it.
THEOREM TypeCorrect == Spec => []TypeOK
  <1>1. IInv => TypeOK
    BY DEF IInv
  <1> QED
    BY <1>1, Invariance, PTL

\* When Close returns, the goroutines that use the agent's sockets are gone,
\* however many goroutines call the API and whatever the handlers do.
THEOREM CloseJoinsAll == Spec => []CloseJoins
  <1>1. IInv => CloseJoins
    BY DEF IInv, LeavingOK, OwedOK, AwaitsGathering, CloseJoins
  <1> QED
    BY <1>1, Invariance, PTL

-----------------------------------------------------------------------------
\* Nobody waits in a circle.

\* The handlers that the loop waits for do not wait for the loop: the one for
\* candidates only returns, and the one for pairs runs no task.
HandlersDoNotWait == CandidateHandler = {"returns"} /\ "runs" \notin PairHandler

\* The handler goroutines take what the loop sends them until it has finished.
HandlersOK ==
    /\ status["events"] \in {"free", "handler", "ended"}
    /\ status["pairs"] \in {"free", "handler", "closing", "waiting", "ended"}
    /\ "ended" \in {status["events"], status["pairs"]} => loop = "finished"

\* Between its two steps Close can go on, and only Close makes the loop wait for
\* gathering.
ClosingOK ==
    /\ \A g \in Goroutines : status[g] = "waiting" => done
    /\ closeCalled /\ ~done => \E g \in Goroutines : status[g] = "closing"
    /\ ~closeCalled => /\ afterRunFn \in Seq({"state", "pair"})
                       /\ fns \in Seq({"state", "pair"})

\* recvLoop only hands in packets, and whoever waits for it has closed its socket.
RecvOK ==
    /\ kind["recv"] \in {"query", "inbound"}
    /\ \/ closeCh \/ status["recv"] = "none"
       \/ loop # "deleting" /\ (loop = "task" => kind[caller] # "fail")

WInv == HandlersOK /\ ClosingOK /\ RecvOK

\* A task that waits for recvLoop has closed its socket.
LEMMA Wait_takeTask ==
    ASSUME HandlersDoNotWait, IInv, WInv, NEW g \in Goroutines, takeTask(g)
    PROVE  WInv'
  <1>0. {"events", "pairs", "gather", "recv"} \subseteq Goroutines
    BY DEF Goroutines, Fixed
  <1>1. HandlersOK'
    BY <1>0 DEF takeTask, IInv, TypeOK, WInv, HandlersOK
  <1>2. ClosingOK'
    BY DEF takeTask, IInv, TypeOK, WInv, ClosingOK
  <1>3. RecvOK'
    BY <1>0 DEF takeTask, IInv, TypeOK, WInv, RecvOK
  <1> QED
    BY <1>1, <1>2, <1>3 DEF WInv

\* A task ends and calls a handler, or registers one to be called.
LEMMA Wait_endTask ==
    ASSUME HandlersDoNotWait, IInv, WInv, endTask
    PROVE  WInv'
  <1>0. {"events", "pairs", "gather", "recv"} \subseteq Goroutines
    BY DEF Goroutines, Fixed
  <1>1. HandlersOK'
    BY <1>0 DEF endTask, forget, returned, Goto, IInv, TypeOK, WInv, HandlersOK
  <1>2. ClosingOK'
    <2>2. ~closeCalled => afterRunFn' \in Seq({"state", "pair"})
      BY RegistersType DEF endTask, WInv, ClosingOK
    <2>3. caller \in Goroutines /\ status[caller] = "task"
      BY DEF endTask, IInv, TypeOK
    <2>4. \A g \in Goroutines : /\ status'[g] = "waiting" => status[g] = "waiting"
                                /\ status[g] = "closing" => status'[g] = "closing"
      <3>1. CASE Goto(caller, returned(caller, TRUE))
        BY <2>3, <3>1, ReturnType DEF Goto, IInv, TypeOK
      <3>2. CASE status' = [status EXCEPT ![caller] = returned(caller, TRUE), !["events"] = "handler"]
        BY <2>3, <3>2, ReturnType DEF IInv, TypeOK, WInv, HandlersOK
      <3> QED
        BY <3>1, <3>2 DEF endTask
    <2>5. done' = done /\ closeCalled' = closeCalled /\ fns' = fns
      BY DEF endTask
    <2> QED
      BY <2>2, <2>4, <2>5, Zenon DEF WInv, ClosingOK
  <1>3. RecvOK'
    BY DEF endTask, forget, returned, WInv, RecvOK
  <1> QED
    BY <1>1, <1>2, <1>3 DEF WInv

\* Fetching the registered functions.
LEMMA Wait_getAfterRunFn ==
    ASSUME HandlersDoNotWait, IInv, WInv, getAfterRunFn
    PROVE  WInv'
  <1>0. {"events", "pairs", "gather", "recv"} \subseteq Goroutines
    BY DEF Goroutines, Fixed
  <1>1. HandlersOK'
    BY DEF getAfterRunFn, WInv, HandlersOK
  <1>2. ClosingOK'
    BY DEF getAfterRunFn, WInv, ClosingOK
  <1>3. RecvOK'
    BY DEF getAfterRunFn, WInv, RecvOK
  <1> QED
    BY <1>1, <1>2, <1>3 DEF WInv

\* A function calls a handler that is free.
LEMMA Wait_runAfterFn ==
    ASSUME HandlersDoNotWait, IInv, WInv, runAfterFn
    PROVE  WInv'
  <1>0. {"events", "pairs", "gather", "recv"} \subseteq Goroutines
    BY DEF Goroutines, Fixed
  <1>1. HandlersOK'
    BY <1>0 DEF runAfterFn, Goto, freeHandler, IInv, TypeOK, WInv, HandlersOK
  <1>2. ClosingOK'
    <2>1. ~closeCalled => Head(fns) \in {"state", "pair"} /\ Tail(fns) \in Seq({"state", "pair"})
      BY DEF runAfterFn, WInv, ClosingOK
    <2>2. ~closeCalled => fns' \in Seq({"state", "pair"})
      BY <2>1 DEF runAfterFn
    <2>3. \A g \in Goroutines : /\ status'[g] = "waiting" => status[g] = "waiting"
                                /\ status[g] = "closing" => status'[g] = "closing"
      BY DEF runAfterFn, Goto, freeHandler, IInv, TypeOK
    <2>4. done' = done /\ closeCalled' = closeCalled /\ afterRunFn' = afterRunFn
      BY DEF runAfterFn
    <2> QED
      BY <2>2, <2>3, <2>4, Zenon DEF WInv, ClosingOK
  <1>3. RecvOK'
    BY DEF runAfterFn, freeHandler, WInv, RecvOK
  <1> QED
    BY <1>1, <1>2, <1>3 DEF WInv

\* The loop goes on.
LEMMA Wait_loopMoves ==
    ASSUME HandlersDoNotWait, IInv, WInv, afterReturns \/ updatesToClosed \/ finishes
    PROVE  WInv'
  <1>0. {"events", "pairs", "gather", "recv"} \subseteq Goroutines
    BY DEF Goroutines, Fixed
  <1>1. HandlersOK'
    BY DEF afterReturns, updatesToClosed, finishes, WInv, HandlersOK
  <1>2. ClosingOK'
    <2>1. ~closeCalled => afterRunFn' \in Seq({"state", "pair"})
      BY DEF afterReturns, updatesToClosed, finishes, WInv, ClosingOK
    <2> QED
      BY <2>1 DEF afterReturns, updatesToClosed, finishes, WInv, ClosingOK
  <1>3. RecvOK'
    BY DEF afterReturns, updatesToClosed, finishes, WInv, RecvOK
  <1> QED
    BY <1>1, <1>2, <1>3 DEF WInv

\* The loop closes the socket of recvLoop before it waits for it.
LEMMA Wait_seesDone ==
    ASSUME HandlersDoNotWait, IInv, WInv, seesDone
    PROVE  WInv'
  <1>0. {"events", "pairs", "gather", "recv"} \subseteq Goroutines
    BY DEF Goroutines, Fixed
  <1>1. HandlersOK'
    BY DEF seesDone, WInv, HandlersOK
  <1>2. ClosingOK'
    BY DEF seesDone, WInv, ClosingOK
  <1>3. RecvOK'
    BY DEF seesDone, WInv, RecvOK
  <1> QED
    BY <1>1, <1>2, <1>3 DEF WInv

\* A call of run that gives up.
LEMMA Wait_runCanceled ==
    ASSUME HandlersDoNotWait, IInv, WInv, NEW g \in Goroutines, runCanceled(g)
    PROVE  WInv'
  <1>0. {"events", "pairs", "gather", "recv"} \subseteq Goroutines
    BY DEF Goroutines, Fixed
  <1>1. HandlersOK'
    BY DEF runCanceled, Goto, returned, forget, WInv, HandlersOK
  <1>2. ClosingOK'
    BY DEF runCanceled, Goto, returned, forget, WInv, ClosingOK
  <1>3. RecvOK'
    BY DEF runCanceled, Goto, returned, forget, WInv, RecvOK
  <1> QED
    BY <1>1, <1>2, <1>3 DEF WInv

\* The second step of Close.
LEMMA Wait_closesDone ==
    ASSUME HandlersDoNotWait, IInv, WInv, NEW g \in Goroutines, closesDone(g)
    PROVE  WInv'
  <1>0. {"events", "pairs", "gather", "recv"} \subseteq Goroutines
    BY DEF Goroutines, Fixed
  <1>1. HandlersOK'
    BY DEF closesDone, Goto, WInv, HandlersOK
  <1>2. ClosingOK'
    BY DEF closesDone, WInv, ClosingOK
  <1>3. RecvOK'
    BY DEF closesDone, Goto, WInv, RecvOK
  <1> QED
    BY <1>1, <1>2, <1>3 DEF WInv

\* After the loop has finished.
LEMMA Wait_ended ==
    ASSUME HandlersDoNotWait, IInv, WInv, NEW g \in Goroutines, closeReturns(g) \/ channelClosed(g)
    PROVE  WInv'
  <1>0. {"events", "pairs", "gather", "recv"} \subseteq Goroutines
    BY DEF Goroutines, Fixed
  <1>1. HandlersOK'
    BY <1>0 DEF closeReturns, channelClosed, Goto, IInv, TypeOK, WInv, HandlersOK
  <1>2. ClosingOK'
    BY DEF closeReturns, channelClosed, Goto, IInv, TypeOK, WInv, ClosingOK
  <1>3. RecvOK'
    BY DEF closeReturns, channelClosed, WInv, RecvOK
  <1> QED
    BY <1>1, <1>2, <1>3 DEF WInv

\* A call of the API.
LEMMA Wait_API ==
    ASSUME HandlersDoNotWait, IInv, WInv, NEW g \in Goroutines, API(g)
    PROVE  WInv'
  <1>0. {"events", "pairs", "gather", "recv"} \subseteq Goroutines
    BY DEF Goroutines, Fixed
  <1>1. HandlersOK'
    BY <1>0, NamesAssumption DEF Fixed, API, run, Goto, closeBegins, IInv, TypeOK,
       WInv, HandlersOK
  <1>2. ClosingOK'
    BY DEF API, run, Goto, closeBegins, IInv, TypeOK, WInv, ClosingOK
  <1>3. RecvOK'
    <2>1. loop = "task" => caller \in Goroutines /\ status[caller] = "task"
      BY DEF IInv, TypeOK
    <2>2. UNCHANGED <<loop, caller, closeCh>> /\ (status["recv"] = "none" => status'["recv"] = "none")
      BY <1>0 DEF API, run, Goto, closeBegins, IInv, TypeOK
    <2>3. loop = "task" => kind'[caller] = kind[caller]
      BY <2>1 DEF API, run, Goto, closeBegins, IInv, TypeOK
    <2>4. kind'["recv"] \in {"query", "inbound"}
      BY <1>0, NamesAssumption DEF API, run, closeBegins, IInv, TypeOK, Fixed, WInv,
         RecvOK
    <2> QED
      BY <2>2, <2>3, <2>4 DEF WInv, RecvOK
  <1> QED
    BY <1>1, <1>2, <1>3 DEF WInv

\* A handler that the loop waits for returns or closes the agent.
LEMMA Wait_handler ==
    ASSUME HandlersDoNotWait, IInv, WInv, NEW g \in Goroutines, handler(g)
    PROVE  WInv'
  <1>0. {"events", "pairs", "gather", "recv"} \subseteq Goroutines
    BY DEF Goroutines, Fixed
  <1>1. HandlersOK'
    BY <1>0 DEF HandlersDoNotWait, handler, behaviour, run, Goto, closeBegins, IInv,
       TypeOK, WInv, HandlersOK
  <1>2. ClosingOK'
    BY DEF handler, behaviour, run, Goto, closeBegins, IInv, TypeOK, WInv, ClosingOK
  <1>3. RecvOK'
    <2>1. loop = "task" => caller \in Goroutines /\ status[caller] = "task"
      BY DEF IInv, TypeOK
    <2>2. UNCHANGED <<loop, caller, closeCh>> /\ (status["recv"] = "none" => status'["recv"] = "none")
      BY <1>0 DEF handler, run, Goto, closeBegins, IInv, TypeOK
    <2>3. loop = "task" => kind'[caller] = kind[caller]
      BY <2>1 DEF handler, run, Goto, closeBegins, IInv, TypeOK
    <2>4. kind'["recv"] \in {"query", "inbound"}
      BY <1>0 DEF handler, run, closeBegins, IInv, TypeOK, WInv, RecvOK
    <2> QED
      BY <2>2, <2>3, <2>4 DEF WInv, RecvOK
  <1> QED
    BY <1>1, <1>2, <1>3 DEF WInv

\* The other goroutines.
LEMMA Wait_others ==
    ASSUME HandlersDoNotWait, IInv, WInv, recvLoop \/ gatherCandidates
    PROVE  WInv'
  <1>0. {"events", "pairs", "gather", "recv"} \subseteq Goroutines
    BY DEF Goroutines, Fixed
  <1>1. HandlersOK'
    BY <1>0 DEF recvLoop, gatherCandidates, run, Goto, IInv, TypeOK, WInv, HandlersOK
  <1>2. ClosingOK'
    BY DEF recvLoop, gatherCandidates, run, Goto, IInv, TypeOK, WInv, ClosingOK
  <1>3. RecvOK'
    <2>1. loop = "task" => caller \in Goroutines /\ status[caller] = "task"
      BY DEF IInv, TypeOK
    <2>2. UNCHANGED <<loop, caller, closeCh>> /\ (status["recv"] = "none" => status'["recv"] = "none")
      BY <1>0 DEF recvLoop, gatherCandidates, run, Goto, IInv, TypeOK
    <2>3. loop = "task" => kind'[caller] = kind[caller]
      BY <2>1 DEF recvLoop, gatherCandidates, run, Goto, IInv, TypeOK
    <2>4. kind'["recv"] \in {"query", "inbound"}
      BY <1>0 DEF recvLoop, gatherCandidates, run, IInv, TypeOK, WInv, RecvOK
    <2> QED
      BY <2>2, <2>3, <2>4 DEF WInv, RecvOK
  <1> QED
    BY <1>1, <1>2, <1>3 DEF WInv

\* The waits are as WInv says in every reachable state.
THEOREM WaitInvariance == ASSUME HandlersDoNotWait PROVE Spec => [](IInv /\ WInv)
  <1>1. Init => WInv
    <2>1. {"events", "pairs", "gather", "recv"} \subseteq Goroutines
      BY DEF Goroutines, Fixed
    <2> QED
      BY <2>1 DEF Init, WInv, HandlersOK, ClosingOK, RecvOK
  <1>2. IInv /\ WInv /\ [Next]_vars => WInv'
    <2> SUFFICES ASSUME IInv, WInv, [Next]_vars PROVE WInv'
      OBVIOUS
    <2>1. CASE UNCHANGED vars
      BY <2>1 DEF vars, WInv, HandlersOK, ClosingOK, RecvOK
    <2>2. CASE taskLoop
      BY <2>2, Wait_takeTask, Wait_endTask, Wait_getAfterRunFn, Wait_runAfterFn,
         Wait_loopMoves, Wait_seesDone DEF taskLoop
    <2>3. CASE \E g \in Goroutines : API(g) \/ proceeds(g)
      BY <2>3, Wait_API, Wait_runCanceled, Wait_closesDone, Wait_ended, Wait_handler
         DEF proceeds
    <2>4. CASE recvLoop \/ gatherCandidates
      BY <2>4, Wait_others
    <2> QED
      BY <2>1, <2>2, <2>3, <2>4 DEF Next, Idle
  <1> QED
    BY <1>1, <1>2, Invariance, PTL DEF Spec

\* If the handlers that the loop waits for do not wait for the loop, no goroutines
\* wait for each other in a circle.
THEOREM NoDeadlock == ASSUME HandlersDoNotWait PROVE Spec => []NoCircularWait
  <1>1. IInv /\ WInv => NoCircularWait
    <2> SUFFICES ASSUME IInv, WInv,
                        ~loopGoesOn, \A g \in Goroutines : ~goesOn(g)
                 PROVE  AtRest
      BY DEF NoCircularWait
    <2>1. {"events", "pairs", "gather", "recv"} \subseteq Goroutines
      BY DEF Goroutines, Fixed
    <2>2. \A g \in Goroutines : status[g] \notin {"handler", "closing"}
      BY DEF goesOn
    <2>3. closeCalled => done
      BY <2>2 DEF WInv, ClosingOK
    <2>4. status["gather"] # "free" /\ (status["recv"] = "free" => ~closeCh)
      BY <2>1 DEF goesOn
    <2>5. done => \A g \in Goroutines : g # "recv" => status[g] # "select"
      BY DEF goesOn, ctxDone
    <2>6. closeCh => status["recv"] # "select"
      BY <2>1 DEF goesOn, ctxDone
    <2>7. loop # "task"
      <3> SUFFICES ASSUME loop = "task" PROVE FALSE
        OBVIOUS
      <3>1. ~sends(kind[caller]) \/ status["events"] = "free"
        BY <2>1, <2>2 DEF WInv, HandlersOK
      <3>2. kind[caller] = "fail" => recvGone
        <4> SUFFICES ASSUME kind[caller] = "fail" PROVE recvGone
          OBVIOUS
        <4>1. closeCh \/ status["recv"] = "none"
          BY DEF WInv, RecvOK
        <4>2. status["recv"] # "task"
          <5>1. kind["recv"] # "fail"
            BY DEF WInv, RecvOK
          <5> QED
            BY <2>1, <5>1 DEF IInv, TypeOK
        <4> QED
          BY <2>4, <2>6, <4>1, <4>2 DEF IInv, FixedOK, recvGone
      <3> QED
        BY <3>1, <3>2 DEF loopGoesOn
    <2>8. loop \notin {"after", "deferred"}
      <3> SUFFICES ASSUME loop \in {"after", "deferred"} PROVE FALSE
        OBVIOUS
      <3>1. fns # <<>> /\ Head(fns) \in Functions
        BY DEF loopGoesOn, IInv, TypeOK
      <3>2. status["events"] = "free" /\ (status["pairs"] = "free" \/ done)
        BY <2>1, <2>2 DEF WInv, HandlersOK, ClosingOK
      <3>3. Head(fns) = "await" => status["gather"] \in {"none", "ended"}
        <4> SUFFICES ASSUME Head(fns) = "await" PROVE status["gather"] \in {"none", "ended"}
          OBVIOUS
        <4>1. done
          BY <2>3, <3>1 DEF WInv, ClosingOK
        <4>2. status["gather"] \notin {"select", "task"}
          BY <2>1, <2>5, <4>1 DEF IInv, TypeOK
        <4> QED
          BY <2>4, <4>2 DEF IInv, FixedOK
      <3> QED
        BY <3>1, <3>2, <3>3 DEF loopGoesOn, Functions
    <2>9. loop # "deleting"
      <3> SUFFICES ASSUME loop = "deleting" PROVE FALSE
        OBVIOUS
      <3>1. status["recv"] # "task"
        BY <2>1 DEF IInv, TypeOK
      <3> QED
        BY <2>4, <2>6, <3>1 DEF loopGoesOn, recvGone, WInv, RecvOK, IInv, FixedOK
    <2>10. CASE loop = "select"
      <3>1. ~done
        BY <2>10 DEF loopGoesOn
      <3>2. \A g \in Goroutines : status[g] \notin {"select", "task", "waiting"}
        BY <2>10, <3>1 DEF goesOn, IInv, TypeOK, WInv, ClosingOK
      <3> QED
        BY <2>2, <2>10, <3>2 DEF AtRest, IInv, TypeOK, Statuses
    <2>11. CASE loop = "finished"
      <3>1. done /\ recvGone
        BY <2>11 DEF IInv, LeavingOK
      <3>2. \A g \in Goroutines : status[g] \notin {"select", "task", "waiting"}
        BY <2>1, <2>5, <2>11, <3>1 DEF goesOn, recvGone, IInv, TypeOK
      <3> QED
        BY <2>2, <2>11, <3>2 DEF AtRest, IInv, TypeOK, Statuses
    <2> QED
      BY <2>7, <2>8, <2>9, <2>10, <2>11 DEF IInv, TypeOK
  <1> QED
    BY <1>1, WaitInvariance, PTL
=============================================================================
