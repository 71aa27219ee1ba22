---------------------------- MODULE GatherProofs ----------------------------
(***************************************************************************)
(* The safety of gathering, for any jobs, configurations and number of     *)
(* gatherings.                                                             *)
(***************************************************************************)
EXTENDS Gather, TLAPS

-----------------------------------------------------------------------------
\* The inductive invariant.

\* A job holds what its next steps rely on, until the agent is closed.
JobsOK ==
    /\ \A c \in localCandidates : job[c] = "finished"
    /\ ~agentDone => \A c \in Candidates :
        /\ job[c] = "asking" => <<c, "conn">> \in open
        /\ job[c] \in {"creating", "adding"} \/ c \in localCandidates =>
            <<c, "conn">> \in open /\ (KindOf[c[2]] = "relay" => <<c, "alloc">> \in open)

\* A goroutine that has begun has a done channel.
ThreadsOK ==
    \A g \in Gatherings :
        /\ gather[g] # "none" => current # 0
        /\ gather[g] \notin {"none", "spawned"} => doneOf[g] # 0

\* Calls that do not race find one gathering at a time, which owns the done
\* channel and closes it last.
OneAtATime ==
    ~raced =>
        /\ \A g, h \in Gatherings : Busy(g) /\ Busy(h) => g = h
        /\ \A g \in Gatherings :
            /\ Busy(g) => current = g
            /\ gather[g] \in {"starting", "running", "leaving"} => doneOf[g] = g
            /\ g \in closedCh => gather[g] = "ended"

\* Gatherers at work are visible as GatheringStateGathering, which is what makes
\* Restart refuse to delete candidates under them; before that the state is New.
GatheringAnnounced ==
    ~raced => \A g \in Gatherings :
        /\ gather[g] \in {"spawned", "starting"} => gatheringState = "New"
        /\ gather[g] = "running" => gatheringState = "Gathering"

\* Close's function is registered once.  When it has run and the loop has
\* waited, no gathering is left.
LoopOK ==
    /\ afterRunFn \/ loop # "serving" => closing # "no"
    /\ loop # "serving" => ~afterRunFn
    /\ ~raced /\ closing # "no" /\ ~afterRunFn /\ loop \in {"serving", "finished"} =>
        \A g \in Gatherings : ~Busy(g)

IInv ==
    /\ TypeOK
    /\ OpenSocketsOwned
    /\ JobsOK
    /\ ThreadsOK
    /\ OneAtATime
    /\ GatheringAnnounced
    /\ LoopOK

-----------------------------------------------------------------------------
\* Closing the agent's candidates takes nothing from a job at work.
LEMMA Deleting ==
    ASSUME TypeOK, OpenSocketsOwned, JobsOK, deleteAllCandidates, UNCHANGED <<job, turnedAway>>
    PROVE  /\ localCandidates' = {}
           /\ open' \subseteq open
           /\ OpenSocketsOwned'
           /\ closing' = closing => JobsOK'
  <1> USE DEF deleteAllCandidates
  <1>1. \A r \in open : r[1] \in Candidates /\ (r \in open' <=> r[1] \notin localCandidates)
    BY DEF TypeOK, ResourcesOf, Resources
  <1>2. \A c \in Candidates : c \notin localCandidates =>
            \A res \in {"conn", "alloc"} : <<c, res>> \in open => <<c, res>> \in open'
    BY <1>1
  <1>3. localCandidates' = {} /\ open' \subseteq open
    OBVIOUS
  <1>4. OpenSocketsOwned'
    BY <1>1, <1>3 DEF OpenSocketsOwned
  <1>5. ASSUME closing' = closing PROVE JobsOK'
    <2>1. \A c \in Candidates : job[c] \in {"asking", "creating", "adding"} =>
            c \notin localCandidates
      BY DEF JobsOK
    <2> QED
      BY <1>2, <1>3, <1>5, <2>1 DEF JobsOK, agentDone
  <1> QED
    BY <1>3, <1>4, <1>5

\* GatherCandidates spawns a goroutine and replaces current; unless the call
\* races, no other gathering is busy then.
LEMMA Step_GatherCandidates ==
    ASSUME IInv, GatherCandidates
    PROVE  IInv'
  <1> USE GatherAssumption DEF GatherCandidates
  <1>1. TypeOK'
    BY DEF IInv, TypeOK, socketVars
  <1>2. OpenSocketsOwned' /\ JobsOK'
    BY DEF IInv, OpenSocketsOwned, JobsOK, agentDone, socketVars
  <1>3. ThreadsOK'
    BY DEF IInv, ThreadsOK, Gatherings
  <1>4. OneAtATime'
    <2> SUFFICES ASSUME ~raced' PROVE OneAtATime'
      BY DEF OneAtATime
    <2>1. ~raced /\ \A h \in Gatherings : ~Busy(h)
      OBVIOUS
    <2>2. PICK g \in Gatherings : gather[g] = "none" /\ current' = g
                                  /\ gather' = [gather EXCEPT ![g] = "spawned"]
      OBVIOUS
    <2>3. \A h \in Gatherings : Busy(h)' <=> h = g
      BY <2>1, <2>2 DEF Busy, IInv, TypeOK
    <2> QED
      BY <2>1, <2>2, <2>3 DEF IInv, OneAtATime
  <1>5. GatheringAnnounced'
    BY DEF IInv, TypeOK, GatheringAnnounced
  <1>6. LoopOK'
    BY DEF IInv, LoopOK
  <1> QED
    BY <1>1, <1>2, <1>3, <1>4, <1>5, <1>6 DEF IInv

\* Close registers its function once, before it closes anything.
LEMMA Step_closeBegins ==
    ASSUME IInv, closeBegins
    PROVE  IInv'
  <1> USE GatherAssumption DEF closeBegins
  <1>1. TypeOK'
    BY DEF IInv, TypeOK, socketVars, threadVars
  <1>2. OpenSocketsOwned' /\ JobsOK'
    BY DEF IInv, OpenSocketsOwned, JobsOK, agentDone, socketVars
  <1>3. ThreadsOK'
    BY DEF IInv, ThreadsOK, threadVars
  <1>4. OneAtATime'
    BY DEF IInv, OneAtATime, Busy, threadVars
  <1>5. GatheringAnnounced'
    BY DEF IInv, GatheringAnnounced, threadVars
  <1>6. LoopOK'
    BY DEF IInv, LoopOK
  <1> QED
    BY <1>1, <1>2, <1>3, <1>4, <1>5, <1>6 DEF IInv

\* Close closes a.done; only from then on may a job lose its socket.
LEMMA Step_closesDone ==
    ASSUME IInv, closesDone
    PROVE  IInv'
  <1> USE GatherAssumption DEF closesDone
  <1>1. TypeOK'
    BY DEF IInv, TypeOK, socketVars, threadVars
  <1>2. OpenSocketsOwned' /\ JobsOK'
    BY DEF IInv, OpenSocketsOwned, JobsOK, agentDone, socketVars
  <1>3. ThreadsOK'
    BY DEF IInv, ThreadsOK, threadVars
  <1>4. OneAtATime'
    BY DEF IInv, OneAtATime, Busy, threadVars
  <1>5. GatheringAnnounced'
    BY DEF IInv, GatheringAnnounced, threadVars
  <1>6. LoopOK'
    BY DEF IInv, LoopOK, Busy, threadVars
  <1> QED
    BY <1>1, <1>2, <1>3, <1>4, <1>5, <1>6 DEF IInv

\* The loop runs Close's function: it cancels the gathering and waits if there
\* is one.
LEMMA Step_after ==
    ASSUME IInv, after
    PROVE  IInv'
  <1> USE GatherAssumption DEF after, cancelsGathering
  <1>1. TypeOK'
    BY DEF IInv, TypeOK, socketVars, threadVars
  <1>2. OpenSocketsOwned' /\ JobsOK'
    BY DEF IInv, OpenSocketsOwned, JobsOK, agentDone, socketVars
  <1>3. ThreadsOK'
    BY DEF IInv, ThreadsOK, threadVars
  <1>4. OneAtATime'
    BY DEF IInv, OneAtATime, Busy, threadVars
  <1>5. GatheringAnnounced'
    BY DEF IInv, GatheringAnnounced, threadVars
  <1>6. LoopOK'
    BY DEF IInv, LoopOK
  <1> QED
    BY <1>1, <1>2, <1>3, <1>4, <1>5, <1>6 DEF IInv

\* The wait ends when the done channel of the gathering it waits for is closed,
\* and then no gathering is busy.
LEMMA Step_resumes ==
    ASSUME IInv, resumes
    PROVE  IInv'
  <1> USE GatherAssumption DEF resumes, gatheringAwaited
  <1>1. TypeOK'
    BY DEF IInv, TypeOK, socketVars, threadVars
  <1>2. OpenSocketsOwned' /\ JobsOK'
    BY DEF IInv, OpenSocketsOwned, JobsOK, agentDone, socketVars
  <1>3. ThreadsOK'
    BY DEF IInv, ThreadsOK, threadVars
  <1>4. OneAtATime'
    BY DEF IInv, OneAtATime, Busy, threadVars
  <1>5. GatheringAnnounced'
    BY DEF IInv, GatheringAnnounced, threadVars
  <1>6. LoopOK'
    BY DEF IInv, ThreadsOK, OneAtATime, LoopOK, Busy, threadVars
  <1> QED
    BY <1>1, <1>2, <1>3, <1>4, <1>5, <1>6 DEF IInv

\* The goroutine reads gatherCandidateDone; without racing calls it is its own.
LEMMA Step_begins ==
    ASSUME IInv, NEW g \in Gatherings, begins(g)
    PROVE  IInv'
  <1> USE GatherAssumption DEF begins
  <1>1. TypeOK'
    BY DEF IInv, TypeOK, socketVars, agentVars
  <1>2. OpenSocketsOwned' /\ JobsOK'
    BY DEF IInv, OpenSocketsOwned, JobsOK, agentDone, socketVars, agentVars
  <1>3. ThreadsOK'
    BY DEF IInv, TypeOK, ThreadsOK, agentVars
  <1>4. OneAtATime'
    BY DEF IInv, TypeOK, ThreadsOK, OneAtATime, Busy, agentVars
  <1>5. GatheringAnnounced'
    BY DEF IInv, GatheringAnnounced, agentVars
  <1>6. LoopOK'
    BY DEF IInv, LoopOK, Busy, agentVars
  <1> QED
    BY <1>1, <1>2, <1>3, <1>4, <1>5, <1>6 DEF IInv

\* The state becomes Gathering in a task, before any gatherer runs.
LEMMA Step_announces ==
    ASSUME IInv, NEW g \in Gatherings, announces(g)
    PROVE  IInv'
  <1> USE GatherAssumption DEF announces
  <1>1. TypeOK'
    BY DEF IInv, TypeOK, ThreadsOK, socketVars, threadVars, agentVars, Gatherings
  <1>2. OpenSocketsOwned' /\ JobsOK'
    BY DEF IInv, OpenSocketsOwned, JobsOK, agentDone, socketVars
  <1>3. ThreadsOK'
    BY DEF IInv, TypeOK, ThreadsOK
  <1>4. OneAtATime'
    BY DEF IInv, TypeOK, ThreadsOK, OneAtATime, Busy
  <1>5. GatheringAnnounced'
    BY DEF IInv, TypeOK, OneAtATime, GatheringAnnounced, Busy
  <1>6. LoopOK'
    BY DEF IInv, LoopOK, Busy
  <1> QED
    BY <1>1, <1>2, <1>3, <1>4, <1>5, <1>6 DEF IInv

\* The last task announces Complete when every job is finished.
LEMMA Step_completes ==
    ASSUME IInv, NEW g \in Gatherings, completes(g)
    PROVE  IInv'
  <1> USE GatherAssumption DEF completes
  <1>1. TypeOK'
    BY DEF IInv, TypeOK, socketVars, Gatherings
  <1>2. OpenSocketsOwned' /\ JobsOK'
    BY DEF IInv, OpenSocketsOwned, JobsOK, agentDone, socketVars
  <1>3. ThreadsOK'
    BY DEF IInv, TypeOK, ThreadsOK
  <1>4. OneAtATime'
    BY DEF IInv, ThreadsOK, OneAtATime, Busy
  <1>5. GatheringAnnounced'
    BY DEF IInv, TypeOK, OneAtATime, GatheringAnnounced, Busy, threadVars
  <1>6. LoopOK'
    BY DEF IInv, LoopOK, Busy
  <1> QED
    BY <1>1, <1>2, <1>3, <1>4, <1>5, <1>6 DEF IInv

\* The goroutine closes its done channel as the last thing it does.
LEMMA Step_ends ==
    ASSUME IInv, NEW g \in Gatherings, ends(g)
    PROVE  IInv'
  <1> USE GatherAssumption DEF ends
  <1>1. TypeOK'
    <2>1. doneOf[g] \in Gatherings
      BY DEF IInv, TypeOK, ThreadsOK
    <2>2. panicked' \in BOOLEAN
      <3>1. panicked' = (doneOf[g] \in closedCh)
        OBVIOUS
      <3> QED
        BY <3>1
    <2>3. gather' \in [Gatherings -> {"none", "spawned", "starting", "running", "leaving", "ended"}]
      BY DEF IInv, TypeOK
    <2> QED
      BY <2>1, <2>2, <2>3 DEF IInv, TypeOK, socketVars, agentVars
  <1>2. OpenSocketsOwned' /\ JobsOK'
    BY DEF IInv, OpenSocketsOwned, JobsOK, agentDone, socketVars, agentVars
  <1>3. ThreadsOK'
    BY DEF IInv, ThreadsOK, agentVars
  <1>4. OneAtATime'
    BY DEF IInv, TypeOK, ThreadsOK, OneAtATime, Busy, agentVars
  <1>5. GatheringAnnounced'
    BY DEF IInv, GatheringAnnounced, agentVars
  <1>6. LoopOK'
    BY DEF IInv, ThreadsOK, LoopOK, Busy, agentVars
  <1> QED
    BY <1>1, <1>2, <1>3, <1>4, <1>5, <1>6 DEF IInv

\* Restart is refused during a gathering; it closes the agent's candidates and
\* takes nothing from a job at work.
LEMMA Step_Restart ==
    ASSUME IInv, Restart
    PROVE  IInv'
  <1> USE GatherAssumption DEF Restart, restartAllowed
  <1>1. /\ localCandidates' = {} /\ open' \subseteq open
        /\ OpenSocketsOwned' /\ JobsOK'
    BY Deleting DEF IInv
  <1>2. TypeOK'
    BY <1>1 DEF IInv, TypeOK, threadVars
  <1>3. ThreadsOK' /\ OneAtATime'
    BY DEF IInv, ThreadsOK, OneAtATime, Busy, threadVars
  <1>4. GatheringAnnounced'
    BY DEF IInv, GatheringAnnounced, threadVars
  <1>5. LoopOK'
    BY DEF IInv, LoopOK, Busy, threadVars
  <1> QED
    BY <1>1, <1>2, <1>3, <1>4, <1>5 DEF IInv

\* A failure closes the agent's candidates and takes nothing from a job at
\* work.
LEMMA Step_updateToFailed ==
    ASSUME IInv, updateToFailed
    PROVE  IInv'
  <1> USE GatherAssumption DEF updateToFailed
  <1>1. /\ localCandidates' = {} /\ open' \subseteq open
        /\ OpenSocketsOwned' /\ JobsOK'
    BY Deleting DEF IInv, agentVars
  <1>2. TypeOK'
    BY <1>1 DEF IInv, TypeOK, threadVars, agentVars
  <1>3. ThreadsOK' /\ OneAtATime'
    BY DEF IInv, ThreadsOK, OneAtATime, Busy, threadVars, agentVars
  <1>4. GatheringAnnounced'
    BY DEF IInv, GatheringAnnounced, threadVars, agentVars
  <1>5. LoopOK'
    BY DEF IInv, LoopOK, Busy, threadVars, agentVars
  <1> QED
    BY <1>1, <1>2, <1>3, <1>4, <1>5 DEF IInv

\* The loop sees done closed: it closes the candidates, and runs Close's
\* function unless that has happened before.
LEMMA Step_seesDone ==
    ASSUME IInv, seesDone
    PROVE  IInv'
  <1> USE GatherAssumption DEF seesDone, cancelsGathering
  <1>1. /\ localCandidates' = {} /\ open' \subseteq open
        /\ OpenSocketsOwned' /\ JobsOK'
    BY Deleting DEF IInv
  <1>2. TypeOK'
    <2>1. CASE afterRunFn
      <3>1. cancelled' \subseteq Gatherings
        BY <2>1 DEF IInv, TypeOK
      <3>2. afterRunFn' = FALSE /\ loop' = "draining"
        BY <2>1
      <3> QED
        BY <1>1, <3>1, <3>2 DEF IInv, TypeOK, threadVars
    <2>2. CASE ~afterRunFn
      BY <1>1, <2>2 DEF IInv, TypeOK, threadVars
    <2> QED
      BY <2>1, <2>2
  <1>3. ThreadsOK' /\ OneAtATime'
    BY DEF IInv, ThreadsOK, OneAtATime, Busy, threadVars
  <1>4. GatheringAnnounced'
    BY DEF IInv, GatheringAnnounced, threadVars
  <1>5. LoopOK'
    BY DEF IInv, LoopOK, Busy, threadVars, agentDone
  <1> QED
    BY <1>1, <1>2, <1>3, <1>4, <1>5 DEF IInv

-----------------------------------------------------------------------------
\* Jobs.

\* The gatherings and the loop do not depend on what jobs do.
LEMMA OthersUntouched ==
    ASSUME IInv, UNCHANGED agentVars, UNCHANGED threadVars,
           TypeOK', OpenSocketsOwned', JobsOK'
    PROVE  IInv'
  BY DEF IInv, ThreadsOK, OneAtATime, GatheringAnnounced, LoopOK, Busy, agentVars,
     threadVars

\* The steps a gatherer is made of.
JobStep(c) ==
    \/ givesUp(c)
    \/ acquires(c, "conn", "asking")
    \/ acquires(c, "conn", "creating") /\ KindOf[c[2]] # "relay"
    \/ acquires(c, "alloc", "creating") /\ job[c] = "asking" /\ KindOf[c[2]] = "relay"
    \/ continues(c, "asked")
    \/ continues(c, "creating") /\ job[c] = "asking" /\ KindOf[c[2]] # "relay"
    \/ continues(c, "adding") /\ job[c] = "creating"
    \/ addCandidate(c) /\ job[c] = "adding"
    \/ dropped(c)

\* What the six gatherers have in common: each moves one job on, and opens and
\* closes only the resources of that job.
LEMMA GathererSteps ==
    ASSUME NEW c \in Candidates, gatherer(c)
    PROVE  /\ job[c] # "finished" /\ JobStep(c)
           /\ \/ UNCHANGED closers
              \/ closers' = closers \cup {c} /\ KindOf[c[2]] = "srflx"
           /\ UNCHANGED agentVars /\ UNCHANGED threadVars
  <1>1. CASE gatherCandidatesLocal(c) \/ gatherCandidatesLocalUDPMux(c) \/ gatherCandidatesSrflxMapped(c)
    BY <1>1 DEF gatherer, gatherCandidatesLocal, gatherCandidatesLocalUDPMux,
       gatherCandidatesSrflxMapped, fromSocket, At, JobStep
  <1>2. CASE gatherCandidatesSrflxUDPMux(c)
    BY <1>2 DEF gatherer, gatherCandidatesSrflxUDPMux, At, JobStep
  <1>3. CASE gatherCandidatesSrflx(c)
    BY <1>3 DEF gatherer, gatherCandidatesSrflx, At, JobStep
  <1>4. CASE gatherCandidatesRelay(c)
    BY <1>4 DEF gatherer, gatherCandidatesRelay, At, JobStep, releaseRelay
  <1> QED
    BY <1>1, <1>2, <1>3, <1>4 DEF gatherer

\* A gatherer that gives up has closed what it opened, and one that goes on
\* holds what it needs.
LEMMA Step_gatherer ==
    ASSUME IInv, NEW c \in Candidates, gatherer(c)
    PROVE  IInv'
  <1>1. /\ job[c] # "finished" /\ JobStep(c)
        /\ UNCHANGED closers \/ (closers' = closers \cup {c} /\ KindOf[c[2]] = "srflx")
        /\ UNCHANGED agentVars /\ UNCHANGED threadVars
    BY GathererSteps
  <1>2. c \notin localCandidates
    BY <1>1 DEF IInv, JobsOK
  <1>3. \E pc \in {"asked", "asking", "creating", "adding", "finished"} : goesTo(c, pc)
    BY <1>1 DEF JobStep, givesUp, acquires, continues, addCandidate, dropped
  <1>4. job' \in [Candidates -> {"idle", "asked", "asking", "creating", "adding", "finished"}]
    BY <1>3 DEF IInv, TypeOK, goesTo
  <1>5. TypeOK'
    <2>1. open' \subseteq Candidates \X {"conn", "alloc"}
      BY <1>1 DEF IInv, TypeOK, JobStep, givesUp, acquires, continues, addCandidate,
         dropped
    <2>2. \A r \in open' : r[2] = "alloc" => KindOf[r[1][2]] = "relay"
      BY <1>1 DEF IInv, TypeOK, JobStep, givesUp, acquires, continues, addCandidate,
         dropped
    <2>3. localCandidates' \subseteq Candidates /\ turnedAway' \subseteq Candidates
      BY <1>1 DEF IInv, TypeOK, JobStep, givesUp, acquires, continues, addCandidate,
         dropped
    <2> QED
      BY <1>1, <1>4, <2>1, <2>2, <2>3 DEF IInv, TypeOK, agentVars, threadVars
  <1>6. OpenSocketsOwned'
    BY <1>1, <1>2 DEF IInv, TypeOK, OpenSocketsOwned, JobStep, Resources, goesTo,
       givesUp, acquires, continues, addCandidate, dropped
  <1>7. JobsOK'
    BY <1>1, <1>2 DEF IInv, TypeOK, JobsOK, JobStep, Resources, goesTo, agentDone,
       agentVars, givesUp, acquires, continues, addCandidate, dropped
  <1> QED
    BY <1>1, <1>5, <1>6, <1>7, OthersUntouched

\* The goroutine that closes a srflx socket acts only when the agent is closed.
LEMMA Step_closer ==
    ASSUME IInv, NEW c \in Candidates, closer(c)
    PROVE  IInv'
  <1>1. TypeOK'
    BY DEF closer, IInv, TypeOK, agentVars, threadVars
  <1>2. OpenSocketsOwned' /\ JobsOK'
    BY DEF closer, closerFires, agentDone, IInv, OpenSocketsOwned, JobsOK, agentVars
  <1> QED
    BY <1>1, <1>2, OthersUntouched DEF closer

-----------------------------------------------------------------------------
\* Every reachable state satisfies the inductive invariant.
THEOREM Invariance == Spec => []IInv
  <1>1. Init => IInv
    BY GatherAssumption DEF Init, IInv, TypeOK, OpenSocketsOwned, JobsOK, ThreadsOK,
       OneAtATime, GatheringAnnounced, LoopOK, Busy
  <1>2. IInv /\ [Next]_vars => IInv'
    <2> SUFFICES ASSUME IInv, [Next]_vars PROVE IInv'
      OBVIOUS
    <2>1. CASE UNCHANGED vars
      <3>1. TypeOK' /\ OpenSocketsOwned' /\ JobsOK'
        BY <2>1 DEF vars, IInv, TypeOK, OpenSocketsOwned, JobsOK, agentDone
      <3> QED
        BY <2>1, <3>1, OthersUntouched DEF vars, agentVars, threadVars
    <2>2. CASE Next
      <3>1. Planned \subseteq Candidates
        BY GatherAssumption DEF IInv, TypeOK, Planned, Candidates
      <3> QED
        BY <2>2, <3>1, Step_GatherCandidates, Step_Restart, Step_updateToFailed,
           Step_closeBegins, Step_closesDone, Step_after, Step_seesDone, Step_resumes,
           Step_begins, Step_announces, Step_completes, Step_ends, Step_gatherer,
           Step_closer DEF Next, Shutdown, Thread
    <2> QED
      BY <2>1, <2>2
  <1> QED
    BY <1>1, <1>2, PTL DEF Spec

\* Types of the sockets, the gatherers and the gathering state.
THEOREM TypeCorrect == Spec => []TypeOK
  <1>1. IInv => TypeOK
    BY DEF IInv
  <1> QED
    BY <1>1, Invariance, PTL

\* Whatever fails in a gatherer and whenever Restart, failure and Close come in
\* between, an open socket has somebody who will close it: none is lost on an
\* error path.
THEOREM SocketsOwned == Spec => []OpenSocketsOwned
  <1>1. IInv => OpenSocketsOwned
    BY DEF IInv
  <1> QED
    BY <1>1, Invariance, PTL

\* No socket is closed under a candidate the agent uses.
THEOREM SocketsInUse == Spec => []ListedOpen
  <1>1. IInv => ListedOpen
    BY DEF IInv, TypeOK, JobsOK, ListedOpen
  <1> QED
    BY <1>1, Invariance, PTL

\* A gathering at work is announced by the gathering state.
THEOREM GatheringVisible == Spec => []GatheringAnnounced
  <1>1. IInv => GatheringAnnounced
    BY DEF IInv
  <1> QED
    BY <1>1, Invariance, PTL

\* Close does not return before the gathering it found has ended.
THEOREM CloseAwaitsGathering == Spec => []CloseJoinsGathering
  <1>1. IInv => CloseJoinsGathering
    BY DEF IInv, LoopOK, CloseJoinsGathering
  <1> QED
    BY <1>1, Invariance, PTL
\* Every step of the goroutines is a step of the cycle or does not concern it,
\* unless a call of GatherCandidates has raced with another or with Close.
THEOREM CycleFollowed == Spec => FollowsCycle
  <1>1. IInv /\ [Next]_vars => [raced \/ Cycle!Next]_(Cycle!cycle)
    <2> SUFFICES ASSUME IInv, Next, ~raced, ~UNCHANGED Cycle!cycle PROVE Cycle!Next
      BY DEF vars, Cycle!cycle
    <2>0. ~(UNCHANGED <<gatheringState, localCandidates>>)
      BY DEF Cycle!cycle
    <2>1. CASE Restart
      BY <2>1 DEF Restart, restartAllowed, deleteAllCandidates, Cycle!Next, Cycle!Restart
    <2>2. CASE updateToFailed \/ seesDone
      BY <2>2 DEF updateToFailed, seesDone, deleteAllCandidates, agentVars, Cycle!Next,
         Cycle!Release
    <2>3. CASE GatherCandidates \/ closeBegins \/ closesDone \/ after \/ resumes
      BY <2>0, <2>3 DEF GatherCandidates, closeBegins, closesDone, after, resumes, socketVars
    <2>4. ASSUME NEW g \in Gatherings, Thread(g) PROVE Cycle!Next
      <3>1. CASE announces(g)
        BY <2>0, <3>1 DEF announces, socketVars, IInv, GatheringAnnounced, Cycle!Next,
           Cycle!Begin
      <3>2. CASE completes(g)
        BY <2>0, <3>2 DEF completes, socketVars, IInv, GatheringAnnounced, Cycle!Next,
           Cycle!Complete
      <3>3. CASE begins(g) \/ ends(g)
        BY <2>0, <3>3 DEF begins, ends, agentVars, socketVars
      <3> QED
        BY <2>4, <3>1, <3>2, <3>3 DEF Thread
    <2>5. ASSUME NEW c \in Candidates, gatherer(c) PROVE Cycle!Next
      <3>1. gather[c[1]] = "running" /\ c[1] \in Gatherings
        BY <2>5 DEF gatherer, gatherCandidatesLocal, gatherCandidatesLocalUDPMux,
           gatherCandidatesSrflxMapped, gatherCandidatesSrflxUDPMux, gatherCandidatesSrflx,
           gatherCandidatesRelay, fromSocket, At, Candidates
      <3>2. localCandidates' = localCandidates \cup {c} /\ UNCHANGED gatheringState
        BY <2>0, <2>5, GathererSteps DEF JobStep, givesUp, acquires, continues,
           addCandidate, dropped, agentVars
      <3> QED
        BY <3>1, <3>2 DEF IInv, GatheringAnnounced, Cycle!Next, Cycle!Offer
    <2>6. ASSUME NEW c \in Candidates, closer(c) PROVE FALSE
      BY <2>0, <2>6 DEF closer, agentVars
    <2>7. Planned \subseteq Candidates
      BY GatherAssumption DEF IInv, TypeOK, Planned, Candidates
    <2> QED
      BY <2>1, <2>2, <2>3, <2>4, <2>5, <2>6, <2>7 DEF Next, Shutdown
  <1> QED
    BY <1>1, Invariance, PTL DEF Spec, FollowsCycle
-----------------------------------------------------------------------------
\* Close and gathering do not wait for each other.

\* The gathering that Close waits for closes the channel Close waits on, also if
\* calls have raced.
CurrentOK ==
    /\ loop # "serving" => closing # "no"
    /\ current # 0 =>
        /\ gather[current] # "none"
        /\ gather[current] \notin {"none", "spawned"} => doneOf[current] = current
        /\ gather[current] = "ended" => current \in closedCh

\* The goroutine of g or one of its jobs can go on; a job that adds a candidate
\* and the tasks that announce a state wait for the loop or for a context.
canGoOn(g) ==
    \/ gather[g] \in {"spawned", "leaving"}
    \/ gather[g] = "starting" /\ (accepted \/ agentDone)
    \/ gather[g] = "running" /\ jobsDone(g) /\ (accepted \/ agentDone)
    \/ /\ gather[g] = "running"
       /\ \E j \in plan : /\ job[<<g, j>>] # "finished"
                         /\ job[<<g, j>>] = "adding" => accepted \/ refused(g)

\* While the loop waits for gathering and so takes no task, the wait is over,
\* Close has still to close done, or the gathering can go on.
WaitEnds ==
    loop \in {"waiting", "draining"} =>
        gatheringAwaited \/ closing = "registered" \/ canGoOn(current)

\* The task loop and the gathering it waits for never wait for each other, even if
\* GatherCandidates raced with another call or with Close.
THEOREM NoDeadlock == Spec => []WaitEnds
  <1>1. Init => CurrentOK
    BY DEF Init, CurrentOK
  <1>2. IInv /\ CurrentOK /\ [Next]_vars => CurrentOK'
    <2> SUFFICES ASSUME IInv, CurrentOK, [Next]_vars PROVE CurrentOK'
      OBVIOUS
    <2> USE DEF CurrentOK
    <2>1. CASE GatherCandidates
      <3>1. PICK g \in Gatherings : current' = g /\ gather' = [gather EXCEPT ![g] = "spawned"]
        BY <2>1 DEF GatherCandidates
      <3>2. gather'[current'] = "spawned"
        BY <3>1 DEF IInv, TypeOK
      <3> QED
        BY <2>1, <3>2 DEF GatherCandidates
    <2>2. CASE \/ Restart \/ updateToFailed \/ closeBegins \/ Shutdown
               \/ \E c \in Planned : gatherer(c) \/ closer(c)
               \/ UNCHANGED vars
      <3>1. UNCHANGED <<current, gather, doneOf, closedCh>>
        BY <2>2 DEF Restart, updateToFailed, closeBegins, Shutdown, closesDone, after, seesDone,
           resumes, gatherer, closer, agentVars, threadVars, vars
      <3>2. loop' # "serving" => closing' # "no"
        BY <2>2 DEF Restart, updateToFailed, closeBegins, Shutdown, closesDone, after, seesDone,
           resumes, gatherer, closer, agentVars, vars, agentDone, IInv, LoopOK
      <3> QED
        BY <3>1, <3>2
    <2>3. ASSUME NEW g \in Gatherings, Thread(g) PROVE CurrentOK'
      <3>1. UNCHANGED <<current, loop, closing>>
        BY <2>3 DEF Thread, begins, announces, completes, ends, agentVars
      <3>2. current # 0 => current \in Gatherings
        BY DEF IInv, TypeOK
      <3> QED
        BY <2>3, <3>1, <3>2 DEF Thread, begins, announces, completes, ends, IInv, TypeOK
    <2> QED
      BY <2>1, <2>2, <2>3 DEF Next
  <1>3. IInv /\ CurrentOK => WaitEnds
    <2> SUFFICES ASSUME IInv, CurrentOK, loop \in {"waiting", "draining"}, current # 0,
                        current \notin closedCh, closing # "registered"
                 PROVE  canGoOn(current)
      BY DEF WaitEnds, gatheringAwaited
    <2>1. agentDone /\ refused(current)
      BY DEF CurrentOK, agentDone, refused, IInv, TypeOK
    <2>2. gather[current] \in {"spawned", "starting", "running", "leaving"}
      BY DEF CurrentOK, IInv, TypeOK
    <2> QED
      BY <2>1, <2>2 DEF canGoOn, jobsDone
  <1> QED
    BY <1>1, <1>2, <1>3, Invariance, PTL DEF Spec
=============================================================================
