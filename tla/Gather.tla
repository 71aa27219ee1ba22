------------------------------- MODULE Gather -------------------------------
(***************************************************************************)
(* Gathering local candidates: the goroutine GatherCandidates starts, the  *)
(* gatherers it starts in turn, the sockets they open and hand over, and   *)
(* Restart, failure and Close in between.                                  *)
(*                                                                         *)
(* A job is what one gatherer does for one socket: an interface address, a *)
(* network type or a server.  Candidate <<g, j>> is what job j of          *)
(* gathering g makes.  Tasks of the agent are steps that need a serving    *)
(* task loop; TaskLoop models how they get there.                          *)
(***************************************************************************)
EXTENDS Integers, FiniteSets

CONSTANTS
    Jobs,       \* what an agent can be configured to gather
    KindOf,     \* the gatherer that does a job
    Plans,      \* configurations: the jobs of one agent
    MaxGather,  \* bound on the accepted calls of GatherCandidates
    MaxJobs     \* bound on the jobs of all gatherings together

Kinds == {"host", "hostMux", "srflxMapped", "srflxMux", "srflx", "relay"}

ASSUME GatherAssumption ==
    /\ KindOf \in [Jobs -> Kinds]
    /\ Plans \subseteq SUBSET Jobs
    /\ MaxGather \in Nat
    /\ MaxJobs \in Nat

Gatherings == 1..MaxGather

Candidates == Gatherings \X Jobs

VARIABLES
    plan,           \* the agent's configuration
    gatheringState,
    current,        \* owner of gatherCandidateCancel and gatherCandidateDone, 0 for none
    cancelled,      \* gatherings whose context is cancelled
    gather,         \* where the goroutine of each gathering is
    doneOf,         \* the channel it will close
    closedCh,       \* the done channels that are closed
    job,            \* where each job is
    open,           \* open sockets ("conn") and TURN allocations ("alloc")
    closers,        \* candidates whose socket a goroutine closes with the agent
    localCandidates,
    turnedAway,     \* candidates addCandidate refused or found to be duplicates
    loop,           \* the task loop
    closing,        \* the progress of Close
    afterRunFn,     \* Close's function is registered and has not run
    raced,          \* GatherCandidates met an unannounced gathering or a Close
    panicked        \* a channel was closed twice

vars == <<plan, gatheringState, current, cancelled, gather, doneOf, closedCh, job, open,
          closers, localCandidates, turnedAway, loop, closing, afterRunFn, raced, panicked>>

agentVars == <<plan, gatheringState, current, cancelled, loop, closing, afterRunFn, raced>>
threadVars == <<gather, doneOf, closedCh, panicked>>
socketVars == <<job, open, closers, localCandidates, turnedAway>>

Resources(c) == {<<c, "conn">>, <<c, "alloc">>}

ResourcesOf(C) == UNION {Resources(c) : c \in C}

Init ==
    /\ plan \in Plans
    /\ gatheringState = "New"
    /\ current = 0
    /\ cancelled = {}
    /\ gather = [g \in Gatherings |-> "none"]
    /\ doneOf = [g \in Gatherings |-> 0]
    /\ closedCh = {}
    /\ job = [c \in Candidates |-> "idle"]
    /\ open = {}
    /\ closers = {}
    /\ localCandidates = {}
    /\ turnedAway = {}
    /\ loop = "serving"
    /\ closing = "no"
    /\ afterRunFn = FALSE
    /\ raced = FALSE
    /\ panicked = FALSE

\* The loop takes the task of a run.
accepted == loop = "serving"

\* The agent's context is done.
agentDone == closing = "closed"

\* A run with the context of gathering g may return an error.  A task that
\* waits for a serving loop may still be taken.
refused(g) == agentDone \/ g \in cancelled

-----------------------------------------------------------------------------
(* The API.  Calls that only return an error change nothing and are left   *)
(* out.                                                                    *)

Busy(g) == gather[g] \in {"spawned", "starting", "running"}

\* The call replaces the cancel function and the done channel at once, but
\* gatheringState is still New until the goroutine has run its first task.
GatherCandidates ==
    /\ accepted
    /\ gatheringState = "New"
    /\ \E g \in Gatherings :
        /\ gather[g] = "none"
        /\ g * Cardinality(plan) =< MaxJobs
        /\ \A h \in 1..(g - 1) : gather[h] # "none"
        /\ gather' = [gather EXCEPT ![g] = "spawned"]
        /\ current' = g
    /\ cancelled' = cancelled \cup ({current} \ {0})
    /\ raced' = (raced \/ closing # "no" \/ \E g \in Gatherings : Busy(g))
    /\ UNCHANGED <<plan, gatheringState, loop, closing, afterRunFn, doneOf, closedCh, panicked>>
    /\ UNCHANGED socketVars

\* Closing a candidate closes its socket; a relay candidate's onClose also
\* closes the socket to the TURN server.
deleteAllCandidates ==
    /\ localCandidates' = {}
    /\ open' = open \ ResourcesOf(localCandidates)

restartAllowed_Mut == TRUE

restartAllowed == gatheringState # "Gathering"

Restart ==
    /\ accepted
    /\ restartAllowed
    /\ gatheringState' = "New"
    /\ deleteAllCandidates
    /\ UNCHANGED <<plan, current, cancelled, loop, closing, afterRunFn, raced>>
    /\ UNCHANGED <<job, closers, turnedAway>>
    /\ UNCHANGED threadVars

\* updateConnectionState(ConnectionStateFailed), in any task.
updateToFailed ==
    /\ accepted
    /\ deleteAllCandidates
    /\ UNCHANGED <<job, closers, turnedAway>>
    /\ UNCHANGED agentVars
    /\ UNCHANGED threadVars

-----------------------------------------------------------------------------
(* Close and the end of the task loop.                                     *)

\* Close registers the function that cancels and awaits the gathering.
closeBegins ==
    /\ closing = "no"
    /\ closing' = "registered"
    /\ afterRunFn' = TRUE
    /\ UNCHANGED <<plan, gatheringState, current, cancelled, loop, raced>>
    /\ UNCHANGED threadVars
    /\ UNCHANGED socketVars

closesDone ==
    /\ closing = "registered"
    /\ closing' = "closed"
    /\ UNCHANGED <<plan, gatheringState, current, cancelled, loop, afterRunFn, raced>>
    /\ UNCHANGED threadVars
    /\ UNCHANGED socketVars

cancelsGathering_Mut == afterRunFn' = FALSE /\ cancelled' = cancelled \cup {current}

\* The registered function, which the loop runs after any task, or at its end.
cancelsGathering ==
    /\ afterRunFn' = FALSE
    /\ cancelled' = cancelled \cup ({current} \ {0})

after ==
    /\ loop = "serving"
    /\ afterRunFn
    /\ cancelsGathering
    /\ loop' = "waiting"
    /\ UNCHANGED <<plan, gatheringState, current, closing, raced>>
    /\ UNCHANGED threadVars
    /\ UNCHANGED socketVars

\* The loop leaves without waiting if the function has run before.
seesDone ==
    /\ loop = "serving"
    /\ agentDone
    /\ deleteAllCandidates
    /\ IF afterRunFn
       THEN cancelsGathering /\ loop' = "draining"
       ELSE loop' = "finished" /\ UNCHANGED <<cancelled, afterRunFn>>
    /\ UNCHANGED <<plan, gatheringState, current, closing, raced, job, closers, turnedAway>>
    /\ UNCHANGED threadVars

gatheringAwaited_Mut == TRUE

\* gatherCandidateDone is nil or closed.
gatheringAwaited == current = 0 \/ current \in closedCh

resumes ==
    /\ loop \in {"waiting", "draining"}
    /\ gatheringAwaited
    /\ loop' = IF loop = "waiting" THEN "serving" ELSE "finished"
    /\ UNCHANGED <<plan, gatheringState, current, cancelled, closing, afterRunFn, raced>>
    /\ UNCHANGED threadVars
    /\ UNCHANGED socketVars

-----------------------------------------------------------------------------
(* The goroutine of a gathering.                                           *)

\* The deferred close evaluates its argument first: the channel that is
\* current when the goroutine is scheduled.
begins(g) ==
    /\ gather[g] = "spawned"
    /\ gather' = [gather EXCEPT ![g] = "starting"]
    /\ doneOf' = [doneOf EXCEPT ![g] = current]
    /\ UNCHANGED <<closedCh, panicked>>
    /\ UNCHANGED agentVars
    /\ UNCHANGED socketVars

announces_Mut(g) ==
    /\ gather[g] = "starting"
    /\ accepted
    /\ gatheringState' = "Gathering"
    /\ gather' = [gather EXCEPT ![g] = "running"]
    /\ UNCHANGED <<plan, current, cancelled, loop, closing, afterRunFn, raced>>
    /\ UNCHANGED <<doneOf, closedCh, panicked>>
    /\ UNCHANGED socketVars

\* setGatheringState(GatheringStateGathering), which waits for the agent's
\* context and not for the gathering's.
announces(g) ==
    /\ gather[g] = "starting"
    /\ \/ accepted /\ gatheringState' = "Gathering" /\ gather' = [gather EXCEPT ![g] = "running"]
       \/ agentDone /\ gather' = [gather EXCEPT ![g] = "leaving"] /\ UNCHANGED gatheringState
    /\ UNCHANGED <<plan, current, cancelled, loop, closing, afterRunFn, raced>>
    /\ UNCHANGED <<doneOf, closedCh, panicked>>
    /\ UNCHANGED socketVars

jobsDone(g) == \A j \in plan : job[<<g, j>>] = "finished"

completes_Mut(g) ==
    /\ gather[g] = "running"
    /\ jobsDone(g)
    /\ accepted
    /\ gatheringState' = "Complete"
    /\ gather' = [gather EXCEPT ![g] = "leaving"]
    /\ UNCHANGED <<plan, current, cancelled, loop, closing, afterRunFn, raced>>
    /\ UNCHANGED <<doneOf, closedCh, panicked>>
    /\ UNCHANGED socketVars

\* setGatheringState(GatheringStateComplete), after wg.Wait.
completes(g) ==
    /\ gather[g] = "running"
    /\ jobsDone(g)
    /\ \/ accepted /\ gatheringState' = "Complete"
       \/ agentDone /\ UNCHANGED gatheringState
    /\ gather' = [gather EXCEPT ![g] = "leaving"]
    /\ UNCHANGED <<plan, current, cancelled, loop, closing, afterRunFn, raced>>
    /\ UNCHANGED <<doneOf, closedCh, panicked>>
    /\ UNCHANGED socketVars

\* close(a.gatherCandidateDone); closing a closed channel panics.
ends(g) ==
    /\ gather[g] = "leaving"
    /\ gather' = [gather EXCEPT ![g] = "ended"]
    /\ closedCh' = closedCh \cup {doneOf[g]}
    /\ panicked' = (doneOf[g] \in closedCh)
    /\ UNCHANGED doneOf
    /\ UNCHANGED agentVars
    /\ UNCHANGED socketVars

-----------------------------------------------------------------------------
(* The steps of a job.                                                     *)

At(c, k, pc) == gather[c[1]] = "running" /\ KindOf[c[2]] = k /\ job[c] = pc

goesTo(c, pc) == job' = [job EXCEPT ![c] = pc]

\* The job opens a resource and goes on, or gives up with what it has closed.
acquires(c, res, pc) ==
    /\ goesTo(c, pc)
    /\ open' = open \cup {<<c, res>>}
    /\ UNCHANGED <<localCandidates, turnedAway>>

givesUp_Mut(c) ==
    /\ goesTo(c, "finished")
    /\ open' = open \ {<<c, "conn">>}
    /\ UNCHANGED <<localCandidates, turnedAway>>

givesUp(c) ==
    /\ goesTo(c, "finished")
    /\ open' = open \ Resources(c)
    /\ UNCHANGED <<localCandidates, turnedAway>>

continues(c, pc) == goesTo(c, pc) /\ UNCHANGED <<open, localCandidates, turnedAway>>

\* A NAT maps the one socket of the universal mux to one address, whichever
\* server is asked, so the candidates of two servers are Equal.
isDuplicate(c) ==
    \E d \in localCandidates : d # c /\ KindOf[c[2]] = "srflxMux" /\ KindOf[d[2]] = "srflxMux"

\* A duplicate is closed, but the socket is unknown to a candidate that was not
\* started and stays open.
addCandidate(c) ==
    /\ accepted
    /\ goesTo(c, "finished")
    /\ IF isDuplicate(c)
       THEN turnedAway' = turnedAway \cup {c} /\ UNCHANGED localCandidates
       ELSE localCandidates' = localCandidates \cup {c} /\ UNCHANGED turnedAway
    /\ UNCHANGED open

\* run returned an error: close does nothing for a candidate that was never
\* started.
dropped(c) ==
    /\ refused(c[1])
    /\ goesTo(c, "finished")
    /\ turnedAway' = turnedAway \cup {c}
    /\ UNCHANGED <<open, localCandidates>>

\* The same for a relay candidate: relayConnClose, and onClose.
releaseRelay(c) == refused(c[1]) /\ givesUp(c)

\* Open a socket, make a candidate of it, offer it.
fromSocket(c, k) ==
    \/ At(c, k, "idle") /\ (givesUp(c) \/ acquires(c, "conn", "creating"))
    \/ At(c, k, "creating") /\ (givesUp(c) \/ continues(c, "adding"))
    \/ At(c, k, "adding") /\ (addCandidate(c) \/ dropped(c))

gatherCandidatesLocal(c) == fromSocket(c, "host") /\ UNCHANGED closers

gatherCandidatesLocalUDPMux(c) == fromSocket(c, "hostMux") /\ UNCHANGED closers

gatherCandidatesSrflxMapped(c) == fromSocket(c, "srflxMapped") /\ UNCHANGED closers

\* The server is asked before the connection is taken from the mux.
gatherCandidatesSrflxUDPMux(c) ==
    /\ \/ At(c, "srflxMux", "idle") /\ (givesUp(c) \/ continues(c, "asked"))
       \/ At(c, "srflxMux", "asked") /\ (givesUp(c) \/ acquires(c, "conn", "creating"))
       \/ At(c, "srflxMux", "creating") /\ (givesUp(c) \/ continues(c, "adding"))
       \/ At(c, "srflxMux", "adding") /\ (addCandidate(c) \/ dropped(c))
    /\ UNCHANGED closers

\* The socket gets a goroutine that closes it when the agent is closed.
gatherCandidatesSrflx(c) ==
    \/ /\ At(c, "srflx", "idle")
       /\ \/ givesUp(c) /\ UNCHANGED closers
          \/ acquires(c, "conn", "asking") /\ closers' = closers \cup {c}
    \/ /\ \/ At(c, "srflx", "asking") /\ (givesUp(c) \/ continues(c, "creating"))
          \/ At(c, "srflx", "creating") /\ (givesUp(c) \/ continues(c, "adding"))
          \/ At(c, "srflx", "adding") /\ (addCandidate(c) \/ dropped(c))
       /\ UNCHANGED closers

gatherCandidatesRelay(c) ==
    /\ \/ At(c, "relay", "idle") /\ (givesUp(c) \/ acquires(c, "conn", "asking"))
       \/ At(c, "relay", "asking") /\ (givesUp(c) \/ acquires(c, "alloc", "creating"))
       \/ At(c, "relay", "creating") /\ (givesUp(c) \/ continues(c, "adding"))
       \/ At(c, "relay", "adding") /\ (addCandidate(c) \/ releaseRelay(c))
    /\ UNCHANGED closers

gatherer(c) ==
    /\ \/ gatherCandidatesLocal(c)
       \/ gatherCandidatesLocalUDPMux(c)
       \/ gatherCandidatesSrflxMapped(c)
       \/ gatherCandidatesSrflxUDPMux(c)
       \/ gatherCandidatesSrflx(c)
       \/ gatherCandidatesRelay(c)
    /\ UNCHANGED agentVars
    /\ UNCHANGED threadVars

closerFires_Mut(c) == job[c] = "finished" \/ c[1] \in cancelled \/ agentDone

\* a.done in the select of the goroutine.
closerFires(c) == agentDone

\* The goroutine ends with the job, with the gathering's context, or by closing
\* the socket; with several of these ready, select takes any.
closer(c) ==
    /\ c \in closers
    /\ closers' = closers \ {c}
    /\ \/ closerFires(c) /\ open' = open \ {<<c, "conn">>}
       \/ (job[c] = "finished" \/ refused(c[1])) /\ UNCHANGED open
    /\ UNCHANGED <<job, localCandidates, turnedAway>>
    /\ UNCHANGED agentVars
    /\ UNCHANGED threadVars

-----------------------------------------------------------------------------
\* What this agent's gatherings make.
Planned == Gatherings \X plan

Thread(g) == begins(g) \/ announces(g) \/ completes(g) \/ ends(g)

Shutdown == closesDone \/ after \/ seesDone \/ resumes

\* A panic ends the program.
alive == ~panicked

Next ==
    \/ alive /\ GatherCandidates
    \/ alive /\ Restart
    \/ alive /\ updateToFailed
    \/ alive /\ closeBegins
    \/ alive /\ Shutdown
    \/ \E g \in Gatherings : alive /\ Thread(g)
    \/ \E c \in Planned : alive /\ gatherer(c)
    \/ \E c \in Planned : alive /\ closer(c)

Spec == Init /\ [][Next]_vars

\* Goroutines that can go on do: every exchange with a server ends or times
\* out, and Close once called runs on.  No call has to be made.  Each goroutine
\* takes finitely many steps, so none can starve another.
FairSpec ==
    /\ Spec
    /\ WF_vars(alive /\ Shutdown)
    /\ WF_vars(alive /\ \E g \in Gatherings : Thread(g))
    /\ WF_vars(alive /\ \E c \in Planned : gatherer(c) \/ closer(c))

-----------------------------------------------------------------------------
\* Types; only srflx sockets have a closing goroutine and only relay candidates
\* an allocation.
TypeOK ==
    /\ plan \in Plans
    /\ gatheringState \in {"New", "Gathering", "Complete"}
    /\ current \in Gatherings \cup {0}
    /\ cancelled \subseteq Gatherings
    /\ gather \in [Gatherings -> {"none", "spawned", "starting", "running", "leaving", "ended"}]
    /\ doneOf \in [Gatherings -> Gatherings \cup {0}]
    /\ closedCh \subseteq Gatherings
    /\ job \in [Candidates -> {"idle", "asked", "asking", "creating", "adding", "finished"}]
    /\ open \subseteq Candidates \X {"conn", "alloc"}
    /\ \A r \in open : r[2] = "alloc" => KindOf[r[1][2]] = "relay"
    /\ closers \subseteq {c \in Candidates : KindOf[c[2]] = "srflx"}
    /\ localCandidates \subseteq Candidates
    /\ turnedAway \subseteq Candidates
    /\ loop \in {"serving", "waiting", "draining", "finished"}
    /\ closing \in {"no", "registered", "closed"}
    /\ {afterRunFn, raced, panicked} \subseteq BOOLEAN

\* Every error path of the gatherers releases what was opened: an open socket
\* or allocation belongs to a gatherer that is still at work or to a candidate
\* of the agent, or addCandidate turned its candidate away.
OpenSocketsOwned ==
    \A r \in open : job[r[1]] # "finished" \/ r[1] \in localCandidates \cup turnedAway

\* The goroutine that closes a srflx socket when the agent closes never takes
\* the socket of a candidate the agent still uses: until Close closes a.done
\* every local candidate has its socket, and a relay its allocation.
ListedOpen ==
    ~agentDone => \A c \in localCandidates :
        <<c, "conn">> \in open /\ (KindOf[c[2]] = "relay" => <<c, "alloc">> \in open)

Cycle == INSTANCE GatheringCycle WITH state <- gatheringState, candidates <- localCandidates

\* Whatever its goroutines do, the agent goes from one gathering to the next in
\* order: candidates are added while the state is Gathering and at no other time,
\* and Restart never deletes them under a gathering.  (Not if GatherCandidates was
\* called again before the first call's goroutine had announced itself.)
FollowsCycle == [][raced \/ Cycle!Next]_(Cycle!cycle)

\* When Close returns, no gatherer is at work or still to come: the loop waited
\* for the done channel.  (Not if GatherCandidates raced with Close.)
CloseJoinsGathering == loop = "finished" /\ ~raced => \A g \in Gatherings : ~Busy(g)

\* Every accepted GatherCandidates comes to an end, also when the agent is closed
\* while the loop waits for it and takes no tasks.
GatherEnds ==
    \A g \in Gatherings : gather[g] = "spawned" ~> gather[g] = "ended" \/ panicked

\* Close returns in every state of a gathering.
CloseCompletes == closing = "registered" ~> loop = "finished" \/ panicked
=============================================================================
