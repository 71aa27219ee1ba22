--------------------------- MODULE GatheringCycle ---------------------------
(***************************************************************************)
(* What the tasks of the agent rely on: local candidates are offered one   *)
(* by one, in a gathering that is announced, and the agent does not start  *)
(* over under it.  IceAgent takes this for granted; Gather shows that the  *)
(* goroutines that gather keep to it.                                      *)
(***************************************************************************)

VARIABLES
    state,          \* the GatheringState last announced
    candidates      \* local candidates of the agent

cycle == <<state, candidates>>

Init == state = "New" /\ candidates = {}

Begin ==
    /\ state = "New"
    /\ state' = "Gathering"
    /\ UNCHANGED candidates

Offer ==
    /\ state = "Gathering"
    /\ \E c \in candidates' : candidates' = candidates \cup {c}
    /\ UNCHANGED state

Complete ==
    /\ state = "Gathering"
    /\ state' = "Complete"
    /\ UNCHANGED candidates

Restart ==
    /\ state # "Gathering"
    /\ state' = "New"
    /\ candidates' = {}

\* The connection fails or the agent is closed, at any moment.
Release ==
    /\ candidates' = {}
    /\ UNCHANGED state

Next == Begin \/ Offer \/ Complete \/ Restart \/ Release

Spec == Init /\ [][Next]_cycle
=============================================================================
