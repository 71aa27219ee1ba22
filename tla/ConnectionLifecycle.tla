------------------------- MODULE ConnectionLifecycle -------------------------
(***************************************************************************)
(* What an agent promises the application that watches its connection      *)
(* state: which state may follow which, and that states and selected paths *)
(* go together.  IceAgent implements it.                                   *)
(***************************************************************************)
EXTENDS Naturals

VARIABLES
    state,      \* the ConnectionState last announced
    paths,      \* how many candidate pairs are selected
    connected   \* Dial or Accept may return

lifecycle == <<state, paths, connected>>

Init == state = "New" /\ paths = 0 /\ connected = FALSE

Start ==
    /\ state = "New"
    /\ state' = "Checking"
    /\ UNCHANGED <<paths, connected>>

\* Another path is selected: this is the only way to become Connected from
\* Checking, and the only way back from Failed without a Restart.
Select ==
    /\ state \in {"Checking", "Connected", "Disconnected", "Failed"}
    /\ state' = "Connected"
    /\ paths' = paths + 1
    /\ connected' = TRUE

\* The selected paths are judged by the packets that arrive on them.
Judge ==
    /\ state \in {"Connected", "Disconnected"} /\ paths > 0
    /\ state' \in {"Connected", "Disconnected", "Failed"}
    /\ UNCHANGED <<paths, connected>>

GiveUp ==
    /\ state = "Checking"
    /\ state' = "Failed"
    /\ UNCHANGED <<paths, connected>>

Restart ==
    /\ state \notin {"New", "Closed"}
    /\ state' = "Checking"
    /\ paths' = 0
    /\ UNCHANGED connected

Close ==
    /\ state # "Closed"
    /\ state' = "Closed"
    /\ UNCHANGED <<paths, connected>>

Next == Start \/ Select \/ Judge \/ GiveUp \/ Restart \/ Close

Spec == Init /\ [][Next]_lifecycle
==============================================================================
