------------------------------ MODULE MCTCPMux ------------------------------
EXTENDS TCPMux, TLC

CONSTANTS u1, u2, c1, c2, c3, x1, x2

MCAddrOf == c1 :> x1 @@ c2 :> x2 @@ c3 :> x1

A4 == <<u1, "ip4">>
A6 == <<u1, "ip6">>
B4 == <<u2, "ip4">>

\* Two peers for one ufrag; two connections from one address; a ufrag used again
\* after a restart that keeps it; both families of a ufrag; and two ufrags.  A
\* peer makes the packet conn of its ufrag if the agent does not.
MCPlans ==
    {[slots |-> {A4}, conns |-> {c1, c2}, gets |-> 1, removes |-> 0],
     [slots |-> {A4}, conns |-> {c1, c3}, gets |-> 0, removes |-> 0],
     [slots |-> {A4}, conns |-> {c1}, gets |-> 2, removes |-> 1],
     [slots |-> {A4, A6}, conns |-> {}, gets |-> 3, removes |-> 0],
     [slots |-> {A4, B4}, conns |-> {c1}, gets |-> 1, removes |-> 1]}
=============================================================================
