------------------------- MODULE MCUniversalUDPMux --------------------------
EXTENDS UniversalUDPMux, TLC

CONSTANTS u1, u2, p4, w1, w2, q1, q2

MCFamilyOf == p4 :> "ip4"

A4 == <<u1, "ip4">>
A6 == <<u1, "ip6">>
B4 == <<u2, "ip4">>

PlanOf(s1, s2, s3, writes, packets) ==
    [slots |-> 1 :> s1 @@ 2 :> s2 @@ 3 :> s3,
     writes |-> [x \in Writers \X Conns |-> IF x \in DOMAIN writes THEN writes[x] ELSE 0],
     packets |-> packets]

\* Both families of one ufrag, and the IPv4 connection made anew after a restart
\* that keeps the ufrag.
Restarted == PlanOf(A4, A6, A4, <<>>, 0)

\* Two ufrags that write to the same address, one of them twice.
TwoUfrags == PlanOf(A4, B4, NoSlot, <<w1, 1>> :> 2 @@ <<w2, 2>> :> 1, 0)

\* Two goroutines write to one connection.
TwoWriters == PlanOf(A4, NoSlot, NoSlot, <<w1, 1>> :> 2 @@ <<w2, 1>> :> 1, 0)

\* A packet arrives, with both families of one ufrag listed.
Receiving == PlanOf(A4, A6, NoSlot, <<w1, 1>> :> 1, 1)

\* No connections, for the behaviours about queries.
Quiet == PlanOf(NoSlot, NoSlot, NoSlot, <<>>, 0)

MCPlans == {Restarted, TwoUfrags, TwoWriters, Receiving, Quiet}

MCLoads ==
    {[plan |-> p, queries |-> {}] : p \in MCPlans \ {Quiet}}
        \cup {[plan |-> Quiet, queries |-> Queries]}
=============================================================================
