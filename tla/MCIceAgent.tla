----------------------------- MODULE MCIceAgent -----------------------------
(***************************************************************************)
(* Small instances of IceAgent, and the claims of the repository's         *)
(* documentation that the agent does not meet.  Two sockets on one address *)
(* are enough for a late socket beside a released one; two addresses on    *)
(* one socket for an answer from the wrong address and a peer-reflexive    *)
(* candidate beside a signalled one.                                       *)
(***************************************************************************)
EXTENDS IceAgent, TLC

CONSTANTS l1, l2, a1, a2

OneNetwork == [x \in Locals \cup Addrs |-> "udp4"]

\* The second socket has the network type of the second address only.
TwoNetworks == [x \in Locals \cup Addrs |-> IF x \in {l1, a1} THEN "udp4" ELSE "udp6"]

SignalHost == {[addr |-> a1, typ |-> "host"]}

\* The same address by its mDNS name and as a relay candidate.
SignalMdns == {[addr |-> a1, typ |-> "mdns"], [addr |-> a1, typ |-> "relay"]}

\* Sockets of one network type are interchangeable.
LocalSymmetry == Permutations(Locals)

\* Credentials are only compared.
CredSymmetry == Permutations(LocalCreds) \cup Permutations(PeerCreds)

-----------------------------------------------------------------------------
\* GetSelectedCandidatePairs "returns the selected pair or nil if there is
\* none": reading it, as its test does on a live connection, breaks nothing.
ReadingPairsIsHarmless == ~panicked
=============================================================================
