------------------------------ MODULE MCGather ------------------------------
(***************************************************************************)
(* Agents with one gatherer, gathering twice; and with two gatherers: of a *)
(* mux and a mapped address, a STUN and a TURN server, and two STUN        *)
(* servers behind the universal mux.                                       *)
(***************************************************************************)
EXTENDS Gather

MCJobs == {"interface", "muxed", "mapped", "stun", "turn", "stun1", "stun2"}

MCKindOf ==
    [j \in MCJobs |->
        CASE j = "interface" -> "host"
          [] j = "muxed" -> "hostMux"
          [] j = "mapped" -> "srflxMapped"
          [] j = "stun" -> "srflx"
          [] j = "turn" -> "relay"
          [] OTHER -> "srflxMux"]

MCPlans ==
    {{"interface"}, {"muxed"}, {"mapped"}, {"stun"}, {"turn"}, {"stun1"},
     {"muxed", "mapped"}, {"stun", "turn"}, {"stun1", "stun2"}}
=============================================================================
