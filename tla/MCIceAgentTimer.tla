--------------------------- MODULE MCIceAgentTimer ---------------------------
(***************************************************************************)
(* Small instances of IceAgentTimer.                                       *)
(***************************************************************************)
EXTENDS MCIceAgent, IceAgentTimer
=============================================================================
