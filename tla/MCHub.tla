-------------------------------- MODULE MCHub --------------------------------
(***************************************************************************)
(* HubConnections for TLC.  The inbound requests are interchangeable.      *)
(***************************************************************************)
EXTENDS HubConnections, TLC

InboundSymmetry == Permutations(Inbound)
==============================================================================
