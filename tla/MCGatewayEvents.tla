-------------------------- MODULE MCGatewayEvents --------------------------
(* A small instance of GatewayEvents for TLC.                              *)
EXTENDS GatewayEvents, TLC, BotChecks

Symmetry == Permutations(Tasks)
=============================================================================
