------------------------------ MODULE MCPusher ------------------------------
(* Small instances of Pusher for TLC.                                      *)
EXTENDS Pusher, TLC

\* Songs, tasks and pushers are interchangeable in the safety properties.
Symmetry == Permutations(Songs) \cup Permutations(Tasks) \cup Permutations(Pushers)
=============================================================================
