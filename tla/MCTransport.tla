---------------------------- MODULE MCTransport ----------------------------
(***************************************************************************)
(* Instances of Transport for TLC.                                         *)
(***************************************************************************)
EXTENDS Transport, TLC

\* Nothing tells two nodes, two IDs or two payloads apart.
Symmetry == Permutations(Node) \cup Permutations(ConnectionId) \cup Permutations(Payload)
=============================================================================
