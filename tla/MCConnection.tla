---------------------------- MODULE MCConnection ----------------------------
(***************************************************************************)
(* Instances of Connection for TLC.                                        *)
(***************************************************************************)
EXTENDS ConnectionProofs, TLC

\* Nothing tells two substream IDs apart.
Symmetry == Permutations(SubstreamId)
=============================================================================
