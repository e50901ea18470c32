-------------------------- MODULE MCDownstreamAuth --------------------------
(***************************************************************************)
(* Instances of DownstreamAuth for TLC.                                    *)
(***************************************************************************)
EXTENDS DownstreamAuth, TLC

CONSTANTS o1, o2, f1, f2

Symmetric == Permutations(Ops) \cup Permutations(Flows)
=============================================================================
