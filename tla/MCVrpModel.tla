----------------------------- MODULE MCVrpModel -----------------------------
(***************************************************************************)
(* Instances of VrpModel for TLC.  External IDs are only ever compared, so *)
(* permuting them is a symmetry of every invariant.                        *)
(***************************************************************************)
EXTENDS VrpModel

MCTimes == 1 .. 3
MCSymmetry == Permutations(NodeExtIds) \cup Permutations(RequestExtIds)
=============================================================================
