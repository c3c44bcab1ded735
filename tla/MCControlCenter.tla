--------------------------- MODULE MCControlCenter ---------------------------
(***************************************************************************)
(* Small instances of ControlCenter for TLC.                               *)
(***************************************************************************)
EXTENDS ControlCenter, TLC

IdSymmetry == Permutations(Ids)
=============================================================================
