---------------------------- MODULE MCStateStore ----------------------------
(***************************************************************************)
(* Small instances of StateStore for TLC.                                  *)
(***************************************************************************)
EXTENDS StateStore

CONSTANTS admin, alice, strong, other, short
=============================================================================
