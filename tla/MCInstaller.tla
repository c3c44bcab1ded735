----------------------------- MODULE MCInstaller -----------------------------
(***************************************************************************)
(* Small instances of Installer for TLC.  Nothing tells one release from   *)
(* another, so the states that differ in their names alone are one.        *)
(***************************************************************************)
EXTENDS Installer, TLC

PackageSymmetry == Permutations(Packages)
=============================================================================
