--------------------------- MODULE MCAuthService ---------------------------
(***************************************************************************)
(* Small instances of AuthService for TLC.  Requests are slots; every      *)
(* account and password is like any other, since Init takes them all.      *)
(***************************************************************************)
EXTENDS AuthService, TLC

Symmetry ==
  Permutations(Requests) \cup Permutations(Users) \cup Permutations(Passwords)
=============================================================================
