----------------------------- MODULE MCAuditLog -----------------------------
(***************************************************************************)
(* Small instances of AuditLog for TLC.  Events of two and three bytes, so *)
(* that a window of seven may begin inside a line, between two, and at the *)
(* first byte of one, and one event that fills the scanner's buffer.       *)
(***************************************************************************)
EXTENDS AuditLog, TLC

CONSTANTS Long,   \* the event with one byte more
          Huge    \* the event that is too long for the scanner

MCSize == [e \in Events |-> CASE e = Long -> 3 [] e = Huge -> MaxLine [] OTHER -> 2]

EventSymmetry == Permutations(Events \ {Long, Huge})
=============================================================================
