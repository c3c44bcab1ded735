------------------------------- MODULE SemVer -------------------------------
(***************************************************************************)
(* CompareVersions and the validation it rests on (internal/release).  An  *)
(* identifier is the sequence of its characters in the order of their      *)
(* codes: the hyphen, the digits, the letters.  A version has the three    *)
(* numbers of its core, and the identifiers of its pre-release and of its  *)
(* build, none if that part is missing.                                    *)
(***************************************************************************)
EXTENDS Integers, Sequences, FiniteSetsExt

Hyphen == -1
Digits == 0..9
Letters == 10..61

Identifier == Seq({Hyphen} \cup Digits \cup Letters)
Version == [core : [1..3 -> Identifier], pre : Seq(Identifier), build : Seq(Identifier)]

isDigits(s) == s # <<>> /\ \A i \in 1..Len(s) : s[i] \in Digits

LeadingZero(s) == Len(s) > 1 /\ s[1] = 0

\* The version expression asks for numbers without leading zeros in the core,
\* validateIdentifiers for no empty identifier, and in the pre-release for no
\* number with a leading zero.
Parses(v) == /\ \A i \in 1..3 : isDigits(v.core[i]) /\ ~LeadingZero(v.core[i])
             /\ \A i \in 1..Len(v.pre) :
                  v.pre[i] # <<>> /\ ~(isDigits(v.pre[i]) /\ LeadingZero(v.pre[i]))
             /\ \A i \in 1..Len(v.build) : v.build[i] # <<>>

Sign(m, n) == IF m < n THEN -1 ELSE IF m > n THEN 1 ELSE 0

\* The positions that two texts or lists of identifiers have in common.
Common(a, b) == 1..Min({Len(a), Len(b)})

\* The first position that tells the two apart decides, and otherwise the rest.
FirstDecides(signs, rest) ==
  LET decisive == {i \in DOMAIN signs : signs[i] # 0}
  IN  IF decisive = {} THEN rest ELSE signs[Min(decisive)]

\* Go's order of strings: an end comes before everything.
CompareText(a, b) ==
  FirstDecides([i \in Common(a, b) |-> Sign(a[i], b[i])], Sign(Len(a), Len(b)))

\* Mutant: numbers are compared as text.
CompareNumericAsText(a, b) == CompareText(a, b)

\* Of two numbers without leading zeros the longer one is the larger one.
compareNumericIdentifier(a, b) ==
  IF Len(a) # Len(b) THEN Sign(Len(a), Len(b)) ELSE CompareText(a, b)

\* The loop's switch: a number comes before a text.
CompareIdentifiers(a, b) == CASE isDigits(a) /\ isDigits(b) -> compareNumericIdentifier(a, b)
                              [] isDigits(a) /\ ~isDigits(b) -> -1
                              [] ~isDigits(a) /\ isDigits(b) -> 1
                              [] OTHER -> CompareText(a, b)

\* For two versions that parse: the core, a release after its pre-releases, and the
\* identifiers, of which the shorter list comes first.
CompareVersions(a, b) ==
  LET core == FirstDecides([i \in 1..3 |-> compareNumericIdentifier(a.core[i], b.core[i])], 0)
  IN  IF core # 0 THEN core
      ELSE IF a.pre = <<>> \/ b.pre = <<>> THEN Sign(Len(b.pre), Len(a.pre))
      ELSE FirstDecides([i \in Common(a.pre, b.pre) |-> CompareIdentifiers(a.pre[i], b.pre[i])],
                        Sign(Len(a.pre), Len(b.pre)))

-----------------------------------------------------------------------------
(***************************************************************************)
(* The precedence that Semantic Versioning defines, by the values of the   *)
(* numbers: the reference that CompareVersions is held against.            *)
(***************************************************************************)
Value(s) ==
  LET value[i \in 0..Len(s)] == IF i = 0 THEN 0 ELSE 10 * value[i - 1] + s[i]
  IN  value[Len(s)]

\* x is the smaller of two different texts.
TextBefore(x, y) ==
  \E i \in 1..Len(y) : /\ \A j \in 1..(i - 1) : j <= Len(x) /\ x[j] = y[j]
                       /\ i > Len(x) \/ x[i] < y[i]

NameBefore(x, y) == \/ isDigits(x) /\ isDigits(y) /\ Value(x) < Value(y)
                    \/ isDigits(x) /\ ~isDigits(y)
                    \/ ~isDigits(x) /\ ~isDigits(y) /\ TextBefore(x, y)

SameCore(v, w) == \A i \in 1..3 : Value(v.core[i]) = Value(w.core[i])

CoreBefore(v, w) == \E i \in 1..3 : /\ \A j \in 1..(i - 1) : Value(v.core[j]) = Value(w.core[j])
                                    /\ Value(v.core[i]) < Value(w.core[i])

PreBefore(v, w) ==
  \/ v.pre # <<>> /\ w.pre = <<>>
  \/ /\ v.pre # <<>>
     /\ \E i \in 1..Len(w.pre) : /\ \A j \in 1..(i - 1) : j <= Len(v.pre) /\ v.pre[j] = w.pre[j]
                                 /\ i > Len(v.pre) \/ NameBefore(v.pre[i], w.pre[i])

Before(v, w) == CoreBefore(v, w) \/ (SameCore(v, w) /\ PreBefore(v, w))
=============================================================================
