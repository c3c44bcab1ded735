------------------------ MODULE ReleasePackageProofs ------------------------
(***************************************************************************)
(* What ReleasePackage guarantees for any binaries, keys and schemas.  A   *)
(* signature that names the key of a release tool was made for a package   *)
(* that this tool has written; Genuine keeps that through every damage.    *)
(***************************************************************************)
EXTENDS ReleasePackage, TLAPS

\* What release tools have written is consistent.
Consistent == \A p \in built : /\ p.whole
                               /\ p.signature.of = p.manifest
                               /\ p.artifact = p.manifest.sha256
                               /\ Size[p.artifact] = p.manifest.size
                               /\ p.manifest.schema = ManifestSchema => Valid(p.manifest)

\* A signature by a key was made by a release tool.
Genuine == package # None /\ package.signature.key # None =>
             \E p \in built : p.signature = package.signature

\* What update.sh has found by the place where it stands.
Checked == /\ pc \in {"listed", "verified", "accepted"} => package.whole
           /\ pc \in {"verified", "accepted"} => Verify(package)

Inv == TypeOK /\ Consistent /\ Genuine /\ Checked /\ RefusedOnlyForCause

\* A package has all its fields.
LEMMA PackageIsRecord ==
  ASSUME NEW p \in Package
  PROVE  /\ p = [whole |-> p.whole, manifest |-> p.manifest, signature |-> p.signature,
                 artifact |-> p.artifact]
         /\ p.signature = [key |-> p.signature.key, of |-> p.signature.of]
         /\ p # None
BY NoneAssumption DEF Package

\* release-tool writes a consistent package, which has its type.
LEMMA PackedIsPackage ==
  ASSUME NEW b \in Binaries, NEW key \in Keys, NEW version \in Versions, NEW commit \in Commits,
         NEW arch \in Arches, NEW schema \in Schemas, NEW min \in Schemas, NEW max \in Schemas
  PROVE  LET p == Packed(b, key, version, commit, arch, schema, min, max)
         IN  /\ p \in Package
             /\ p.whole /\ p.signature.of = p.manifest /\ p.artifact = p.manifest.sha256
             /\ Size[p.artifact] = p.manifest.size
             /\ p.manifest.schema = schema
BY DEF Packed, Package, Manifest

\* What is as it was written, with a schema that this release knows and for this
\* host, passes the verification.
LEMMA WrittenVerifies ==
  ASSUME TypeOK, Consistent, package \in built,
         package.manifest.schema = ManifestSchema,
         StateSchema \in package.manifest.min..package.manifest.max,
         package.signature.key = Trusted,
         package.manifest.arch = HostArch
  PROVE  package.whole /\ Verify(package)
<1>1. package \in Package
  BY DEF TypeOK
<1>2. /\ package.whole /\ package.signature.of = package.manifest
      /\ package.artifact = package.manifest.sha256
      /\ Size[package.artifact] = package.manifest.size
      /\ Valid(package.manifest)
  BY DEF Consistent
<1>3. package.signature = [key |-> Trusted, of |-> package.manifest]
  BY <1>1, <1>2, PackageIsRecord
<1> QED
  BY <1>2, <1>3 DEF Verify

LEMMA InitInv == Init => Inv
BY DEF Init, Inv, TypeOK, Consistent, Genuine, Checked, RefusedOnlyForCause

LEMMA NextInv == Inv /\ [Next]_vars => Inv'
<1> SUFFICES ASSUME Inv, [Next]_vars PROVE Inv'
  OBVIOUS
<1>t. TypeOK /\ Consistent /\ Genuine /\ Checked /\ RefusedOnlyForCause
  BY DEF Inv
<1>1. CASE MakePackage
  <2>1. PICK b \in Binaries, key \in Keys, version \in Versions, commit \in Commits,
             arch \in Arches, schema \in Schemas, min \in Schemas, max \in Schemas :
          /\ built' = built \cup {Packed(b, key, version, commit, arch, schema, min, max)}
          /\ package' = Packed(b, key, version, commit, arch, schema, min, max)
          /\ schema = ManifestSchema =>
               Valid(Packed(b, key, version, commit, arch, schema, min, max).manifest)
    BY <1>1 DEF MakePackage
  <2> DEFINE p == Packed(b, key, version, commit, arch, schema, min, max)
  <2>2. /\ p \in Package
        /\ p.whole /\ p.signature.of = p.manifest /\ p.artifact = p.manifest.sha256
        /\ Size[p.artifact] = p.manifest.size
        /\ p.manifest.schema = ManifestSchema => Valid(p.manifest)
    BY <2>1, PackedIsPackage
  <2> HIDE DEF p
  <2>3. pc' = "packed" /\ package' = p /\ built' = built \cup {p} /\ p # None
    BY <1>1, <2>1, <2>2, NoneAssumption DEF MakePackage, p
  <2>4. TypeOK'
    BY <1>t, <2>2, <2>3 DEF TypeOK
  <2>5. Consistent'
    BY <1>t, <2>2, <2>3 DEF Consistent
  <2>6. Genuine' /\ Checked' /\ RefusedOnlyForCause'
    BY <1>t, <2>2, <2>3 DEF Genuine, Checked, RefusedOnlyForCause
  <2> QED
    BY <2>4, <2>5, <2>6 DEF Inv
<1>2. CASE Damage
  <2>1. package \in Package /\ UNCHANGED <<built, pc>> /\ pc = "packed"
    BY <1>2, <1>t DEF Damage, TypeOK
  <2>2. /\ package' \in Package
        /\ \/ package'.signature \in {package.signature, [package.signature EXCEPT !.key = None]}
           \/ \E p \in built : package'.signature = p.signature
    <3>1. CASE package' = [package EXCEPT !.whole = FALSE]
      BY <2>1, <3>1 DEF Package
    <3>2. CASE \E m \in Manifest : package' = [package EXCEPT !.manifest = m]
      BY <2>1, <3>2 DEF Package
    <3>3. CASE package' = [package EXCEPT !.signature.key = None]
      BY <2>1, <3>3 DEF Package
    <3>4. CASE \E b \in Binaries : package' = [package EXCEPT !.artifact = b]
      BY <2>1, <3>4 DEF Package
    <3>5. CASE \E p \in built : package' = [p EXCEPT !.artifact = package.artifact]
      <4>1. PICK p \in built : package' = [p EXCEPT !.artifact = package.artifact]
        BY <3>5
      <4>2. p \in Package
        BY <1>t DEF TypeOK
      <4> QED
        BY <2>1, <4>1, <4>2 DEF Package
    <3> QED
      BY <1>2, <3>1, <3>2, <3>3, <3>4, <3>5 DEF Damage
  <2>3. [package.signature EXCEPT !.key = None].key = None
    BY <2>1 DEF Package
  <2>4. TypeOK'
    BY <1>t, <2>1, <2>2, NoneAssumption DEF TypeOK
  <2>5. Genuine'
    BY <1>t, <2>1, <2>2, <2>3, NoneAssumption DEF Genuine
  <2>6. Consistent' /\ Checked' /\ RefusedOnlyForCause'
    BY <1>t, <2>1 DEF Consistent, Checked, RefusedOnlyForCause
  <2> QED
    BY <2>4, <2>5, <2>6 DEF Inv
<1>3. CASE Another
  BY <1>3, <1>t DEF Another, Inv, TypeOK, Consistent, Genuine, Checked, RefusedOnlyForCause
<1>4. CASE List
  <2>1. TypeOK' /\ Consistent' /\ Genuine' /\ Checked'
    BY <1>4, <1>t DEF List, TypeOK, Consistent, Genuine, Checked
  <2>2. RefusedOnlyForCause'
    BY <1>4, <1>t, WrittenVerifies DEF List, RefusedOnlyForCause
  <2> QED
    BY <2>1, <2>2 DEF Inv
<1>5. CASE VerifyRelease
  <2>1. TypeOK' /\ Consistent' /\ Genuine' /\ Checked'
    BY <1>5, <1>t DEF VerifyRelease, TypeOK, Consistent, Genuine, Checked
  <2>2. RefusedOnlyForCause'
    BY <1>5, <1>t, WrittenVerifies DEF VerifyRelease, RefusedOnlyForCause
  <2> QED
    BY <2>1, <2>2 DEF Inv
<1>6. CASE AskCandidate
  <2>1. TypeOK' /\ Consistent' /\ Genuine' /\ Checked'
    BY <1>6, <1>t DEF AskCandidate, TypeOK, Consistent, Genuine, Checked
  <2>2. RefusedOnlyForCause'
    BY <1>6 DEF AskCandidate, RefusedOnlyForCause
  <2> QED
    BY <2>1, <2>2 DEF Inv
<1>7. CASE UNCHANGED vars
  BY <1>7, <1>t DEF vars, Inv, TypeOK, Consistent, Genuine, Checked, RefusedOnlyForCause
<1> QED
  BY <1>1, <1>2, <1>3, <1>4, <1>5, <1>6, <1>7 DEF Next

LEMMA PackageInvariant == Spec => []Inv
<1> QED
  BY InitInv, NextInv, PTL DEF Spec

\* The packages and the verdict on them have their types.
THEOREM ReleaseTypeCorrect == Spec => []TypeOK
<1>1. Inv => TypeOK
  BY DEF Inv
<1> QED
  BY <1>1, PackageInvariant, PTL

\* A candidate is asked only if its package is, in every part, one that a holder of
\* the trusted key has written for this platform and state schema: the signature is
\* of the manifest's bytes, the manifest names the digest, and the archive is whole.
THEOREM CandidateGenuine == Spec => []CandidateIsAsPackaged
<1>1. Inv => CandidateIsAsPackaged
  <2> SUFFICES ASSUME Inv, pc \in {"verified", "accepted"}
               PROVE /\ package \in built
                     /\ package.signature.key = Trusted
                     /\ package.manifest.arch = HostArch
                     /\ StateSchema \in package.manifest.min..package.manifest.max
    BY DEF CandidateIsAsPackaged
  <2>1. package \in Package /\ package.whole /\ Verify(package)
    BY DEF Inv, TypeOK, Checked
  <2>2. package.signature.key = Trusted /\ package.signature.of = package.manifest
    BY <2>1 DEF Verify
  <2>3. PICK p \in built : p.signature = package.signature
    BY <2>1, <2>2, HostAssumption, NoneAssumption DEF Inv, Genuine
  <2>4. p \in Package /\ p.whole /\ p.signature.of = p.manifest /\ p.artifact = p.manifest.sha256
    BY DEF Inv, TypeOK, Consistent
  <2>5. p.manifest = package.manifest /\ p.artifact = package.artifact /\ p.whole = package.whole
    BY <2>1, <2>2, <2>3, <2>4 DEF Verify, Package
  <2>6. p = package
    BY <2>1, <2>3, <2>4, <2>5, PackageIsRecord
  <2> QED
    BY <2>1, <2>2, <2>6 DEF Verify
<1> QED
  BY <1>1, PackageInvariant, PTL

\* A package that a holder of the trusted key has written for this platform and
\* state schema passes every check of update.sh: it is refused only if its binary
\* says something else of itself, and verify-release panics only over a commit of
\* fewer than 12 digits.
THEOREM GoodPackagePasses == Spec => []RefusedOnlyForCause
<1>1. Inv => RefusedOnlyForCause
  BY DEF Inv
<1> QED
  BY <1>1, PackageInvariant, PTL
=============================================================================
