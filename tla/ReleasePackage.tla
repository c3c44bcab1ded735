--------------------------- MODULE ReleasePackage ---------------------------
(***************************************************************************)
(* A release on its way: release-tool packages and signs it, it may be     *)
(* damaged or mixed up with others before it reaches the host, and         *)
(* update.sh checks it with the verify-release of the current runtime.     *)
(*                                                                         *)
(* A digest is the binary that it is of, and a signature holds the key and *)
(* the bytes that it signs.  The release tool of a later version may write *)
(* other schemas.                                                          *)
(***************************************************************************)
EXTENDS Naturals

CONSTANTS Binaries,     \* artifacts
          Size,         \* Size[b] in bytes
          Info,         \* Info[b]: the version, commit and arch it was built for
          Versions,     \* texts of versions
          SemVersions,  \* those that parseSemVer accepts
          Commits,      \* texts of commits that commitRE accepts: 7 to 64 digits
          Length,       \* Length[c] of a commit
          Arches, Keys,
          HostArch, Trusted,  \* of the host: runtime.GOARCH and the public key
          Schemas,      \* numbers of manifest and state schemas
          None

ManifestSchema == 1
StateSchema == 1

ASSUME SizeAssumption == Size \in [Binaries -> Nat]
ASSUME InfoAssumption == Info \in [Binaries -> [version : Versions, commit : Commits, arch : Arches]]
ASSUME LengthAssumption == Length \in [Commits -> 7..64]
ASSUME HostAssumption == HostArch \in Arches /\ Trusted \in Keys
ASSUME SchemasAssumption == Schemas \subseteq Nat /\ ManifestSchema \in Schemas
VARIABLES built,    \* history: the packages as release tools wrote them
          package,  \* the package that update.sh is given
          pc        \* how far update.sh has come with it

vars == <<built, package, pc>>

Manifest == [schema : Schemas, version : Versions, commit : Commits, arch : Arches,
             min : Schemas, max : Schemas, sha256 : Binaries, size : {Size[b] : b \in Binaries}]
Package == [whole : BOOLEAN,  \* the archive holds the three entries in their order
            manifest : Manifest,
            signature : [key : Keys \cup {None}, of : Manifest],
            artifact : Binaries]

ASSUME NoneAssumption == None \notin Keys /\ None \notin Package

Init == built = {} /\ package = None /\ pc = "none"

\* Manifest.Validate; product, channel, build time, OS and the form of the digest
\* are as release-tool writes them.
Valid(m) == /\ m.schema = ManifestSchema
            /\ m.version \in SemVersions
            /\ m.min >= 1 /\ m.max >= m.min
            /\ m.size > 0

\* release-tool package, with the schemas of a tool of any version.
Packed(b, key, version, commit, arch, schema, min, max) ==
  LET m == [schema |-> schema, version |-> version, commit |-> commit, arch |-> arch,
            min |-> min, max |-> max, sha256 |-> b, size |-> Size[b]]
  IN  [whole |-> TRUE, manifest |-> m, signature |-> [key |-> key, of |-> m], artifact |-> b]

MakePackage ==
  /\ pc = "none"
  /\ \E b \in Binaries, key \in Keys, version \in Versions, commit \in Commits, arch \in Arches,
        schema, min, max \in Schemas :
       LET p == Packed(b, key, version, commit, arch, schema, min, max)
       IN  /\ min <= max
           /\ schema = ManifestSchema => Valid(p.manifest)
           /\ built' = built \cup {p}
           /\ package' = p
  /\ pc' = "packed"

\* On its way one part of a package is damaged or is another package's.
Damage == /\ pc = "packed"
          /\ \/ package' = [package EXCEPT !.whole = FALSE]
             \/ \E m \in Manifest : package' = [package EXCEPT !.manifest = m]
             \/ package' = [package EXCEPT !.signature.key = None]
             \/ \E b \in Binaries : package' = [package EXCEPT !.artifact = b]
             \/ \E p \in built : package' = [p EXCEPT !.artifact = package.artifact]
          /\ UNCHANGED <<built, pc>>

\* The release is set aside, and another one is packaged.
Another == /\ pc \in {"packed", "rejected", "crashed", "accepted"}
           /\ pc' = "none"
           /\ package' = None
           /\ UNCHANGED built

\* tar -t, and the staged entries.
List == /\ pc = "packed"
        /\ pc' = IF package.whole THEN "listed" ELSE "rejected"
        /\ UNCHANGED <<built, package>>

\* Mutant: the signature is looked at, and not what it signs.
VerifyKeyOnly(p) == /\ p.signature.key = Trusted
                    /\ Valid(p.manifest)
                    /\ p.manifest.arch = HostArch
                    /\ StateSchema \in p.manifest.min..p.manifest.max
                    /\ Size[p.artifact] = p.manifest.size
                    /\ p.artifact = p.manifest.sha256

\* Mutant: the newest schema of the range is left out.
VerifyBelowNewest(p) == /\ p.signature = [key |-> Trusted, of |-> p.manifest]
                        /\ Valid(p.manifest)
                        /\ p.manifest.arch = HostArch
                        /\ StateSchema \in p.manifest.min..(p.manifest.max - 1)
                        /\ Size[p.artifact] = p.manifest.size
                        /\ p.artifact = p.manifest.sha256

\* Verify: the signature of the bytes, the decoded manifest, platform, state
\* schema, size and digest.
Verify(p) == /\ p.signature = [key |-> Trusted, of |-> p.manifest]
             /\ Valid(p.manifest)
             /\ p.manifest.arch = HostArch
             /\ StateSchema \in p.manifest.min..p.manifest.max
             /\ Size[p.artifact] = p.manifest.size
             /\ p.artifact = p.manifest.sha256

\* verify-release --field release-id: ReleaseID takes the first 12 characters of
\* the commit, and panics if there are fewer.
VerifyRelease == /\ pc = "listed"
                 /\ pc' = IF ~Verify(package) THEN "rejected"
                          ELSE IF Length[package.manifest.commit] < 12 THEN "crashed"
                          ELSE "verified"
                 /\ UNCHANGED <<built, package>>

\* build-info of the candidate, which runs only on the platform it was built for.
AskCandidate == /\ pc = "verified"
                /\ pc' = IF Info[package.artifact] = [version |-> package.manifest.version,
                                                      commit |-> package.manifest.commit,
                                                      arch |-> HostArch]
                         THEN "accepted" ELSE "rejected"
                /\ UNCHANGED <<built, package>>

Next == MakePackage \/ Damage \/ Another \/ List \/ VerifyRelease \/ AskCandidate

Spec == Init /\ [][Next]_vars

-----------------------------------------------------------------------------
(***************************************************************************)
(* Properties.                                                             *)
(***************************************************************************)

\* Every variable has its type.
TypeOK == /\ built \subseteq Package
          /\ package \in Package \cup {None}
          /\ pc \in {"none", "packed", "listed", "verified", "accepted", "rejected", "crashed"}
          /\ package = None <=> pc = "none"

\* ADR-0006 "Candidate code is not executed until": when the candidate is asked,
\* the package is one that a holder of the trusted key has packaged, with not one
\* part of it exchanged, for this platform and this state schema.
CandidateIsAsPackaged ==
  pc \in {"verified", "accepted"} =>
    /\ package \in built
    /\ package.signature.key = Trusted
    /\ package.manifest.arch = HostArch
    /\ StateSchema \in package.manifest.min..package.manifest.max

\* ADR-0006 acceptance: "Valid signed package verifies and activates."  What
\* release-tool has packaged with the trusted key for this platform and this state
\* schema is refused only for a binary that tells something else, and makes
\* verify-release panic only for a short commit.
RefusedOnlyForCause ==
  /\ pc \in {"rejected", "crashed"}
  /\ package \in built
  /\ package.manifest.schema = ManifestSchema
  /\ StateSchema \in package.manifest.min..package.manifest.max
  /\ package.signature.key = Trusted
  /\ package.manifest.arch = HostArch
  => IF pc = "rejected"
     THEN Info[package.artifact] # [version |-> package.manifest.version,
                                    commit |-> package.manifest.commit, arch |-> HostArch]
     ELSE Length[package.manifest.commit] < 12
=============================================================================
