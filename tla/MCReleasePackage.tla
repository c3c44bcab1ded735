--------------------------- MODULE MCReleasePackage ---------------------------
(***************************************************************************)
(* A small instance of ReleasePackage for TLC: two binaries of the same    *)
(* size, built from a commit given in full and from one given short.       *)
(***************************************************************************)
EXTENDS ReleasePackage, FiniteSets, TLC

CONSTANTS b1, b2, full, short, MaxBuilt

MCSize == b1 :> 5 @@ b2 :> 5
MCInfo == b1 :> [version |-> "1.2.0", commit |-> full, arch |-> HostArch]
          @@ b2 :> [version |-> "1.2.0", commit |-> short, arch |-> HostArch]
MCLength == full :> 40 @@ short :> 7

\* A bound on the packages that are written: one of any kind, or MaxBuilt with the
\* full commit and this schema of manifests.
FewBuilt == \/ Cardinality(built) <= 1
            \/ /\ Cardinality(built) <= MaxBuilt
               /\ \A p \in built : /\ p.manifest.commit = full
                                   /\ p.manifest.schema = ManifestSchema
=============================================================================
