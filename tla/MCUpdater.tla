------------------------------ MODULE MCUpdater ------------------------------
(***************************************************************************)
(* A small instance of Updater for TLC: the installed release, a newer     *)
(* one, one of the same version as that, and one that does not work; and   *)
(* the versions whose pairs are compared against the precedence.           *)
(***************************************************************************)
EXTENDS Updater, TLC

CONSTANTS newer, rebuilt, broken,
          MaxNames   \* the longest pre-release

\* 1.2.0-rc.2, 1.2.0-rc.10 and 1.10.0.
MCVersion(n, p) == [core |-> << <<1>>, n, <<0>> >>, pre |-> p, build |-> << >>]
rc == <<27, 12>>
MCVersionOf == Installed :> MCVersion(<<2>>, <<rc, <<2>> >>)
               @@ newer :> MCVersion(<<2>>, <<rc, <<1, 0>> >>)
               @@ rebuilt :> MCVersion(<<2>>, <<rc, <<1, 0>> >>)
               @@ broken :> MCVersion(<<1, 0>>, << >>)

-----------------------------------------------------------------------------
\* Numbers 2 and 10; names 2, 10, 1a, a, a- and, not accepted, 01.
Numbers == {<<2>>, <<1, 0>>}
Names == {<<2>>, <<1, 0>>, <<1, 10>>, <<10>>, <<10, Hyphen>>, <<0, 1>>}

Candidates == [core : {<<m, n, <<0>> >> : m \in Numbers, n \in Numbers},
               pre : UNION {[1..k -> Names] : k \in 0..MaxNames}, build : {<< >>, << <<0, 1>> >>}]
Accepted == {v \in Candidates : Parses(v) /\ (v.build = <<>> \/ v.pre = <<>>)}
MCVersions == Accepted \cup {MCVersionOf[r] : r \in DOMAIN MCVersionOf}
=============================================================================
