------------------------------- MODULE Updater -------------------------------
(***************************************************************************)
(* install/update.sh: the activation of a verified release.                *)
(*                                                                         *)
(* Nothing keeps two updaters apart: each is a process of its own over the *)
(* releases directory, the links current and previous, and the service.    *)
(* An updater may end between any two commands: it is killed, the host     *)
(* goes down, or a command fails under set -e.                             *)
(***************************************************************************)
EXTENDS Naturals, SemVer

CONSTANTS Updaters,   \* runs of update.sh that may be at work together
          Releases,   \* release IDs
          Versions,   \* versions that parse
          VersionOf,  \* VersionOf[r]: what the binary of r tells
          Sound,      \* the releases that can pass the acceptance
          Installed,  \* the release that install.sh has left
          None        \* no release

ASSUME VersionAssumption == /\ Versions \subseteq Version
                            /\ \A v \in Versions : Parses(v)
                            /\ VersionOf \in [Releases -> Versions]
ASSUME ReleasesAssumption == Installed \in Releases /\ Sound \subseteq Releases
ASSUME NoneAssumption == None \notin Releases

VARIABLES complete,   \* the directories in releases/, each with its binary
          current,    \* the link current
          previous,   \* the link previous
          running,    \* the release that control-center.service runs
          pc,         \* pc[u]: the next command of the updater
          target,     \* target[u]: release_id of its package
          old,        \* old[u]: old_target
          forced,     \* forced[u]: ALLOW_DOWNGRADE
          lastGood,   \* history: the release that was accepted last
          abandoned   \* history: an updater ended after it had switched

vars == <<complete, current, previous, running, pc, target, old, forced,
          lastGood, abandoned>>
links == <<current, previous>>
history == <<lastGood, abandoned>>
options == <<target, old, forced>>

Switched == {"restart", "accept", "roll back", "restore", "record"}
Steps == {"idle", "compare", "store", "read link", "switch"} \cup Switched

Init == /\ complete = {Installed}
        /\ current = Installed
        /\ previous = None
        /\ running = Installed
        /\ pc = [u \in Updaters |-> "idle"]
        /\ target = [u \in Updaters |-> None]
        /\ old = [u \in Updaters |-> None]
        /\ forced = [u \in Updaters |-> FALSE]
        /\ lastGood = Installed
        /\ abandoned = FALSE

\* compare-version --current r --target q
Upgrades == {e \in Releases \X Releases : CompareVersions(VersionOf[e[1]], VersionOf[e[2]]) = -1}
Newer(r, q) == <<r, q>> \in Upgrades

GoTo(u, next) == pc' = [pc EXCEPT ![u] = next]
At(u, here) == pc[u] = here

\* The current runtime has verified the package and the candidate has told its
\* version and commit.
Begin(u) == /\ At(u, "idle")
            /\ \E r \in Releases, allow \in BOOLEAN :
                 /\ target' = [target EXCEPT ![u] = r]
                 /\ forced' = [forced EXCEPT ![u] = allow]
            /\ GoTo(u, "compare")
            /\ UNCHANGED <<complete, links, running, old, history>>

\* Mutant: the comparison lets the same version pass.
CompareLax(u) == /\ At(u, "compare")
                 /\ GoTo(u, IF ~Newer(target[u], current) \/ forced[u]
                            THEN "store" ELSE "idle")
                 /\ UNCHANGED <<complete, links, running, options, history>>

\* Unless the downgrade is allowed, the target must be newer than what the link
\* names now.
Compare(u) == /\ At(u, "compare")
              /\ GoTo(u, IF Newer(current, target[u]) \/ forced[u]
                         THEN "store" ELSE "idle")
              /\ UNCHANGED <<complete, links, running, options, history>>

\* Mutant: the link is switched before the directory is moved to its place.
StoreLater(u) == /\ At(u, "store")
                 /\ GoTo(u, "read link")
                 /\ UNCHANGED <<complete, links, running, options, history>>

\* The release is built in a temporary directory and moved to its place, unless
\* it is there with the same bytes.
Store(u) == /\ At(u, "store")
            /\ complete' = complete \cup {target[u]}
            /\ GoTo(u, "read link")
            /\ UNCHANGED <<links, running, options, history>>

\* old_target is what the link names now.
ReadLink(u) == /\ At(u, "read link")
               /\ old' = [old EXCEPT ![u] = current]
               /\ GoTo(u, "switch")
               /\ UNCHANGED <<complete, links, running, target, forced, history>>

\* atomic_link.
Switch(u) == /\ At(u, "switch")
             /\ current' = target[u]
             /\ GoTo(u, "restart")
             /\ UNCHANGED <<complete, previous, running, options, history>>

\* systemctl restart runs what the link names, or fails.
Restart(u) == /\ At(u, "restart")
              /\ \/ running' = current /\ GoTo(u, "accept")
                 \/ running' = None /\ GoTo(u, "roll back")
              /\ UNCHANGED <<complete, links, options, history>>

\* post_acceptance: the service is ready and reports the version of the target,
\* or it has not done so after the 24th attempt.
Accept(u) == /\ At(u, "accept")
             /\ \/ /\ running \in Sound
                   /\ VersionOf[running] = VersionOf[target[u]]
                   /\ lastGood' = target[u]
                   /\ GoTo(u, "record")
                \/ GoTo(u, "roll back") /\ UNCHANGED lastGood
             /\ UNCHANGED <<complete, links, running, options, abandoned>>

\* Mutant: the link stays, and the service is restarted once more.
RollBackService(u) == /\ At(u, "roll back")
                      /\ GoTo(u, "restore")
                      /\ UNCHANGED <<complete, links, running, options, history>>

RollBack(u) == /\ At(u, "roll back")
               /\ current' = old[u]
               /\ GoTo(u, "restore")
               /\ UNCHANGED <<complete, previous, running, options, history>>

\* Mutant: the service is left as it is.
RestoreLinkOnly(u) == /\ At(u, "restore")
                      /\ GoTo(u, "idle")
                      /\ UNCHANGED <<complete, links, running, options, history>>

\* The restart after the roll back may fail: its result is not looked at.
Restore(u) == /\ At(u, "restore")
              /\ running' \in {current, None}
              /\ GoTo(u, "idle")
              /\ UNCHANGED <<complete, links, options, history>>

\* atomic_link of previous.
Record(u) == /\ At(u, "record")
             /\ previous' = old[u]
             /\ GoTo(u, "idle")
             /\ UNCHANGED <<complete, current, running, options, history>>

\* A check before the switch fails, or the updater ends before its time.
End(u) == /\ pc[u] # "idle"
          /\ GoTo(u, "idle")
          /\ abandoned' = (abandoned \/ pc[u] \in Switched)
          /\ UNCHANGED <<complete, links, running, options, lastGood>>

\* systemd: the service fails, or is started from the link.
Service == /\ running' \in {current, None}
           /\ UNCHANGED <<complete, links, pc, options, history>>

Command(u) == \/ Compare(u) \/ Store(u) \/ ReadLink(u) \/ Switch(u) \/ Restart(u)
              \/ Accept(u) \/ RollBack(u) \/ Restore(u) \/ Record(u)

Next == \/ \E u \in Updaters : Begin(u) \/ Command(u) \/ End(u)
        \/ Service

Spec == Init /\ [][Next]_vars

\* update.sh runs to its end, and Restart=on-failure starts the service; the
\* unit's start limit was reset.
Fairness == /\ \A u \in Updaters : WF_vars(Command(u))
            /\ WF_vars(Service /\ running = None /\ running' = current)

LiveSpec == Spec /\ Fairness

-----------------------------------------------------------------------------
(***************************************************************************)
(* Properties.                                                             *)
(***************************************************************************)

\* Every variable has its type.
TypeOK == /\ complete \subseteq Releases
          /\ current \in Releases
          /\ previous \in Releases \cup {None}
          /\ running \in Releases \cup {None}
          /\ pc \in [Updaters -> Steps]
          /\ target \in [Updaters -> Releases \cup {None}]
          /\ old \in [Updaters -> Releases \cup {None}]
          /\ forced \in [Updaters -> BOOLEAN]
          /\ lastGood \in Releases
          /\ abandoned \in BOOLEAN

\* However many updaters work at once and wherever they end, both links name
\* releases that are complete (ADR-0006 "Immutable release layout").
LinksComplete == /\ current \in complete
                 /\ previous \in complete \cup {None}

\* ADR-0006 "preserve the last known-good release".  As long as no updater ended
\* between its switch and its last command: whatever the updaters have in hand, the
\* release that was accepted last is the current or the previous one or the one that
\* an updater will go back to; when none is at work, the link names it, and previous
\* another one than a failed candidate.
SettledOnAccepted ==
  ~abandoned =>
    /\ \/ lastGood \in {current, previous}
       \/ \E u \in Updaters : pc[u] \in Switched /\ old[u] = lastGood
    /\ (\A u \in Updaters : pc[u] \notin Switched) => current = lastGood
    /\ previous \in Sound \cup {None, Installed}

\* ADR-0006: "Normal update requires target SemVer precedence to be strictly newer".
\* The comparison of any two versions that parse is the precedence of Semantic
\* Versioning, for numbers of any length; the build does not count.  It depends on
\* no variable: the initial state is where it is evaluated.
ComparisonIsPrecedence ==
  Init => \A a, b \in Versions : CompareVersions(a, b) = IF Before(a, b) THEN -1
                                                         ELSE IF Before(b, a) THEN 1 ELSE 0

\* README.md: "Same-version and downgrade attempts are rejected by default."  A
\* switch of an updater without --allow-downgrade goes to a newer version.
NoSilentDowngrade ==
  [][\A u \in Updaters : At(u, "switch") /\ At(u, "restart")' /\ ~forced[u]
       => Newer(current, current')]_vars

\* ADR-0006: "the previous runtime is restarted".  After a failed acceptance the
\* service runs the release from before the switch, unless the updater was ended
\* in between or a later update has switched the link again.
OldReleaseServes ==
  \A u \in Updaters : \A r \in Releases :
    At(u, "roll back") /\ old[u] = r
      ~> running = r \/ abandoned \/ At(u, "restart")
=============================================================================
