------------------------------ MODULE Installer ------------------------------
(***************************************************************************)
(* install/install.sh with its rollback, and install/uninstall.sh, run one *)
(* after the other.  A command may fail, one of rollback too, and a run    *)
(* may be cut off at any step: no one takes it up, the next run starts     *)
(* from what it left.  An update between two runs, systemd and a reboot    *)
(* are here as what they do to the host.  Taken to work: stopping and      *)
(* disabling the service, enabling a unit that is there, rm of one file,   *)
(* userdel and groupdel.                                                   *)
(***************************************************************************)
EXTENDS Naturals, FiniteSets

CONSTANTS Packages,         \* releases, each with its unit file and update script
          Keys,             \* public keys for updates
          Legacy,           \* unit and binary of the layout before releases/
          Edited, Default,  \* contents of control-center.env
          Torn,             \* a file that was not written to its end
          None,             \* no file, link, release or process
          MaxRuns,          \* bound: how many runs of the two scripts there are
          MaxDamaged        \* bound: how many files rollback may leave damaged

Contents == Packages \cup Keys \cup {Legacy, Edited, Default, Torn}

ASSUME ContentsAssumption == /\ None \notin Contents
                             /\ {Legacy, Torn} \cap Packages = {}
                             /\ Legacy # Torn
ASSUME MaxRunsAssumption == MaxRuns \in Nat /\ MaxDamaged \in Nat

VARIABLES files,    \* unit, env, update script, key and legacy binary
          host,     \* the rest: releases/, the two links, the account, the data
                    \* directories, the unit's state and the process
          pc,       \* the next command of the run
          run,      \* the variables of the run; backup is had_*, was_*, old_*;
                    \* history: number of this run; damaged, the files that a
                    \* command has not written to its end or not put back
          verdict   \* history: how the last run ended

vars == <<files, host, pc, run, verdict>>

Files == {"unit", "env", "update", "key", "legacy"}
Present == [files |-> files, host |-> host]

FreshFiles == [f \in Files |-> None]
LegacyFiles == [FreshFiles EXCEPT !["unit"] = Legacy, !["legacy"] = Legacy, !["env"] = Edited]

\* A fresh host, or one with the layout before releases/.
Init == /\ \E legacy \in BOOLEAN :
             /\ files = IF legacy THEN LegacyFiles ELSE FreshFiles
             /\ host = [releases |-> [p \in Packages |-> "absent"], current |-> None,
                        previous |-> None, account |-> legacy, enabled |-> legacy,
                        data |-> IF legacy THEN "used" ELSE "absent",
                        running |-> IF legacy THEN Legacy ELSE None]
        /\ pc = "idle"
        /\ \E p \in Packages :
             run = [number |-> 0, purge |-> FALSE, package |-> p, newKey |-> None,
                    backup |-> Present, created |-> FALSE, twice |-> FALSE, damaged |-> {}]
        /\ verdict = "none"

\* What systemctl start runs: ExecStart of the unit, if that binary is there.
Startable ==
  CASE files["unit"] = Legacy -> files["legacy"]
    [] files["unit"] \in Packages /\ host.current \in Packages ->
         IF host.releases[host.current] = "whole" THEN host.current ELSE None
    [] OTHER -> None

Step(here, next) == pc = here /\ pc' = next
Write(here, next, f) ==
  Step(here, next) /\ files' = f /\ UNCHANGED <<host, run, verdict>>
Change(here, next, h) ==
  Step(here, next) /\ host' = h /\ UNCHANGED <<files, run, verdict>>

-----------------------------------------------------------------------------
(***************************************************************************)
(* install.sh                                                              *)
(***************************************************************************)

\* Preflight and backup change nothing on the host.
BeginInstall == /\ Step("idle", "account")
                /\ run.number < MaxRuns
                /\ \E p \in Packages, key \in Keys \cup {None} :
                     run' = [number |-> run.number + 1, purge |-> FALSE, package |-> p,
                             newKey |-> key, backup |-> Present, created |-> FALSE,
                             twice |-> FALSE, damaged |-> {}]
                /\ verdict' = "none"
                /\ UNCHANGED <<files, host>>

MakeAccount == Change("account", "release", [host EXCEPT !.account = TRUE])

\* The directory is moved to its place, or it is there with the same binary.
MakeRelease ==
  /\ Step("release", "unit")
  /\ host.releases[run.package] # "torn"
  /\ run' = [run EXCEPT !.created = host.releases[run.package] = "absent"]
  /\ host' = [host EXCEPT !.releases[run.package] = "whole"]
  /\ UNCHANGED <<files, verdict>>

InstallUnit == Write("unit", "update", [files EXCEPT !["unit"] = run.package])
InstallUpdate == Write("update", "dirs", [files EXCEPT !["update"] = run.package])

MakeDirs == Change("dirs", "env", [host EXCEPT !.data = IF @ = "absent" THEN "empty" ELSE @])

\* Mutant: control-center.env is written whether it is there or not.
WriteEnvAlways == Write("env", "key", [files EXCEPT !["env"] = Default])

WriteEnv == Write("env", "key", [files EXCEPT !["env"] = IF @ = None THEN Default ELSE @])

WriteKey ==
  Write("key", "bootstrap", [files EXCEPT !["key"] = IF run.newKey = None THEN @ ELSE run.newKey])

\* bootstrap-admin of the new binary.
Bootstrap == Change("bootstrap", "switch", [host EXCEPT !.data = "used"])

\* Mutant: a link that is there stays.
SwitchOnce == Change("switch", "enable",
                [host EXCEPT !.current = IF @ = None THEN run.package ELSE @])

\* The link names the new release.
Switch == Change("switch", "enable", [host EXCEPT !.current = run.package])

Enable == Change("enable", "restart", [host EXCEPT !.enabled = TRUE])

Restart == Startable # None /\ Change("restart", "ready", [host EXCEPT !.running = Startable])

\* The service answers ready: the trap goes, and then the legacy binary.
Complete == /\ Step("ready", "idle")
            /\ host.running # None
            /\ files' = [files EXCEPT !["legacy"] = None]
            /\ verdict' = "completed"
            /\ UNCHANGED <<host, run>>

\* die is an exit, which does not run the ERR trap: the release directory holds
\* other bytes, the key is no file, the service did not become ready.
Die == /\ \/ Step("release", "idle") /\ host.releases[run.package] = "torn"
          \/ Step("key", "idle") /\ run.newKey # None
          \/ Step("ready", "idle")
       /\ verdict' = "died"
       /\ UNCHANGED <<files, host, run>>

\* The step at which rollback puts a file back.
Restoring == [unit |-> "unit_back", env |-> "env_back", update |-> "update_back",
              key |-> "key_back", legacy |-> "legacy_back"]

\* The file that the next command writes, and what is left of it when the command ends
\* before its time.
Writing == {f \in Files : \/ pc = f /\ f \in {"unit", "update"}
                          \/ pc = f /\ f = "env" /\ files[f] = None
                          \/ pc = f /\ f = "key" /\ run.newKey # None
                          \/ pc = Restoring[f] /\ run.backup.files[f] # None}
Unfinished == {files} \cup {[files EXCEPT ![f] = Torn] : f \in Writing}
Damaged == run.damaged \cup {f \in Files : files'[f] # files[f]}

\* A command fails under the ERR trap.  bootstrap-admin may have done its work.  It and
\* the mktemp of a new release are command substitutions: their failure runs rollback
\* there and again in the script.
Fail == /\ pc \in {"account", "release", "unit", "update", "dirs", "env", "key", "bootstrap",
                   "switch", "enable", "restart"}
        /\ pc' = "stop"
        /\ files' \in Unfinished
        /\ host' \in CASE pc = "bootstrap" -> {host, [host EXCEPT !.data = "used"]}
                       [] pc = "restart" -> {[host EXCEPT !.running = None]}
                       [] OTHER -> {host}
        /\ \E again \in BOOLEAN :
             /\ again => \/ pc = "bootstrap"
                         \/ pc = "release" /\ host.releases[run.package] = "absent"
             /\ run' = [run EXCEPT !.twice = again, !.damaged = Damaged]
        /\ UNCHANGED verdict

-----------------------------------------------------------------------------
(***************************************************************************)
(* rollback.  The trap is off and errexit is on: a command that fails ends *)
(* it, which is Cut, but for those that Restore, Resume and Skip name.     *)
(***************************************************************************)

\* Mutant: the service is not stopped.
StopNothing == Change("stop", "current",
                 [host EXCEPT !.enabled = FALSE, !.current = None, !.previous = None])

\* Mutant: the service is stopped and stays enabled.
StopOnly == Change("stop", "current", [host EXCEPT !.running = None, !.current = None,
                                                   !.previous = None])

\* The service is stopped and disabled, and both links are removed.
Stop == Change("stop", "current", [host EXCEPT !.running = None, !.enabled = FALSE,
                                               !.current = None, !.previous = None])

RelinkCurrent ==
  Change("current", "previous", [host EXCEPT !.current = run.backup.host.current])
RelinkPrevious ==
  Change("previous", "unit_back", [host EXCEPT !.previous = run.backup.host.previous])

\* Mutant: a file that was not there before stays.
RestoreKnown(f, next) ==
  /\ Step(Restoring[f], next)
  /\ \/ /\ files' = [files EXCEPT ![f] = IF run.backup.files[f] = None THEN @
                                        ELSE run.backup.files[f]]
        /\ run' = [run EXCEPT !.damaged = @ \ {f}]
     \/ /\ run.backup.files[f] # None /\ Cardinality(run.damaged \cup {f}) <= MaxDamaged
        /\ files' = [files EXCEPT ![f] = None]
        /\ run' = [run EXCEPT !.damaged = @ \cup {f}]
  /\ UNCHANGED <<host, verdict>>

\* The file is copied back, or removed if it was not there.  A copy that fails takes
\* the branch of a file that was not there, and rollback goes on.
Restore(f, next) ==
  /\ Step(Restoring[f], next)
  /\ \/ /\ files' = [files EXCEPT ![f] = run.backup.files[f]]
        /\ run' = [run EXCEPT !.damaged = @ \ {f}]
     \/ /\ run.backup.files[f] # None /\ Cardinality(run.damaged \cup {f}) <= MaxDamaged
        /\ files' = [files EXCEPT ![f] = None]
        /\ run' = [run EXCEPT !.damaged = @ \cup {f}]
  /\ UNCHANGED <<host, verdict>>
RestoreFiles == \/ Restore("unit", "env_back") \/ Restore("env", "update_back")
                \/ Restore("update", "key_back") \/ Restore("key", "legacy_back")
                \/ Restore("legacy", "remove")

RemoveCreated == Change("remove", "resume",
  [host EXCEPT !.releases[run.package] = IF run.created THEN "absent" ELSE @])

\* A unit that is not there is not enabled; the start may fail.  Neither result is
\* looked at.
Resume == \E process \in {None, Startable} :
            /\ run.backup.host.running = None => process = None
            /\ Change("resume", "clean",
                 [host EXCEPT !.enabled = run.backup.host.enabled /\ files["unit"] # None,
                              !.running = process])

\* Directories and account go if they were not there before.
Clean == /\ pc = "clean"
         /\ \E data \in {"absent", host.data} :
              /\ data = "absent" \/ run.backup.host.data # "absent" \/ run.twice
              /\ data = host.data \/ run.backup.host.data = "absent"
              /\ host' = [host EXCEPT !.account = run.backup.host.account, !.data = data]
         /\ IF run.twice THEN pc' = "stop" /\ UNCHANGED verdict
                         ELSE pc' = "idle" /\ verdict' = "rolled_back"
         /\ run' = [run EXCEPT !.twice = FALSE]
         /\ UNCHANGED files

\* In the command substitution errexit is off: a link that fails is passed over, as is
\* the removal of the release (and that of a directory, in Clean).
Skip == /\ run.twice
        /\ \/ Step("current", "previous") /\ UNCHANGED host
           \/ Step("previous", "unit_back") /\ UNCHANGED host
           \/ /\ Step("remove", "resume") /\ run.created
              /\ \/ UNCHANGED host
                 \/ /\ host.releases[run.package] # "absent"
                    /\ host' = [host EXCEPT !.releases[run.package] = "torn"]
        /\ UNCHANGED <<files, run, verdict>>

-----------------------------------------------------------------------------
(***************************************************************************)
(* uninstall.sh                                                            *)
(***************************************************************************)

BeginUninstall == /\ Step("idle", "disable")
                  /\ run.number < MaxRuns
                  /\ \E purge \in BOOLEAN :
                       run' = [run EXCEPT !.number = @ + 1, !.purge = purge, !.newKey = None,
                                           !.backup = Present, !.created = FALSE, !.damaged = {}]
                  /\ verdict' = "none"
                  /\ UNCHANGED <<files, host>>

Disable == Change("disable", "units", [host EXCEPT !.running = None, !.enabled = FALSE])

RemoveUnits == Write("units", "root", [files EXCEPT !["unit"] = None, !["update"] = None])

RemoveRoot == /\ Step("root", "purge")
              /\ files' = [files EXCEPT !["legacy"] = None]
              /\ host' = [host EXCEPT !.releases = [p \in Packages |-> "absent"],
                                      !.current = None, !.previous = None]
              /\ UNCHANGED <<run, verdict>>

Purge == /\ Step("purge", "idle")
         /\ IF run.purge
            THEN /\ files' = [files EXCEPT !["env"] = None, !["key"] = None]
                 /\ host' = [host EXCEPT !.data = "absent", !.account = FALSE]
            ELSE UNCHANGED <<files, host>>
         /\ verdict' = "uninstalled"
         /\ UNCHANGED run

-----------------------------------------------------------------------------
(***************************************************************************)
(* The host.                                                               *)
(***************************************************************************)

\* The files and the rest as a command leaves them that is cut off.
HalfRemoved(releases) ==
  {r \in [Packages -> {"whole", "torn", "absent"}] :
     \A p \in Packages : r[p] \in {releases[p], "absent"}
                                    \cup (IF releases[p] = "whole" THEN {"torn"} ELSE {})}
CutFiles ==
  CASE pc = "units" -> {files, [files EXCEPT !["unit"] = None]}
    [] pc = "root" -> {files, [files EXCEPT !["legacy"] = None]}
    [] pc = "purge" /\ run.purge ->
         {[files EXCEPT !["env"] = env, !["key"] = key] :
            env \in {files["env"], None}, key \in {files["key"], None}}
    [] OTHER -> Unfinished
CutHost ==
  \/ UNCHANGED host
  \/ /\ pc \in {"stop", "disable"}
     /\ \/ host' = [host EXCEPT !.enabled = FALSE]
        \/ pc = "stop" /\ host' = [host EXCEPT !.enabled = FALSE, !.running = None,
                                                !.current = None]
  \/ pc = "remove" /\ run.created /\ host' = [host EXCEPT !.releases[run.package] = "torn"]
  \/ /\ pc = "root"
     /\ \E r \in HalfRemoved(host.releases), c \in {host.current, None}, l \in {host.previous, None} :
          host' = [host EXCEPT !.releases = r, !.current = c, !.previous = l]
  \/ /\ \/ pc = "purge" /\ run.purge
        \/ pc = "clean" /\ run.backup.host.data = "absent"
     /\ host' = [host EXCEPT !.data = "absent"]

Cut == /\ pc # "idle"
       /\ pc' = "idle"
       /\ files' \in CutFiles
       /\ CutHost
       /\ run' = [run EXCEPT !.damaged = Damaged, !.created = FALSE, !.twice = FALSE]
       /\ verdict' = "cut_off"

\* Between two runs the host restarts; at any time the service fails and is started
\* again or given up.
Service == /\ \/ /\ pc = "idle"
                 /\ host' = [host EXCEPT !.running = IF host.enabled THEN Startable ELSE None]
              \/ /\ host.running # None
                 /\ \E process \in {None, Startable} : host' = [host EXCEPT !.running = process]
           /\ UNCHANGED <<files, pc, run, verdict>>

\* update.sh has activated a release.
Updated == /\ pc = "idle"
           /\ files["update"] \in Packages /\ files["unit"] \in Packages
           /\ host.current \in Packages /\ host.releases[host.current] = "whole"
           /\ \E p \in Packages :
                /\ host.releases[p] # "torn"
                /\ host' = [host EXCEPT !.releases[p] = "whole", !.current = p, !.running = p,
                                        !.previous = host.current]
           /\ verdict' = "updated"
           /\ UNCHANGED <<files, pc, run>>

Install == \/ BeginInstall \/ MakeAccount \/ MakeRelease \/ InstallUnit \/ InstallUpdate
           \/ MakeDirs \/ WriteEnv \/ WriteKey \/ Bootstrap \/ Switch \/ Enable \/ Restart
           \/ Complete \/ Die \/ Fail
Rollback == \/ Stop \/ RelinkCurrent \/ RelinkPrevious \/ RestoreFiles \/ RemoveCreated
            \/ Resume \/ Clean \/ Skip
Uninstall == BeginUninstall \/ Disable \/ RemoveUnits \/ RemoveRoot \/ Purge

Next == Install \/ Rollback \/ Uninstall \/ Cut \/ Service \/ Updated

Spec == Init /\ [][Next]_vars

-----------------------------------------------------------------------------
(***************************************************************************)
(* Properties.                                                             *)
(***************************************************************************)

Steps == {"idle", "account", "release", "unit", "update", "dirs", "env", "key", "bootstrap",
          "switch", "enable", "restart", "ready", "stop", "current", "previous", "unit_back",
          "env_back", "update_back", "key_back", "legacy_back", "remove", "resume", "clean", "disable", "units", "root", "purge"}
FilesType == [Files -> Contents \cup {None}]
HostType == [releases : [Packages -> {"whole", "torn", "absent"}],
             current : Packages \cup {None}, previous : Packages \cup {None},
             account : BOOLEAN, enabled : BOOLEAN, data : {"absent", "empty", "used"},
             running : Packages \cup {Legacy, None}]
RunType == [number : 0..MaxRuns, purge : BOOLEAN, package : Packages, newKey : Keys \cup {None},
            backup : [files : FilesType, host : HostType], created : BOOLEAN, twice : BOOLEAN,
            damaged : SUBSET Files]

\* Every variable has its type; the process is a binary, never a torn file.
TypeOK == /\ files \in FilesType
          /\ host \in HostType
          /\ pc \in Steps
          /\ run \in RunType
          /\ verdict \in {"none", "completed", "died", "rolled_back", "cut_off", "uninstalled",
                       "updated"}

\* The runtime is as the run has found it; the data and the process aside.
AsBefore ==
  /\ files = run.backup.files
  /\ host = [run.backup.host EXCEPT !.data = host.data, !.running = host.running]

\* ADR-0002: "A failed transaction restores prior runtime files".  After a rollback
\* every file is as the run has found it or, if it could not be copied back, gone;
\* the links, the releases and the account are as before, and so is the unit unless
\* its file is gone.  Also when rollback ran twice, with failures in between, and when
\* the run was to repair what earlier runs left.
RolledBack ==
  verdict = "rolled_back" =>
    LET before == run.backup IN
    /\ files = [f \in Files |-> IF f \in run.damaged THEN None ELSE before.files[f]]
    /\ host = [before.host EXCEPT !.data = host.data, !.running = host.running,
                                  !.enabled = @ /\ "unit" \notin run.damaged]

\* ADR-0002: "Health failure makes installation fail closed and invokes rollback of
\* runtime files".  What ends with an error of its own leaves the runtime as before.
FailureRollsBack == verdict = "died" => AsBefore

\* No run takes the binary away from under the running service, whatever was
\* installed before and wherever a run is cut off.
RunningIsWhole == /\ host.running = Legacy => files["legacy"] # None
                  /\ host.running \in Packages => host.releases[host.running] = "whole"

\* README.md, ADR-0002: repair and reinstall preserve configuration and state, only
\* --purge removes them.  At every step of every run, failed or cut off, the users that
\* it has found are there, and so are the settings and the key, or the key that it was
\* given; but for the file that a command could not write or put back.
Preserved ==
  ~run.purge =>
    LET before == run.backup IN
    /\ before.host.data = "used" => host.data = "used"
    /\ before.files["env"] # None /\ "env" \notin run.damaged =>
         files["env"] = before.files["env"]
    /\ before.files["key"] # None /\ "key" \notin run.damaged =>
         files["key"] \in {before.files["key"], run.newKey}

\* Whatever earlier runs left, a run that completes leaves its own release, complete
\* and enabled, a state with users, the settings that it has found or the default, and
\* the key that it was given or has found.
CompletedIsWhole ==
  verdict = "completed" =>
    LET before == run.backup.files IN
    /\ host.current = run.package /\ host.releases[run.package] = "whole"
    /\ files["unit"] = run.package /\ files["update"] = run.package /\ files["legacy"] = None
    /\ files["env"] = IF before["env"] = None THEN Default ELSE before["env"]
    /\ files["key"] = IF run.newKey = None THEN before["key"] ELSE run.newKey
    /\ host.account /\ host.enabled /\ host.data = "used"
=============================================================================
