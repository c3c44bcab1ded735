--------------------------- MODULE InstallerProofs ---------------------------
(***************************************************************************)
(* What Installer guarantees for any packages and keys, any number of runs *)
(* that fail or are cut off, and any number of files that rollback cannot  *)
(* put back.                                                               *)
(***************************************************************************)
EXTENDS Installer, TLAPS

\* A unit that is enabled is there; a legacy one that may be started has its binary,
\* whole, or none.
UnitIn(f, h) ==
  /\ h.enabled => f["unit"] # None
  /\ f["unit"] = Legacy /\ (h.enabled \/ h.running # None) => f["legacy"] \in {Legacy, None}

\* Rollback has dealt with the file.
Back(f) == files[f] = IF f \in run.damaged THEN None ELSE run.backup.files[f]

Ended == {"remove", "resume", "clean"}
RestoreSteps == {"unit_back", "env_back", "update_back", "key_back", "legacy_back"}
Stopped == {"current", "previous", "remove", "resume", "units", "root", "purge"} \cup RestoreSteps
UnitWritten == {"update", "dirs", "env", "key", "bootstrap", "switch", "enable", "restart",
                "ready"}

\* What the service may run is there, before the run and now; rollback and
\* uninstallation have stopped it before they take anything away.
ServiceInv ==
  /\ UnitIn(files, host) /\ UnitIn(run.backup.files, run.backup.host)
  /\ pc \in Stopped => host.running = None /\ ~host.enabled
  /\ pc \in {"root", "purge"} => files["unit"] = None
  /\ pc \in UnitWritten => files["unit"] = run.package
  /\ pc = "ready" => host.running # Legacy

\* The files that rollback has dealt with so far.
BackInv ==
  /\ pc \in {"env_back", "update_back", "key_back", "legacy_back"} \cup Ended => Back("unit")
  /\ pc \in {"update_back", "key_back", "legacy_back"} \cup Ended => Back("env")
  /\ pc \in {"key_back", "legacy_back"} \cup Ended => Back("update")
  /\ pc \in {"legacy_back"} \cup Ended => Back("key")
  /\ pc \in Ended => Back("legacy")

SafeInv == TypeOK /\ RunningIsWhole /\ ServiceInv /\ BackInv

\* A transaction of install.sh, from its first command to its end or its rollback.
Transaction == {"account", "release", "unit", "stop", "current", "previous"}
                  \cup RestoreSteps \cup Ended \cup UnitWritten

\* What the rollback still has to restore, and that it can.  Of two rollbacks the
\* first may have passed over a link or the release.
UndoInv ==
  LET before == run.backup.host IN
  /\ pc # "idle" => verdict = "none"
  /\ pc \in Transaction =>
       /\ run.created => before.releases[run.package] = "absent"
       /\ \/ host.releases = before.releases
          \/ /\ run.created
             /\ \E status \in {"whole", "torn"} :
                  host.releases = [before.releases EXCEPT ![run.package] = status]
  /\ pc \in {"account", "release"} => ~run.created
  /\ ~run.twice /\ pc \in {"previous"} \cup RestoreSteps \cup Ended =>
       host.current = before.current
  /\ ~run.twice /\ pc \in RestoreSteps \cup Ended => host.previous = before.previous
  /\ ~run.twice /\ pc \in {"resume", "clean"} => host.releases = before.releases
  /\ pc = "clean" => host.enabled = (before.enabled /\ files["unit"] # None)

\* What the installation has done so far stays done.
ProgressInv ==
  LET before == run.backup.files IN
  /\ pc \in {"release", "unit"} \cup UnitWritten => host.account
  /\ pc \in {"unit"} \cup UnitWritten => host.releases[run.package] = "whole"
  /\ pc \in UnitWritten \ {"update"} => files["update"] = run.package
  /\ pc \in {"account", "release", "unit", "update", "dirs", "env"} => files["env"] = before["env"]
  /\ pc \in {"key", "bootstrap", "switch", "enable", "restart", "ready"} =>
       files["env"] = IF before["env"] = None THEN Default ELSE before["env"]
  /\ pc \in {"account", "release", "unit", "update", "dirs", "env", "key"} =>
       files["key"] = before["key"]
  /\ pc \in {"bootstrap", "switch", "enable", "restart", "ready"} =>
       files["key"] = IF run.newKey = None THEN before["key"] ELSE run.newKey
  /\ pc \in {"switch", "enable", "restart", "ready"} => host.data = "used"
  /\ pc \in {"enable", "restart", "ready"} => host.current = run.package
  /\ pc \in {"restart", "ready"} => host.enabled

Inv == SafeInv /\ UndoInv /\ RolledBack /\ ProgressInv /\ CompletedIsWhole /\ Preserved

-----------------------------------------------------------------------------
\* The fields of a run that the steps read.
LEMMA RunFields ==
  ASSUME TypeOK
  PROVE  /\ run.package \in Packages /\ run.newKey \in Keys \cup {None}
         /\ run.backup.files \in FilesType /\ run.backup.host \in HostType
         /\ run.created \in BOOLEAN /\ run.twice \in BOOLEAN /\ run.purge \in BOOLEAN
         /\ run.damaged \in SUBSET Files
BY DEF TypeOK, RunType

\* What may be started is a package that is whole, the legacy binary, or nothing.
LEMMA StartableIsWhole ==
  ASSUME TypeOK, files["unit"] = Legacy => files["legacy"] \in {Legacy, None}
  PROVE  /\ Startable \in Packages \cup {Legacy, None}
         /\ Startable \in Packages => host.releases[Startable] = "whole"
         /\ Startable = Legacy => files["unit"] = Legacy
<1>1. CASE files["unit"] = Legacy
  BY <1>1, ContentsAssumption DEF Startable, Contents
<1>2. CASE files["unit"] # Legacy
  <2>1. \/ Startable = None
        \/ Startable = host.current /\ host.current \in Packages
           /\ host.releases[host.current] = "whole"
    BY <1>2 DEF Startable
  <2>2. Legacy # None /\ Legacy \notin Packages /\ None \notin Packages
    BY ContentsAssumption DEF Contents
  <2> QED
    BY <1>2, <2>1, <2>2
<1> QED
  BY <1>1, <1>2

\* There is room for one more run.
LEMMA NextNumber ==
  ASSUME NEW n \in 0..MaxRuns, n < MaxRuns
  PROVE  n + 1 \in 0..MaxRuns
BY MaxRunsAssumption

\* What a command leaves that is cut off has its type.
LEMMA CutType ==
  ASSUME TypeOK, Cut
  PROVE  files' \in FilesType /\ host' \in HostType
<1>1. files \in FilesType /\ host \in HostType /\ run.backup.files \in FilesType
  BY RunFields DEF TypeOK
<1>2. Unfinished \subseteq FilesType
  BY <1>1 DEF Unfinished, FilesType, Contents
<1>3. CutFiles \subseteq FilesType
  <2>1. [files EXCEPT !["unit"] = None] \in FilesType
    BY <1>1 DEF FilesType
  <2>2. [files EXCEPT !["legacy"] = None] \in FilesType
    BY <1>1 DEF FilesType
  <2>3. \A env \in {files["env"], None}, key \in {files["key"], None} :
          [files EXCEPT !["env"] = env, !["key"] = key] \in FilesType
    BY <1>1 DEF FilesType, Files
  <2>4. ASSUME NEW g \in CutFiles
        PROVE  \/ g \in Unfinished \cup {files}
               \/ g = [files EXCEPT !["unit"] = None] \/ g = [files EXCEPT !["legacy"] = None]
               \/ \E env \in {files["env"], None}, key \in {files["key"], None} :
                    g = [files EXCEPT !["env"] = env, !["key"] = key]
    <3>1. CASE pc = "purge" /\ run.purge
      BY <3>1 DEF CutFiles
    <3>2. CASE pc = "units" \/ pc = "root"
      BY <3>2 DEF CutFiles
    <3>3. CASE ~(pc = "purge" /\ run.purge) /\ pc # "units" /\ pc # "root"
      BY <3>3 DEF CutFiles
    <3> QED
      BY <3>1, <3>2, <3>3
  <2> QED
    BY <1>1, <1>2, <2>1, <2>2, <2>3, <2>4
<1>4. HalfRemoved(host.releases) \subseteq [Packages -> {"whole", "torn", "absent"}]
  BY DEF HalfRemoved
<1>5. host' \in HostType
  <2>1. CutHost
    BY DEF Cut
  <2>2. CASE \E r \in HalfRemoved(host.releases), c \in {host.current, None},
                l \in {host.previous, None} :
               host' = [host EXCEPT !.releases = r, !.current = c, !.previous = l]
    BY <1>1, <1>4, <2>2 DEF HostType
  <2>3. CASE host' = [host EXCEPT !.releases[run.package] = "torn"]
    BY <1>1, <2>3 DEF HostType
  <2>4. CASE host' = [host EXCEPT !.data = "absent"]
    BY <1>1, <2>4 DEF HostType
  <2>5. CASE host' = [host EXCEPT !.enabled = FALSE]
    BY <1>1, <2>5 DEF HostType
  <2>6. CASE host' = [host EXCEPT !.enabled = FALSE, !.running = None, !.current = None]
    BY <1>1, <2>6 DEF HostType
  <2> QED
    BY <1>1, <2>1, <2>2, <2>3, <2>4, <2>5, <2>6 DEF CutHost
<1> QED
  BY <1>3, <1>5 DEF Cut

\* A command that fails or is cut off leaves the run, and the file in the middle.
LEMMA RunOfFailure ==
  ASSUME TypeOK, Fail \/ Cut
  PROVE  /\ run' \in RunType
         /\ run'.backup = run.backup /\ run'.package = run.package
         /\ run'.newKey = run.newKey /\ run'.purge = run.purge
         /\ run'.damaged = Damaged
         /\ run'.created \in {run.created, FALSE}
         /\ Fail => run'.created = run.created
<1>1. run \in RunType /\ Damaged \in SUBSET Files
  BY RunFields DEF TypeOK, Damaged
<1>2. CASE Fail
  <2>1. PICK again \in BOOLEAN : run' = [run EXCEPT !.twice = again, !.damaged = Damaged]
    BY <1>2 DEF Fail
  <2> QED
    BY <1>1, <2>1 DEF RunType
<1>3. CASE Cut
  <2>1. run' = [run EXCEPT !.damaged = Damaged, !.created = FALSE, !.twice = FALSE]
    BY <1>3 DEF Cut
  <2>2. ~Fail
    BY <1>3 DEF Cut, Fail
  <2> QED
    BY <1>1, <2>1, <2>2 DEF RunType
<1> QED
  BY <1>2, <1>3

\* A step that puts a file back leaves it as before or takes it away, and knows which.
After == [unit |-> "env_back", env |-> "update_back", update |-> "key_back",
          key |-> "legacy_back", legacy |-> "remove"]
Restores(f) ==
  /\ pc = Restoring[f] /\ pc' = After[f]
  /\ files' \in [Files -> Contents \cup {None}]
  /\ files'[f] = IF f \in run'.damaged THEN None ELSE run.backup.files[f]
  /\ \A g \in Files \ {f} : files'[g] = files[g] /\ (g \in run'.damaged <=> g \in run.damaged)
  /\ run' = [run EXCEPT !.damaged = run'.damaged] /\ run'.damaged \in SUBSET Files
  /\ UNCHANGED <<host, verdict>>

LEMMA RestoreStep ==
  ASSUME TypeOK, RestoreFiles
  PROVE  \E f \in Files : Restores(f)
<1>1. ASSUME NEW f \in Files, Restore(f, After[f])
      PROVE  Restores(f)
  <2>1. /\ files \in [Files -> Contents \cup {None}] /\ run.damaged \in SUBSET Files
        /\ run.backup.files \in [Files -> Contents \cup {None}] /\ run \in RunType
    BY RunFields DEF TypeOK, FilesType
  <2>2. pc = Restoring[f] /\ pc' = After[f] /\ UNCHANGED <<host, verdict>>
    BY <1>1 DEF Restore, Step
  <2>3. CASE /\ files' = [files EXCEPT ![f] = run.backup.files[f]]
             /\ run' = [run EXCEPT !.damaged = @ \ {f}]
    <3>1. run'.damaged = run.damaged \ {f}
      BY <2>1, <2>3 DEF RunType
    <3> QED
      BY <2>1, <2>2, <2>3, <3>1 DEF Restores
  <2>4. CASE /\ files' = [files EXCEPT ![f] = None]
             /\ run' = [run EXCEPT !.damaged = @ \cup {f}]
    <3>1. run'.damaged = run.damaged \cup {f}
      BY <2>1, <2>4 DEF RunType
    <3> QED
      BY <2>1, <2>2, <2>4, <3>1 DEF Restores
  <2> QED
    BY <1>1, <2>3, <2>4 DEF Restore
<1>2. \E f \in Files : Restore(f, After[f])
  BY DEF RestoreFiles, After, Files
<1> QED
  BY <1>1, <1>2

\* What a run knows of the host is how it has found it.
LEMMA Begun ==
  ASSUME TypeOK, BeginInstall \/ BeginUninstall
  PROVE  /\ run'.backup.files = files /\ run'.backup.host = host
         /\ UNCHANGED <<files, host>>
         /\ BeginInstall => run'.created = FALSE
<1>1. CASE BeginInstall
  <2>1. PICK p \in Packages, key \in Keys \cup {None} :
          run' = [number |-> run.number + 1, purge |-> FALSE, package |-> p, newKey |-> key,
                  backup |-> Present, created |-> FALSE, twice |-> FALSE, damaged |-> {}]
    BY <1>1 DEF BeginInstall
  <2> QED
    BY <1>1, <2>1 DEF BeginInstall, Present
<1>2. CASE BeginUninstall
  <2>1. PICK purge \in BOOLEAN :
          run' = [run EXCEPT !.number = @ + 1, !.purge = purge, !.newKey = None,
                             !.backup = Present, !.created = FALSE, !.damaged = {}]
    BY <1>2 DEF BeginUninstall
  <2>2. run'.backup = Present
    BY <2>1 DEF TypeOK, RunType
  <2>3. pc' # "account" /\ files' = files /\ host' = host
    BY <1>2 DEF BeginUninstall, Step
  <2> QED
    BY <2>2, <2>3 DEF BeginInstall, Step, Present
<1> QED
  BY <1>1, <1>2

\* The invariant holds at first.
LEMMA SafeInit == Init => SafeInv
<1> SUFFICES ASSUME Init PROVE SafeInv
  OBVIOUS
<1> USE ContentsAssumption, MaxRunsAssumption DEF Init
<1>1. files \in FilesType
  BY DEF FilesType, FreshFiles, LegacyFiles, Files, Contents
<1>2. host \in HostType
  BY DEF HostType
<1>3. run \in RunType
  BY <1>1, <1>2 DEF RunType, Present
<1>4. TypeOK
  BY <1>1, <1>2, <1>3 DEF TypeOK, Steps
<1>5. RunningIsWhole
  BY DEF RunningIsWhole, FreshFiles, LegacyFiles, Files, Contents
<1>6. UnitIn(files, host)
  <2>1. \/ files["unit"] = None /\ ~host.enabled
        \/ files["unit"] = Legacy /\ files["legacy"] = Legacy
    BY DEF FreshFiles, LegacyFiles, Files
  <2>2. None # Legacy
    BY DEF Contents
  <2> QED
    BY <2>1, <2>2 DEF UnitIn
<1>7. run.backup.files = files /\ run.backup.host = host /\ pc = "idle"
  BY DEF Present
<1>8. ServiceInv
  BY <1>6, <1>7 DEF ServiceInv, Stopped, RestoreSteps, UnitWritten
<1>9. BackInv
  BY <1>7 DEF BackInv, Ended
<1> QED
  BY <1>4, <1>5, <1>8, <1>9 DEF SafeInv

\* The service was started before, so the legacy binary was there, and is or is gone.
LEMMA ResumedLegacy ==
  ASSUME TypeOK, ServiceInv, BackInv, pc \in Ended, files["unit"] = Legacy,
         run.backup.host.running # None \/ run.backup.host.enabled
  PROVE  files["legacy"] \in {Legacy, None}
<1>1. Back("unit") /\ Back("legacy")
  BY DEF BackInv
<1>2. Legacy # None
  BY ContentsAssumption DEF Contents
<1>3. run.backup.files["unit"] = Legacy
  BY <1>1, <1>2 DEF Back
<1>4. run.backup.files["legacy"] \in {Legacy, None}
  BY <1>3 DEF ServiceInv, UnitIn
<1> QED
  BY <1>1, <1>4 DEF Back

\* Every command leaves files and host of their types.  What it may start is no torn
\* file: that needs ServiceInv.
LEMMA TypeNext ==
  ASSUME SafeInv, [Next]_vars
  PROVE  TypeOK'
<1> TypeOK /\ ServiceInv /\ BackInv
  BY DEF SafeInv
<1> USE RunFields DEF TypeOK, Step, Write, Change, Steps
<1>1. CASE BeginInstall
  <2>1. run.number + 1 \in 0..MaxRuns
    <3>1. run.number \in 0..MaxRuns /\ run.number < MaxRuns
      BY <1>1 DEF BeginInstall, RunType
    <3> QED
      BY <3>1, NextNumber
  <2>2. Present \in [files : FilesType, host : HostType]
    BY DEF Present
  <2>3. run' \in RunType
    <3>1. PICK p \in Packages, key \in Keys \cup {None} :
            run' = [number |-> run.number + 1, purge |-> FALSE, package |-> p, newKey |-> key,
                    backup |-> Present, created |-> FALSE, twice |-> FALSE, damaged |-> {}]
      BY <1>1 DEF BeginInstall
    <3> QED
      BY <2>1, <2>2, <3>1 DEF RunType
  <2> QED
    BY <1>1, <2>3 DEF BeginInstall
<1>2. CASE MakeAccount
  BY <1>2 DEF MakeAccount, HostType
<1>3. CASE MakeRelease
  BY <1>3 DEF MakeRelease, HostType, RunType
<1>4. CASE InstallUnit
  BY <1>4 DEF InstallUnit, FilesType, Files, Contents
<1>5. CASE InstallUpdate
  BY <1>5 DEF InstallUpdate, FilesType, Files, Contents
<1>6. CASE MakeDirs
  BY <1>6 DEF MakeDirs, HostType
<1>7. CASE WriteEnv
  BY <1>7 DEF WriteEnv, FilesType, Files, Contents
<1>8. CASE WriteKey
  BY <1>8 DEF WriteKey, FilesType, Files, Contents
<1>9. CASE Bootstrap
  BY <1>9 DEF Bootstrap, HostType
<1>10. CASE Switch
  BY <1>10 DEF Switch, HostType
<1>11. CASE Enable
  BY <1>11 DEF Enable, HostType
<1>12. CASE Restart
  <2>1. files["unit"] # Legacy
    BY <1>12, ContentsAssumption DEF Restart, ServiceInv, UnitWritten
  <2>2. host' \in HostType
    BY <1>12, <2>1, StartableIsWhole DEF Restart, HostType
  <2> QED
    BY <1>12, <2>2 DEF Restart
<1>13. CASE Complete
  BY <1>13 DEF Complete, FilesType, Files, Contents
<1>14. CASE Die
  BY <1>14 DEF Die
<1>15. CASE Fail
  <2>1. files' \in FilesType
    BY <1>15 DEF Fail, Unfinished, FilesType, Contents
  <2>2. host' \in HostType
    <3>1. \/ host' = host
          \/ host' = [host EXCEPT !.data = "used"]
          \/ host' = [host EXCEPT !.running = None]
      BY <1>15 DEF Fail
    <3> QED
      BY <3>1 DEF HostType
  <2>3. run' \in RunType
    BY <1>15, RunOfFailure
  <2> QED
    BY <1>15, <2>1, <2>2, <2>3 DEF Fail
<1>16. CASE Stop
  BY <1>16 DEF Stop, HostType
<1>17. CASE RelinkCurrent
  BY <1>17 DEF RelinkCurrent, HostType
<1>18. CASE RelinkPrevious
  BY <1>18 DEF RelinkPrevious, HostType
<1>19. CASE RestoreFiles
  <2>1. PICK f \in Files : Restores(f)
    BY <1>19, RestoreStep
  <2>2. run' \in RunType
    BY <2>1 DEF Restores, RunType
  <2>3. pc' \in Steps
    BY <2>1 DEF Restores, After, Files
  <2> QED
    BY <2>1, <2>2, <2>3 DEF Restores, FilesType
<1>20. CASE RemoveCreated
  <2> DEFINE status == IF run.created THEN "absent" ELSE host.releases[run.package]
  <2>1. status \in {"whole", "torn", "absent"}
    BY DEF HostType
  <2>2. host' = [host EXCEPT !.releases[run.package] = status]
    BY <1>20 DEF RemoveCreated
  <2> HIDE DEF status
  <2>3. host' \in HostType
    BY <2>1, <2>2 DEF HostType
  <2> QED
    BY <1>20, <2>3 DEF RemoveCreated
<1>21. CASE Resume
  <2>1. PICK process \in {None, Startable} :
          /\ run.backup.host.running = None => process = None
          /\ host' = [host EXCEPT !.enabled = run.backup.host.enabled /\ files["unit"] # None,
                                  !.running = process]
    BY <1>21 DEF Resume
  <2>2. process \in Packages \cup {Legacy, None}
    <3>1. pc = "resume"
      BY <1>21 DEF Resume
    <3>2. CASE run.backup.host.running = None
      BY <2>1, <3>2
    <3>3. CASE run.backup.host.running # None
      <4>1. files["unit"] = Legacy => files["legacy"] \in {Legacy, None}
        BY <3>1, <3>3, ResumedLegacy DEF Ended
      <4> QED
        BY <2>1, <4>1, StartableIsWhole
    <3> QED
      BY <3>2, <3>3
  <2>3. run.backup.host.enabled \in BOOLEAN
    BY DEF HostType
  <2>4. host' \in HostType
    BY <2>1, <2>2, <2>3, ZenonT(30) DEF HostType
  <2> QED
    BY <1>21, <2>4 DEF Resume
<1>22. CASE Clean
  <2>1. host' \in HostType
    <3>1. PICK data \in {"absent", host.data} :
            host' = [host EXCEPT !.account = run.backup.host.account, !.data = data]
      BY <1>22 DEF Clean
    <3> QED
      BY <3>1 DEF HostType
  <2>2. run' \in RunType
    BY <1>22 DEF Clean, RunType
  <2> QED
    BY <1>22, <2>1, <2>2 DEF Clean
<1>23. CASE BeginUninstall
  <2>1. run.number + 1 \in 0..MaxRuns
    <3>1. run.number \in 0..MaxRuns /\ run.number < MaxRuns
      BY <1>23 DEF BeginUninstall, RunType
    <3> QED
      BY <3>1, NextNumber
  <2>2. Present \in [files : FilesType, host : HostType]
    BY DEF Present
  <2>3. run' \in RunType
    BY <1>23, <2>1, <2>2, ZenonT(30) DEF BeginUninstall, RunType
  <2> QED
    BY <1>23, <2>3 DEF BeginUninstall
<1>24. CASE Disable
  BY <1>24 DEF Disable, HostType
<1>25. CASE RemoveUnits
  BY <1>25 DEF RemoveUnits, FilesType, Files, Contents
<1>26. CASE RemoveRoot
  BY <1>26 DEF RemoveRoot, HostType, FilesType, Files, Contents
<1>27. CASE Purge
  <2>1. files' \in FilesType
    BY <1>27 DEF Purge, FilesType, Files, Contents
  <2>2. host' \in HostType
    <3>1. \/ host' = host
          \/ host' = [host EXCEPT !.data = "absent", !.account = FALSE]
      BY <1>27 DEF Purge
    <3> QED
      BY <3>1 DEF HostType
  <2> QED
    BY <1>27, <2>1, <2>2 DEF Purge
<1>28. CASE Cut
  BY <1>28, CutType, RunOfFailure DEF Cut
<1>29. CASE Service
  <2>1. PICK process : /\ host' = [host EXCEPT !.running = process]
                       /\ \/ process = None
                          \/ process = Startable /\ (host.enabled \/ host.running # None)
    BY <1>29 DEF Service
  <2>2. process \in Packages \cup {Legacy, None}
    BY <2>1, StartableIsWhole DEF ServiceInv, UnitIn
  <2>3. host' \in HostType
    BY <2>1, <2>2 DEF HostType
  <2> QED
    BY <1>29, <2>3 DEF Service
<1>30. CASE Updated
  <2>1. PICK p \in Packages :
          host' = [host EXCEPT !.releases[p] = "whole", !.current = p, !.running = p,
                               !.previous = host.current]
    BY <1>30 DEF Updated
  <2>2. host.current \in Packages
    BY <1>30 DEF Updated
  <2>3. host' \in HostType
    BY <2>1, <2>2 DEF HostType
  <2> QED
    BY <1>30, <2>3 DEF Updated
<1>31. CASE Skip
  <2>1. host' = host \/ host' = [host EXCEPT !.releases[run.package] = "torn"]
    BY <1>31 DEF Skip
  <2>2. host' \in HostType
    BY <2>1 DEF HostType
  <2> QED
    BY <1>31, <2>2 DEF Skip
<1>32. CASE UNCHANGED vars
  BY <1>32 DEF vars
<1> QED
  BY <1>1, <1>2, <1>3, <1>4, <1>5, <1>6, <1>7, <1>8, <1>9, <1>10, <1>11, <1>12,
     <1>13, <1>14, <1>15, <1>16, <1>17, <1>18, <1>19, <1>20, <1>21, <1>22, <1>23,
     <1>24, <1>25, <1>26, <1>27, <1>28, <1>29, <1>30, <1>31, <1>32 DEF Next, Install,
     Rollback, Uninstall

\* No step takes the binary of the service away.
LEMMA SafeNext ==
  ASSUME SafeInv, [Next]_vars
  PROVE  SafeInv'
<1>0. TypeOK /\ TypeOK' /\ RunningIsWhole /\ ServiceInv /\ BackInv
  BY TypeNext DEF SafeInv
<1> SUFFICES RunningIsWhole' /\ ServiceInv' /\ BackInv'
  BY <1>0 DEF SafeInv
<1> /\ files \in FilesType /\ host \in HostType /\ files' \in FilesType /\ host' \in HostType
    /\ run.package \in Packages /\ run.backup.files \in FilesType /\ run.backup.host \in HostType
    /\ run \in RunType /\ RunningIsWhole /\ ServiceInv /\ BackInv
  BY <1>0, RunFields DEF TypeOK
<1> USE ContentsAssumption DEF RunningIsWhole, ServiceInv, UnitIn, BackInv, Back, Stopped,
          RestoreSteps, Ended, UnitWritten, Step, Write, Change,
      FilesType, HostType, Files, Contents
<1>1. CASE BeginInstall
  BY <1>1 DEF BeginInstall, Present
<1>2. CASE MakeAccount
  BY <1>2 DEF MakeAccount
<1>3. CASE MakeRelease
  BY <1>3 DEF MakeRelease
<1>4. CASE InstallUnit
  BY <1>4 DEF InstallUnit
<1>5. CASE InstallUpdate
  BY <1>5 DEF InstallUpdate
<1>6. CASE MakeDirs
  BY <1>6 DEF MakeDirs
<1>7. CASE WriteEnv
  BY <1>7 DEF WriteEnv
<1>8. CASE WriteKey
  BY <1>8 DEF WriteKey
<1>9. CASE Bootstrap
  BY <1>9 DEF Bootstrap
<1>10. CASE Switch
  BY <1>10 DEF Switch
<1>11. CASE Enable
  BY <1>11 DEF Enable
<1>12. CASE Restart
  <2>1. /\ files["unit"] = run.package /\ pc = "restart" /\ pc' = "ready"
        /\ files' = files /\ run' = run /\ host' = [host EXCEPT !.running = Startable]
        /\ Startable # None
    BY <1>12 DEF Restart
  <2>2. files["unit"] # Legacy /\ Startable # Legacy
    BY <1>0, <2>1, StartableIsWhole
  <2>3. Startable \in Packages /\ host.releases[Startable] = "whole"
    BY <1>0, <2>1, <2>2, StartableIsWhole
  <2> QED
    BY <2>1, <2>2, <2>3
<1>13. CASE Complete
  BY <1>13 DEF Complete
<1>14. CASE Die
  BY <1>14 DEF Die
<1>15. CASE Fail
  <2>1. run'.backup = run.backup /\ pc' = "stop" /\ files' \in Unfinished
    BY <1>0, <1>15, RunOfFailure DEF Fail
  <2>2. /\ host'.enabled = host.enabled /\ host'.running \in {host.running, None}
        /\ host'.releases = host.releases
    <3>1. \/ host' = host
          \/ host' = [host EXCEPT !.data = "used"]
          \/ host' = [host EXCEPT !.running = None]
      BY <1>15 DEF Fail
    <3> QED
      BY <3>1
  <2>3. files'["legacy"] = files["legacy"] /\ files'["unit"] \in {files["unit"], Torn}
    <3>1. pc # "legacy_back"
      BY <1>15 DEF Fail
    <3> QED
      BY <2>1, <3>1 DEF Unfinished, Writing, Restoring
  <2> QED
    BY <2>1, <2>2, <2>3
<1>16. CASE Stop
  BY <1>16 DEF Stop
<1>17. CASE RelinkCurrent
  BY <1>17 DEF RelinkCurrent
<1>18. CASE RelinkPrevious
  BY <1>18 DEF RelinkPrevious
<1>19. CASE RestoreFiles
  <2>1. PICK f \in Files : Restores(f)
    BY <1>0, <1>19, RestoreStep
  <2>2. host' = host /\ run'.backup = run.backup /\ host.running = None /\ ~host.enabled
    BY <2>1 DEF Restores, Restoring, RunType
  <2>3. RunningIsWhole' /\ ServiceInv'
    BY <2>1, <2>2 DEF Restores, After
  <2>4. Back(f)' /\ \A g \in Files \ {f} : Back(g) => Back(g)'
    BY <2>1, <2>2 DEF Restores
  <2>5. BackInv'
    BY <2>1, <2>4 DEF Restores, Restoring, After
  <2> QED
    BY <2>3, <2>5
<1>20. CASE RemoveCreated
  <2>1. /\ pc = "remove" /\ pc' = "resume" /\ files' = files /\ run' = run
        /\ host'.running = host.running /\ host'.enabled = host.enabled
    BY <1>20 DEF RemoveCreated
  <2> QED
    BY <2>1
<1>21. CASE Resume
  <2>1. PICK process \in {None, Startable} :
          /\ run.backup.host.running = None => process = None
          /\ host' = [host EXCEPT !.enabled = run.backup.host.enabled /\ files["unit"] # None,
                                  !.running = process]
    BY <1>21 DEF Resume
  <2>2. pc = "resume" /\ pc' = "clean" /\ files' = files /\ run' = run
    BY <1>21 DEF Resume
  <2>3. /\ host'.enabled = (run.backup.host.enabled /\ files["unit"] # None)
        /\ host'.running = process
        /\ host'.releases = host.releases
    BY <2>1
  <2>4. files["unit"] = Legacy /\ (process # None \/ host'.enabled) =>
          files["legacy"] \in {Legacy, None}
    BY <1>0, <2>1, <2>2, <2>3, ResumedLegacy
  <2>5. process # None => /\ process \in Packages => host.releases[process] = "whole"
                          /\ process = Legacy => files["unit"] = Legacy
                          /\ process = Legacy => files["legacy"] # None
    BY <1>0, <2>1, <2>4, StartableIsWhole DEF Startable
  <2>6. RunningIsWhole'
    BY <2>2, <2>3, <2>5
  <2>7. ServiceInv'
    BY <2>2, <2>3, <2>4
  <2>8. BackInv'
    BY <2>2
  <2> QED
    BY <2>6, <2>7, <2>8
<1>22. CASE Clean
  <2>1. /\ pc = "clean" /\ pc' \in {"stop", "idle"} /\ files' = files
        /\ host'.running = host.running /\ host'.enabled = host.enabled
        /\ host'.releases = host.releases
        /\ run'.backup = run.backup /\ run'.damaged = run.damaged
    <3>1. PICK data \in {"absent", host.data} :
            host' = [host EXCEPT !.account = run.backup.host.account, !.data = data]
      BY <1>22 DEF Clean
    <3>2. pc = "clean" /\ pc' \in {"stop", "idle"} /\ files' = files
      BY <1>22 DEF Clean
    <3>3. run'.backup = run.backup /\ run'.damaged = run.damaged
      BY <1>22 DEF Clean, RunType
    <3> QED
      BY <3>1, <3>2, <3>3
  <2> QED
    BY <2>1
<1>23. CASE BeginUninstall
  BY <1>23 DEF BeginUninstall, Present
<1>24. CASE Disable
  BY <1>24 DEF Disable
<1>25. CASE RemoveUnits
  BY <1>25 DEF RemoveUnits
<1>26. CASE RemoveRoot
  BY <1>26 DEF RemoveRoot
<1>27. CASE Purge
  <2>1. /\ pc = "purge" /\ pc' = "idle" /\ run' = run
        /\ host'.running = host.running /\ host'.enabled = host.enabled
        /\ host'.releases = host.releases
        /\ files'["unit"] = files["unit"] /\ files'["legacy"] = files["legacy"]
    <3>1. CASE run.purge
      <4>1. /\ files' = [files EXCEPT !["env"] = None, !["key"] = None]
            /\ host' = [host EXCEPT !.data = "absent", !.account = FALSE]
            /\ pc = "purge" /\ pc' = "idle" /\ run' = run
        BY <1>27, <3>1 DEF Purge
      <4> QED
        BY <4>1
    <3>2. CASE ~run.purge
      BY <1>27, <3>2 DEF Purge
    <3> QED
      BY <3>1, <3>2
  <2> QED
    BY <2>1
<1>28. CASE Cut
  <2>1. pc' = "idle" /\ run'.backup = run.backup /\ files' \in CutFiles /\ CutHost
    BY <1>0, <1>28, RunOfFailure DEF Cut
  <2>2. /\ host'.running \in {host.running, None}
        /\ host'.enabled \in {host.enabled, FALSE}
    <3>1. CASE \E r \in HalfRemoved(host.releases), c \in {host.current, None},
                  l \in {host.previous, None} :
                 host' = [host EXCEPT !.releases = r, !.current = c, !.previous = l]
      BY <3>1
    <3>2. CASE host' = [host EXCEPT !.releases[run.package] = "torn"]
      BY <3>2
    <3>3. CASE host' = [host EXCEPT !.data = "absent"]
      BY <3>3
    <3>4. CASE host' = [host EXCEPT !.enabled = FALSE]
      BY <3>4
    <3>5. CASE host' = [host EXCEPT !.enabled = FALSE, !.running = None, !.current = None]
      BY <3>5
    <3>6. CASE host' = host
      BY <3>6
    <3> QED
      BY <2>1, <3>1, <3>2, <3>3, <3>4, <3>5, <3>6 DEF CutHost
  <2>3. CASE pc \in Stopped
    <3>1. host.running = None /\ ~host.enabled
      BY <2>3
    <3>2. host'.running = None /\ ~host'.enabled
      BY <2>2, <3>1
    <3>3. Legacy # None /\ None \notin Packages
      OBVIOUS
    <3>4. RunningIsWhole'
      BY <3>2, <3>3
    <3> QED
      BY <2>1, <3>2, <3>4
  <2>4. CASE pc \notin Stopped
    <3>1. host'.releases = host.releases
      <4>1. \/ host' = host
            \/ host' = [host EXCEPT !.enabled = FALSE]
            \/ host' = [host EXCEPT !.enabled = FALSE, !.running = None, !.current = None]
            \/ host' = [host EXCEPT !.data = "absent"]
        BY <2>1, <2>4 DEF CutHost
      <4>2. CASE host' = [host EXCEPT !.enabled = FALSE]
        BY <4>2
      <4>3. CASE host' = [host EXCEPT !.enabled = FALSE, !.running = None, !.current = None]
        BY <4>3
      <4>4. CASE host' = [host EXCEPT !.data = "absent"]
        BY <4>4
      <4> QED
        BY <4>1, <4>2, <4>3, <4>4
    <3>2. files' \in Unfinished
      BY <1>28, <2>1, <2>4 DEF CutFiles, Cut
    <3>3. files'["legacy"] = files["legacy"] /\ files'["unit"] \in {files["unit"], Torn}
      BY <2>4, <3>2 DEF Unfinished, Writing, Restoring
    <3> QED
      BY <2>1, <2>2, <3>1, <3>3, ZenonT(30)
  <2> QED
    BY <2>3, <2>4
<1>29. CASE Service
  <2>1. PICK process : /\ host' = [host EXCEPT !.running = process]
                       /\ \/ process = None
                          \/ process = Startable /\ (host.enabled \/ host.running # None)
    BY <1>29 DEF Service
  <2>2. /\ host'.enabled = host.enabled /\ host'.running = process
        /\ host'.releases = host.releases
        /\ files' = files /\ run' = run /\ pc' = pc
    BY <1>29, <2>1 DEF Service
  <2>3. pc \in Stopped => process = None
    BY <1>29, <2>1 DEF Service
  <2>4. process # None => /\ process = Legacy => files["legacy"] # None
                          /\ process \in Packages => host.releases[process] = "whole"
                          /\ process = Legacy => files["unit"] = Legacy
    BY <1>0, <2>1, StartableIsWhole DEF Startable
  <2>5. UnitIn(files, host)'
    BY <2>1, <2>2
  <2>6. RunningIsWhole'
    BY <2>2, <2>4
  <2>7. pc' = "ready" => process # Legacy
    BY <2>2, <2>4
  <2> QED
    BY <2>2, <2>3, <2>5, <2>6, <2>7
<1>30. CASE Updated
  BY <1>30 DEF Updated
<1>31. CASE Skip
  <2>1. /\ files' = files /\ run' = run /\ pc \in Stopped /\ pc' \in Stopped
        /\ pc = "remove" <=> pc' = "resume"
        /\ pc \in {"current", "previous", "remove"} /\ pc' \in {"previous", "unit_back", "resume"}
    BY <1>31 DEF Skip
  <2>2. host'.running = host.running /\ host'.enabled = host.enabled
    <3>1. host' = host \/ host' = [host EXCEPT !.releases[run.package] = "torn"]
      BY <1>31 DEF Skip
    <3> QED
      BY <3>1
  <2> QED
    BY <2>1, <2>2
<1>32. CASE UNCHANGED vars
  BY <1>32 DEF vars
<1> QED
  BY <1>1, <1>2, <1>3, <1>4, <1>5, <1>6, <1>7, <1>8, <1>9, <1>10, <1>11, <1>12,
     <1>13, <1>14, <1>15, <1>16, <1>17, <1>18, <1>19, <1>20, <1>21, <1>22, <1>23,
     <1>24, <1>25, <1>26, <1>27, <1>28, <1>29, <1>30, <1>31, <1>32 DEF Next, Install,
     Rollback, Uninstall

\* What is left to restore is what the steps of the rollback that are left restore.
LEMMA UndoNext ==
  ASSUME SafeInv, UndoInv, RolledBack, [Next]_vars
  PROVE  UndoInv' /\ RolledBack'
<1>0. TypeOK /\ ServiceInv /\ BackInv
  BY DEF SafeInv
<1> /\ files \in FilesType /\ host \in HostType
    /\ run.package \in Packages /\ run.backup.files \in FilesType /\ run.backup.host \in HostType
    /\ run \in RunType
    /\ UndoInv /\ RolledBack
  BY <1>0, RunFields DEF TypeOK
<1> USE DEF UndoInv, RolledBack, Transaction, RestoreSteps, Ended, UnitWritten, Step, Write,
          Change, HostType, RunType
<1>1. CASE BeginInstall
  <2>1. /\ pc = "idle" /\ pc' = "account" /\ verdict' = "none" /\ host' = host
        /\ run'.backup.host = host /\ run'.created = FALSE
    BY <1>1, <1>0, Begun DEF BeginInstall
  <2> QED
    BY <2>1
<1>2. CASE MakeAccount
  BY <1>2 DEF MakeAccount
<1>3. CASE MakeRelease
  <2>1. /\ pc = "release" /\ pc' = "unit" /\ verdict' = verdict /\ verdict = "none"
        /\ run'.backup = run.backup /\ run'.package = run.package
        /\ host.releases[run.package] = "absent" => run'.created = TRUE
        /\ host.releases[run.package] = "whole" => run'.created = FALSE
        /\ host'.releases = [host.releases EXCEPT ![run.package] = "whole"]
        /\ host.releases[run.package] \in {"whole", "absent"}
    BY <1>3 DEF MakeRelease
  <2>2. host.releases = run.backup.host.releases
    BY <2>1
  <2>3. CASE host.releases[run.package] = "absent"
    <3>1. run'.created /\ run'.backup.host.releases[run'.package] = "absent"
      BY <2>1, <2>2, <2>3
    <3>2. host'.releases = [run'.backup.host.releases EXCEPT ![run'.package] = "whole"]
      BY <2>1, <2>2
    <3> QED
      BY <2>1, <3>1, <3>2
  <2>4. CASE host.releases[run.package] = "whole"
    <3>1. host'.releases = host.releases
      BY <2>1, <2>4
    <3> QED
      BY <2>1, <2>2, <2>4, <3>1
  <2> QED
    BY <2>1, <2>3, <2>4
<1>4. CASE InstallUnit
  BY <1>4 DEF InstallUnit
<1>5. CASE InstallUpdate
  BY <1>5 DEF InstallUpdate
<1>6. CASE MakeDirs
  BY <1>6 DEF MakeDirs
<1>7. CASE WriteEnv
  BY <1>7 DEF WriteEnv
<1>8. CASE WriteKey
  BY <1>8 DEF WriteKey
<1>9. CASE Bootstrap
  BY <1>9 DEF Bootstrap
<1>10. CASE Switch
  BY <1>10 DEF Switch
<1>11. CASE Enable
  BY <1>11 DEF Enable
<1>12. CASE Restart
  BY <1>12 DEF Restart
<1>13. CASE Complete
  BY <1>13 DEF Complete
<1>14. CASE Die
  BY <1>14 DEF Die
<1>15. CASE Fail
  <2>1. /\ run'.backup = run.backup /\ run'.package = run.package
        /\ run'.created = run.created
    BY <1>0, <1>15, RunOfFailure
  <2>2. pc' = "stop" /\ verdict' = "none" /\ pc \in Transaction
    BY <1>15 DEF Fail
  <2>3. host'.releases = host.releases
    <3>1. \/ host' = host
          \/ host' = [host EXCEPT !.data = "used"]
          \/ host' = [host EXCEPT !.running = None]
      BY <1>15 DEF Fail
    <3> QED
      BY <3>1
  <2> QED
    BY <2>1, <2>2, <2>3
<1>16. CASE Stop
  BY <1>16 DEF Stop
<1>17. CASE RelinkCurrent
  BY <1>17 DEF RelinkCurrent
<1>18. CASE RelinkPrevious
  BY <1>18 DEF RelinkPrevious
<1>19. CASE RestoreFiles
  <2>1. PICK f \in Files : Restores(f)
    BY <1>0, <1>19, RestoreStep
  <2>2. /\ pc \in RestoreSteps /\ pc' \in RestoreSteps \cup {"remove"}
        /\ host' = host /\ verdict' = verdict
    BY <2>1 DEF Restores, Restoring, After, Files
  <2>3. /\ run'.backup = run.backup /\ run'.package = run.package
        /\ run'.created = run.created /\ run'.twice = run.twice
    BY <2>1 DEF Restores
  <2> QED
    BY <2>2, <2>3
<1>20. CASE RemoveCreated
  <2>1. /\ pc = "remove" /\ pc' = "resume" /\ run' = run /\ verdict' = verdict
        /\ host'.current = host.current /\ host'.previous = host.previous
        /\ host'.releases = [host.releases EXCEPT ![run.package] =
                               IF run.created THEN "absent" ELSE @]
    BY <1>20 DEF RemoveCreated
  <2>2. host'.releases = run.backup.host.releases
    BY <2>1
  <2> QED
    BY <2>1, <2>2
<1>21. CASE Resume
  <2>1. PICK process : host' = [host EXCEPT !.enabled = run.backup.host.enabled
                                                          /\ files["unit"] # None,
                                            !.running = process]
    BY <1>21 DEF Resume
  <2>2. pc = "resume" /\ pc' = "clean" /\ run' = run /\ verdict' = verdict /\ files' = files
    BY <1>21 DEF Resume
  <2>3. /\ host'.releases = host.releases /\ host'.current = host.current
        /\ host'.previous = host.previous
        /\ host'.enabled = (run.backup.host.enabled /\ files["unit"] # None)
    BY <2>1
  <2> QED
    BY <2>2, <2>3
<1>22. CASE Clean
  <2>1. PICK data \in {"absent", host.data} :
          host' = [host EXCEPT !.account = run.backup.host.account, !.data = data]
    BY <1>22 DEF Clean
  <2>2. /\ pc = "clean" /\ verdict = "none" /\ files' = files
        /\ \/ run.twice /\ pc' = "stop" /\ verdict' = "none"
           \/ ~run.twice /\ pc' = "idle" /\ verdict' = "rolled_back"
    BY <1>22 DEF Clean
  <2>3. /\ run'.backup = run.backup /\ run'.package = run.package
        /\ run'.created = run.created /\ run'.damaged = run.damaged
    BY <1>22 DEF Clean
  <2>4. host'.releases = host.releases
    BY <2>1
  <2>5. CASE run.twice
    BY <2>2, <2>3, <2>4, <2>5
  <2>6. CASE ~run.twice
    <3>1. files = [f \in Files |-> IF f \in run.damaged THEN None ELSE run.backup.files[f]]
      BY <1>0, <2>2 DEF BackInv, Back, FilesType, Files
    <3>2. /\ host.current = run.backup.host.current /\ host.previous = run.backup.host.previous
          /\ host.releases = run.backup.host.releases
          /\ host.enabled = (run.backup.host.enabled /\ files["unit"] # None)
      BY <2>2, <2>6
    <3>3. run.backup.host.enabled => run.backup.files["unit"] # None
      BY <1>0 DEF ServiceInv, UnitIn
    <3>4. files["unit"] # None <=> "unit" \notin run.damaged /\ run.backup.files["unit"] # None
      BY <3>1 DEF Files
    <3>5. host.enabled = (run.backup.host.enabled /\ "unit" \notin run.damaged)
      BY <3>2, <3>3, <3>4
    <3>6. host' = [run.backup.host EXCEPT !.data = host'.data, !.running = host'.running,
                                          !.enabled = @ /\ "unit" \notin run.damaged]
      BY <2>1, <3>2, <3>5
    <3> QED
      BY <2>2, <2>3, <2>6, <3>1, <3>6
  <2> QED
    BY <2>5, <2>6
<1>23. CASE BeginUninstall
  BY <1>23 DEF BeginUninstall, Present
<1>24. CASE Disable
  BY <1>24 DEF Disable
<1>25. CASE RemoveUnits
  BY <1>25 DEF RemoveUnits
<1>26. CASE RemoveRoot
  BY <1>26 DEF RemoveRoot
<1>27. CASE Purge
  BY <1>27 DEF Purge
<1>28. CASE Cut
  <2>1. pc' = "idle" /\ verdict' = "cut_off"
    BY <1>28 DEF Cut
  <2> QED
    BY <2>1
<1>29. CASE Service
  <2>1. PICK process : host' = [host EXCEPT !.running = process]
    BY <1>29 DEF Service
  <2>2. files' = files /\ run' = run /\ pc' = pc /\ verdict' = verdict
    BY <1>29 DEF Service
  <2>3. /\ host'.releases = host.releases /\ host'.current = host.current
        /\ host'.previous = host.previous /\ host'.enabled = host.enabled
    BY <2>1
  <2>4. RolledBack'
    BY <2>1, <2>2, <2>3, ZenonT(30)
  <2>5. UndoInv'
    BY <2>2, <2>3
  <2> QED
    BY <2>4, <2>5
<1>30. CASE Updated
  BY <1>30 DEF Updated
<1>31. CASE Skip
  <2>1. /\ run.twice /\ files' = files /\ run' = run /\ verdict' = verdict
        /\ \/ pc \in {"current", "previous"} /\ pc' \in {"previous", "unit_back"} /\ host' = host
           \/ pc = "remove" /\ pc' = "resume" /\ run.created
    BY <1>31 DEF Skip
  <2>2. CASE host' = host
    BY <2>1, <2>2
  <2>3. CASE host' # host
    <3>1. host' = [host EXCEPT !.releases[run.package] = "torn"]
      BY <1>31, <2>3 DEF Skip
    <3>2. host'.releases = [host.releases EXCEPT ![run.package] = "torn"]
      BY <3>1
    <3>3. pc = "remove" /\ pc' = "resume" /\ run.created
      BY <2>1, <2>3
    <3>4. host'.releases = [run.backup.host.releases EXCEPT ![run.package] = "torn"]
      BY <3>2, <3>3
    <3> QED
      BY <2>1, <3>3, <3>4
  <2> QED
    BY <2>2, <2>3
<1>32. CASE UNCHANGED vars
  BY <1>32 DEF vars
<1> QED
  BY <1>1, <1>2, <1>3, <1>4, <1>5, <1>6, <1>7, <1>8, <1>9, <1>10, <1>11, <1>12,
     <1>13, <1>14, <1>15, <1>16, <1>17, <1>18, <1>19, <1>20, <1>21, <1>22, <1>23,
     <1>24, <1>25, <1>26, <1>27, <1>28, <1>29, <1>30, <1>31, <1>32 DEF Next, Install,
     Rollback, Uninstall

\* What a run has done is undone only after it has failed.
LEMMA ProgressNext ==
  ASSUME SafeInv, UndoInv, ProgressInv, CompletedIsWhole, [Next]_vars
  PROVE  ProgressInv' /\ CompletedIsWhole'
<1>0. TypeOK /\ ServiceInv
  BY DEF SafeInv
<1> /\ files \in FilesType /\ host \in HostType
    /\ run.package \in Packages /\ run \in RunType
    /\ ProgressInv /\ CompletedIsWhole /\ ServiceInv
    /\ pc # "idle" => verdict = "none"
  BY <1>0, RunFields DEF TypeOK, UndoInv
<1> USE DEF ProgressInv, CompletedIsWhole, UnitWritten, Step, Write, Change, HostType,
          FilesType, Files, RunType
<1>1. CASE BeginInstall
  <2>1. run'.backup.files = files /\ files' = files /\ pc' = "account" /\ verdict' = "none"
    BY <1>0, <1>1, Begun DEF BeginInstall
  <2> QED
    BY <2>1
<1>2. CASE MakeAccount
  BY <1>2 DEF MakeAccount
<1>3. CASE MakeRelease
  BY <1>3 DEF MakeRelease
<1>4. CASE InstallUnit
  BY <1>4 DEF InstallUnit, ServiceInv
<1>5. CASE InstallUpdate
  BY <1>5 DEF InstallUpdate
<1>6. CASE MakeDirs
  BY <1>6 DEF MakeDirs
<1>7. CASE WriteEnv
  BY <1>7 DEF WriteEnv
<1>8. CASE WriteKey
  BY <1>8 DEF WriteKey
<1>9. CASE Bootstrap
  BY <1>9 DEF Bootstrap
<1>10. CASE Switch
  BY <1>10 DEF Switch
<1>11. CASE Enable
  BY <1>11 DEF Enable
<1>12. CASE Restart
  BY <1>12 DEF Restart, UndoInv
<1>13. CASE Complete
  BY <1>13 DEF Complete, ServiceInv, UndoInv
<1>14. CASE Die
  BY <1>14 DEF Die
<1>15. CASE Fail
  BY <1>15 DEF Fail
<1>16. CASE Stop
  BY <1>16 DEF Stop
<1>17. CASE RelinkCurrent
  BY <1>17 DEF RelinkCurrent
<1>18. CASE RelinkPrevious
  BY <1>18 DEF RelinkPrevious
<1>19. CASE RestoreFiles
  <2>1. PICK f \in Files : Restores(f)
    BY <1>0, <1>19, RestoreStep
  <2>2. pc' \in RestoreSteps \cup {"remove"} /\ pc # "idle" /\ verdict' = verdict
    BY <2>1 DEF Restores, Restoring, After, RestoreSteps
  <2> QED
    BY <2>2 DEF RestoreSteps
<1>20. CASE RemoveCreated
  BY <1>20 DEF RemoveCreated
<1>21. CASE Resume
  BY <1>21 DEF Resume
<1>22. CASE Clean
  BY <1>22 DEF Clean
<1>23. CASE BeginUninstall
  BY <1>23 DEF BeginUninstall
<1>24. CASE Disable
  BY <1>24 DEF Disable
<1>25. CASE RemoveUnits
  BY <1>25 DEF RemoveUnits
<1>26. CASE RemoveRoot
  BY <1>26 DEF RemoveRoot
<1>27. CASE Purge
  BY <1>27 DEF Purge
<1>28. CASE Cut
  BY <1>28 DEF Cut
<1>29. CASE Service
  BY <1>29 DEF Service
<1>30. CASE Updated
  BY <1>30 DEF Updated
<1>31. CASE Skip
  <2>1. pc # "idle" /\ pc' \in {"previous", "unit_back", "resume"} /\ verdict' = verdict
    BY <1>31 DEF Skip
  <2> QED
    BY <2>1
<1>32. CASE UNCHANGED vars
  BY <1>32 DEF vars
<1> QED
  BY <1>1, <1>2, <1>3, <1>4, <1>5, <1>6, <1>7, <1>8, <1>9, <1>10, <1>11, <1>12,
     <1>13, <1>14, <1>15, <1>16, <1>17, <1>18, <1>19, <1>20, <1>21, <1>22, <1>23,
     <1>24, <1>25, <1>26, <1>27, <1>28, <1>29, <1>30, <1>31, <1>32 DEF Next, Install,
     Rollback, Uninstall

\* Every step leaves the users, the settings and the key, or the backup restores them.
LEMMA PreservedNext ==
  ASSUME SafeInv, UndoInv, Preserved, [Next]_vars
  PROVE  Preserved'
<1>0. TypeOK /\ ServiceInv
  BY DEF SafeInv
<1> /\ files \in FilesType /\ host \in HostType
    /\ run.package \in Packages /\ run \in RunType
    /\ run.backup.files \in FilesType /\ run.backup.host \in HostType
    /\ Preserved /\ ServiceInv
    /\ pc # "idle" => verdict = "none"
  BY <1>0, RunFields DEF TypeOK, UndoInv
<1> USE DEF Preserved, Step, Write, Change, HostType, FilesType, Files, RunType
<1>1. CASE BeginInstall
  <2>1. run'.backup.files = files /\ run'.backup.host = host /\ files' = files /\ host' = host
    BY <1>1, <1>0, Begun
  <2> QED
    BY <2>1
<1>2. CASE MakeAccount
  BY <1>2 DEF MakeAccount
<1>3. CASE MakeRelease
  BY <1>3 DEF MakeRelease
<1>4. CASE InstallUnit
  BY <1>4 DEF InstallUnit
<1>5. CASE InstallUpdate
  BY <1>5 DEF InstallUpdate
<1>6. CASE MakeDirs
  BY <1>6 DEF MakeDirs
<1>7. CASE WriteEnv
  BY <1>7 DEF WriteEnv
<1>8. CASE WriteKey
  BY <1>8 DEF WriteKey
<1>9. CASE Bootstrap
  BY <1>9 DEF Bootstrap
<1>10. CASE Switch
  BY <1>10 DEF Switch
<1>11. CASE Enable
  BY <1>11 DEF Enable
<1>12. CASE Restart
  BY <1>12 DEF Restart
<1>13. CASE Complete
  BY <1>13 DEF Complete
<1>14. CASE Die
  BY <1>14 DEF Die
<1>15. CASE Fail
  <2>1. /\ run'.purge = run.purge /\ run'.backup = run.backup /\ run'.newKey = run.newKey
        /\ run'.damaged = Damaged
    BY <1>0, <1>15, RunOfFailure
  <2>2. host'.data \in {host.data, "used"}
    <3>1. \/ host' = host
          \/ host' = [host EXCEPT !.data = "used"]
          \/ host' = [host EXCEPT !.running = None]
      BY <1>15 DEF Fail
    <3> QED
      BY <3>1
  <2> QED
    BY <2>1, <2>2 DEF Damaged
<1>16. CASE Stop
  BY <1>16 DEF Stop
<1>17. CASE RelinkCurrent
  BY <1>17 DEF RelinkCurrent
<1>18. CASE RelinkPrevious
  BY <1>18 DEF RelinkPrevious
<1>19. CASE RestoreFiles
  <2>1. PICK f \in Files : Restores(f)
    BY <1>0, <1>19, RestoreStep
  <2>2. /\ run'.purge = run.purge /\ run'.backup = run.backup /\ run'.newKey = run.newKey
        /\ host' = host
    BY <2>1 DEF Restores
  <2>3. \A g \in Files :
          g \notin run'.damaged =>
            \/ files'[g] = run.backup.files[g]
            \/ g \notin run.damaged /\ files'[g] = files[g]
    BY <2>1 DEF Restores
  <2> QED
    BY <2>2, <2>3
<1>20. CASE RemoveCreated
  BY <1>20 DEF RemoveCreated
<1>21. CASE Resume
  BY <1>21 DEF Resume
<1>22. CASE Clean
  <2>1. PICK data \in {"absent", host.data} :
          /\ data = host.data \/ run.backup.host.data = "absent"
          /\ host' = [host EXCEPT !.account = run.backup.host.account, !.data = data]
    BY <1>22 DEF Clean
  <2>2. /\ run'.purge = run.purge /\ run'.backup = run.backup /\ run'.newKey = run.newKey
        /\ run'.damaged = run.damaged /\ files' = files
    BY <1>22 DEF Clean
  <2>3. host'.data = data
    BY <2>1
  <2> QED
    BY <2>1, <2>2, <2>3
<1>23. CASE BeginUninstall
  <2>1. run'.backup.files = files /\ run'.backup.host = host /\ files' = files /\ host' = host
    BY <1>23, <1>0, Begun
  <2> QED
    BY <2>1
<1>24. CASE Disable
  BY <1>24 DEF Disable
<1>25. CASE RemoveUnits
  BY <1>25 DEF RemoveUnits
<1>26. CASE RemoveRoot
  BY <1>26 DEF RemoveRoot
<1>27. CASE Purge
  BY <1>27 DEF Purge
<1>28. CASE Cut
  <2>1. /\ run'.purge = run.purge /\ run'.backup = run.backup /\ run'.newKey = run.newKey
        /\ run'.damaged = Damaged /\ CutHost
    BY <1>0, <1>28, RunOfFailure DEF Cut
  <2>2. ~run.purge /\ run.backup.host.data = "used" => host'.data = host.data
    <3>1. CASE \E r \in HalfRemoved(host.releases), c \in {host.current, None},
                  l \in {host.previous, None} :
                 host' = [host EXCEPT !.releases = r, !.current = c, !.previous = l]
      BY <3>1
    <3>2. CASE host' = [host EXCEPT !.releases[run.package] = "torn"]
      BY <3>2
    <3>3. CASE host' = [host EXCEPT !.enabled = FALSE]
      BY <3>3
    <3>4. CASE host' = [host EXCEPT !.enabled = FALSE, !.running = None, !.current = None]
      BY <3>4
    <3>5. CASE host' = host
      BY <3>5
    <3> QED
      BY <2>1, <3>1, <3>2, <3>3, <3>4, <3>5 DEF CutHost
  <2> QED
    BY <2>1, <2>2 DEF Damaged
<1>29. CASE Service
  BY <1>29 DEF Service
<1>30. CASE Updated
  BY <1>30 DEF Updated
<1>31. CASE Skip
  <2>1. files' = files /\ run' = run /\ host'.data = host.data
    <3>1. host' = host \/ host' = [host EXCEPT !.releases[run.package] = "torn"]
      BY <1>31 DEF Skip
    <3> QED
      BY <1>31, <3>1 DEF Skip
  <2> QED
    BY <2>1
<1>32. CASE UNCHANGED vars
  BY <1>32 DEF vars
<1> QED
  BY <1>1, <1>2, <1>3, <1>4, <1>5, <1>6, <1>7, <1>8, <1>9, <1>10, <1>11, <1>12,
     <1>13, <1>14, <1>15, <1>16, <1>17, <1>18, <1>19, <1>20, <1>21, <1>22, <1>23,
     <1>24, <1>25, <1>26, <1>27, <1>28, <1>29, <1>30, <1>31, <1>32 DEF Next, Install,
     Rollback, Uninstall

-----------------------------------------------------------------------------
\* The invariant of install.sh and uninstall.sh.
LEMMA InstallerInvariant == Spec => []Inv
<1>1. Init => Inv
  <2> SUFFICES ASSUME Init PROVE Inv
    OBVIOUS
  <2>1. SafeInv
    BY SafeInit
  <2>2. run.backup.files = files /\ run.backup.host = host
    BY DEF Init, Present
  <2> QED
    BY <2>1, <2>2 DEF Init, Inv, UndoInv, RolledBack, ProgressInv, CompletedIsWhole, Preserved,
                      Transaction, RestoreSteps, Ended, UnitWritten
<1>2. Inv /\ [Next]_vars => Inv'
  BY SafeNext, UndoNext, ProgressNext, PreservedNext DEF Inv
<1> QED
  BY <1>1, <1>2, PTL DEF Spec

\* The host, the run and what the rollback has in hand have their types, whatever
\* install.sh and uninstall.sh have left; a torn file is never run.
THEOREM InstallerTypeCorrect == Spec => []TypeOK
<1>1. Inv => TypeOK
  BY DEF Inv, SafeInv
<1> QED
  BY <1>1, InstallerInvariant, PTL

\* The binary of the running service stays in its place through any number of runs
\* of install.sh and uninstall.sh and any updates, wherever each of them is cut off.
THEOREM RunningStaysWhole == Spec => []RunningIsWhole
<1>1. Inv => RunningIsWhole
  BY DEF Inv, SafeInv
<1> QED
  BY <1>1, InstallerInvariant, PTL

\* A rollback of install.sh that ends leaves every file as the run has found it, or
\* gone if the copy failed, and the links, the releases and the unit as before: for any
\* packages, any number of failed copies, rollbacks in a row and runs cut off before.
THEOREM RollbackRestores == Spec => []RolledBack
<1>1. Inv => RolledBack
  BY DEF Inv
<1> QED
  BY <1>1, InstallerInvariant, PTL

\* A run of install.sh that completes has installed its own release as a whole, and
\* has kept the settings and the key that it has found.
THEOREM CompletionIsWhole == Spec => []CompletedIsWhole
<1>1. Inv => CompletedIsWhole
  BY DEF Inv
<1> QED
  BY <1>1, InstallerInvariant, PTL

\* No step of an installation, cut off or not, nor of an uninstallation without --purge
\* loses the users of the host; its settings and its key go only with a command that
\* could not write them or put them back.
THEOREM HostPreserved == Spec => []Preserved
<1>1. Inv => Preserved
  BY DEF Inv
<1> QED
  BY <1>1, InstallerInvariant, PTL
=============================================================================
