# Formal models of Control Center

Control Center (`srv-deployment`) is one Go process behind systemd, with its
state in a few files, an installer and an updater in shell. This directory
holds TLA+ models of its parts, the TLC configurations that check them on small
instances, and TLAPS proofs of the properties that matter most for every size.
`PROJECT.json` maps each definition to the lines that it models.

Run everything in this directory:

    tlc -workers 2 -config MCStateStore.cfg MCStateStore
    tlapm StateStoreProofs.tla

## 1. Inventory

Paths are relative to `src/`.

| Component | State | Operations | Hard behaviour | What makes it correct |
|---|---|---|---|---|
| State store, `internal/state/store.go` | `state.json`, `secrets.json`, `bootstrap-admin.secret`; the same documents in each process's memory | `Open`, `BootstrapAdmin`, `CreateUser`, `ChangePassword`, `SetBlocked`, `persistLocked` | two files written one after the other, read one after the other, by two processes; failed writes; crashes | what was acknowledged is not lost; a torn pair is never opened; metadata never without credential; an active administrator remains |
| Password hashing, `internal/state/password.go` | none | `HashPassword`, `VerifyPassword` | none | a hash verifies the password it was made of and no other |
| Operation store, `internal/operations/store.go` | `operations.json` and its copy in memory | `Open` (interrupts), `Start`, `Finish`, `pruneLocked` | restart with work in progress; failed writes; bound on the history; wall clock | a status is true; terminal is final; started means recorded; bounded |
| Session manager, `internal/auth/sessions.go` | sessions by token digest | `Create`, `Lookup`, `Revoke`, `RevokeUser` | concurrent with the store | a revoked session is gone |
| Login limiter, `internal/auth/rate.go` | failure counts by client and name | `Allowed`, `Failure`, `Success` | check and count are apart | failures per window are bounded |
| HTTP handlers, `internal/httpserver/server.go` | what each request has read so far | `login`, `logout`, `changePassword`, `createUser`, `setBlocked`, read-only handlers; `beginOperation`, `finishOperation` | a goroutine per request; four writes one after the other, each of which may fail | only administrators change accounts; blocked users are shut out; evidence is true and changes are traced |
| Audit log, `internal/observability/audit.go` | `audit.jsonl` | `Append`, `Recent` | torn lines, power loss, window of the tail | what was acknowledged stays; a torn line costs no more than one other; the newest events are read back |
| Diagnostics, `internal/diagnostics/bundle.go` | none | `Build` | a snapshot of three stores, one by one | lists only what is allowed, and does not contradict itself |
| Release verification, `internal/release/release.go` | none | `Verify`, `ReleaseID`, `CompareVersions` | parts of different packages; precedence of versions | no unverified artifact is executed; newer means newer |
| Processes, `cmd/control-center/main.go`, `packaging/systemd/` | up or down | start, shutdown, `bootstrap-admin` | ten-second shutdown, restart on failure | comes back up |
| Updater, `install/update.sh` | `current` and `previous` links, releases | verify, switch, accept, roll back | failure and crash between steps; two updaters at once | ends on an accepted release; no unasked downgrade |
| Installer, `install/install.sh`, and `install/uninstall.sh` | runtime files, links, unit, account, data directories | backup, install, roll back; remove, purge | failure or cut-off between steps, runs over what earlier runs left | a failed installation restores what was there; settings and users survive |
| Release tool, `cmd/release-tool/main.go` | none | `package` | none | what it packages verifies |
| Web UI, build info, scripts | none that the server relies on | | | |

How they interact. `main` opens the state store, the operation store and the
audit log, and gives them to the HTTP server. The handler of a mutation passes
`currentSession` (session manager, then state store), calls `Start` of the
operation store, then the state store, then the session manager, then `Finish`,
and appends to the audit log. Each of these objects has a mutex of its own, and
nothing is held across two of them. `install.sh` runs `bootstrap-admin` as a
second process over the same state directory, possibly while an older server
runs, and restarts the server afterwards. systemd restarts a server that exits
with an error (`Restart=on-failure`, `RestartSec=3s`, too slow to reach the start
limit).

The hazards of this code, each at its line, are listed in `PROJECT.json`.

## 2. Plan

In order of importance. All of it exists; what the next steps would be is at the end.

1. `DurableDocument`, the abstract promise of the state store, and `StateStore`
   that implements it. Proofs: `StateStoreProofs`.
2. `OperationStore`. Proofs: `OperationStoreProofs`.
3. `AuthService`: handlers, sessions and limiter. Proofs: `AuthServiceProofs`.
4. `AuditTrail`, the abstract promise of the audit log, and `AuditLog` that
   implements it. Proofs: `AuditLogProofs`.
5. `ControlCenter`: the traced mutation from end to end. It extends
   `OperationStore` and instantiates `AuditTrail`. Proofs: `ControlCenterProofs`.
6. `Updater`: the activation of a release. Proofs: `UpdaterProofs`.
7. `Installer`: `install.sh` with its rollback, and `uninstall.sh`. Proofs:
   `InstallerProofs`.
8. `SemVer` and `ReleasePackage`: precedence of versions, and a package from the
   release tool to the host. Proofs: `ReleasePackageProofs`.

Next: the state store inside `ControlCenter` refined by `StateStore`, which takes a
`Mutate` of two steps, a change and its commit; an updater and an installer at work
together.

## 3. The modules

### DurableDocument

What the state store promises, without files: one document, metadata and
credentials of one revision, opened whole by any number of processes, changed one
account at a time in memory, committed under a higher revision and without
losing an account. A commit may be cut in two; the document is then `Torn` and
nobody can open it until a process that has one live commits again.

### StateStore

| Model | Code |
|---|---|
| `doc[p]`, `secrets[p]` | `Store.doc`, `Store.secrets` in the memory of process `p` |
| `stateFile`, `secretFile`, `bootstrapFile` | the three files; a missing document is the default that `Open` starts from |
| `phase[p]` | how far `p` is: loading, open, before the write of secrets, before the write of state, before the return |
| `ReadStateFile`, `ReadSecretFile` | the two reads of `load`, with the revision check |
| `BootstrapAdmin`, `SkipBootstrap`, `StoreBootstrapSecret` | the bootstrap-admin command |
| `CreateUser`, `ChangePassword`, `SetBlocked` | the mutations of the server, in memory |
| `WriteSecrets`, `WriteState`, `WriteFails` | `persistLocked`; a rename happens or does not |
| `Return` | the caller sees success; `ChangePassword` has tried to remove the secret |
| `Stop` | a crash, kill or shutdown at any point |

Two processes, `server` and `bootstrap-admin`, share the files without any lock.
Serialisation to JSON is abstracted to the value that is stored. A password is a
model value; `Weak` is the set that `validatePassword` rejects. History variable:
`acknowledged`, the highest revision that a caller saw succeed.

### OperationStore

`records` is the memory and `file` is `operations.json`, both a function from
operation IDs to a record or `None`. `handler[id]` is what became of the request
with this ID: it is at work, it was refused by `Start`, it finished with an
outcome, or a stop of the process cut it off. `Pruned` gives every outcome of the
unstable sort of `pruneLocked`. `ClockStepsBack` decides whether the wall clock
may be set back; `time.Now().UTC()` drops the monotonic reading. The runs check the
store as the part of `ControlCenter` that it is.

### AuthService

A request slot runs through sections; `pc[r]` names the next one and `req[r]` holds
what the handler has read. One section is one critical section of the limiter, the
session manager or the store:

| Sections of `login` | Sections of other handlers |
|---|---|
| `StartLogin` (`Allowed`) | `Lookup` (`Manager.Lookup`) |
| `VerifyCredentials` | `Admit`, `AnswerOnly`, `FindStale` (`GetUser` and the permission) |
| `Failure` or `Success` | `RevokeStale` |
| `CreateSession`, `CreateSessionFails` | `Logout`, `ChangePassword`, `CreateUser`, `SetBlocked`, `Reject` |
| | `RevokeUser`, then `Answer` |

A mutation of the store is one step here, with its outcome (`persisted`): the
steps inside it are the subject of `StateStore`. `Reject` stands for each early
return of a handler: origin, CSRF token, body, operation store, refusal of the store.
A session or limiter window whose time is over goes at once; the code leaves it in
its map until it next meets it and treats it as absent then. History variables:
`epoch[u]` counts the password changes and blocks of `u`; `revoked[u]` is the latest
epoch whose handler has answered; a session carries the epoch at which its password
was verified and the one at which it was created.

### AuditTrail and AuditLog

`AuditTrail` is what `audit.jsonl` promises without bytes: an append-only
sequence, of which a power loss may take what was not acknowledged from the end,
and a fragment that swallows the one event appended behind it. `AuditLog` is the
file itself, a sequence of bytes:

| Model | Code |
|---|---|
| `AppendEvent`, `AppendFails` | `Append`; a failure or a crash leaves any part of the line, `status[e]` is what the caller was told |
| `PowerLoss` | what was not synced goes, from the end |
| `Start`, `FirstLine`, `Lines` | the window of `Recent`, the line it skips and the lines of the scanner |
| `Found`, `RecentFails`, `Recent` | the lines that unmarshal, `ErrTooLong`, the result |

A byte knows its event and place; that two fragments could be put together to a
valid event is excluded by that, as it is by JSON. The mutex makes each call one
step. The directory entry of the file is taken as durable.

### ControlCenter

| Model | Code |
|---|---|
| `BeginOperation` | `beginOperation`: `Start` of `OperationStore`, or 503 |
| `Mutate` | the call of the state store: refused, persisted, or kept in memory over a failed write that may leave the pair torn |
| `FinishOperation`, `AuditEvent` | `finishOperation`: `Finish` and `Append`, whose errors are only logged |
| `Build` | the three reads of `diagnostics.Build`, in their order |
| `OpenStores`, `StopProcess` | `main` and systemd; a stop may cut off a mutation between its two files and an append anywhere |

The operation store is the module itself, not a copy: `ControlCenter` EXTENDS it,
and each of its steps is one of `OperationStore` or leaves it alone
(`ImplementsStore`). Of the state store only matters which changes are in memory and
on disk; `StateStore` has the rest. `Recent` is abstracted to the trail of complete
lines. A torn pair keeps the process down until an operator acts, so the runs do
not check for deadlock.

### Updater

Each updater is a process that walks through the commands of `update.sh`; `current`,
`previous`, `complete` and `running` are the host's. `Begin` stands for all that
comes before the comparison and changes nothing on the host (`ReleasePackage` has
it). `End` is a failed command, a kill or the loss of the host, before any command.
`Service` is systemd: the process dies or is started from the link. A release in
`Sound` may pass its acceptance, and does not have to; a version that several
releases share makes `post_acceptance` accept the wrong one, as the code would. History
variables: `lastGood` is the last accepted release, `abandoned` says that an
updater ended in mid-switch.

### Installer

`files` are the five files that the installer backs up, `host` is everything else:
releases, links, account, data directories, enabled and running. `pc` is the next
command and `run` has the variables of the script; `run.backup` holds `had_*`,
`was_*`, `old_*` and the copies.

| Model | Code |
|---|---|
| `BeginInstall` to `Complete` | `install.sh` from its preflight to `exit 0` |
| `Fail` | a failing command under `set -E` and the ERR trap, with what it left unfinished |
| `Die` | `die`: an exit, which bash does not treat as an error, so no trap |
| `Stop` to `Clean` | `rollback`; `run.twice` if the failure was in a command substitution (`mktemp`, `bootstrap-admin`), where both the subshell and the script run it |
| `Restore` | one line of `had_x && install … \|\| rm -f …` of `rollback`: the file is back, or the copy failed and the file is gone |
| `Skip` | a failing command of the rollback in the subshell, where errexit is off |
| `BeginUninstall` to `Purge` | `uninstall.sh` |
| `Cut` | the script is killed or the host goes down, with files and directories half written or half removed |
| `Updated`, `Service` | `update.sh` between two runs; systemd and reboots |

Runs follow one another over whatever the runs before them have left, `MaxRuns` of
them; `run.number` counts. One script is at work at a time. A file that was being
written when its command ended is `Torn`, and so is a release directory that was being
removed. History: `run.damaged` has the files that a command of this run did not write
to its end or that rollback could not put back; `MaxDamaged` bounds how many there
may be when a file cannot be put back.

Taken to work are stopping and disabling the service, enabling a unit whose file is
there, `rm` of one file, `userdel` and `groupdel`. Any other command of `rollback` that
fails ends it, as `Cut` does.

### SemVer and ReleasePackage

`SemVer` translates `parseSemVer` and `CompareVersions` over identifiers as sequences
of characters, in the order of their codes. It is not recursive: the first
position that decides is the smallest one of a set. Its last part, `Before`, is the
precedence that Semantic Versioning defines, by the values of numbers, written
without a look at the code. `Updater` takes the order of its releases from
`CompareVersions` and states that the two agree (`ComparisonIsPrecedence`), for the
set `Versions` of versions that parse, which `MCUpdater` fills.

`ReleasePackage` follows a package from the release tool over a transport that may
exchange any part for another one's to `update.sh`: the list of entries, `Verify`
and `ReleaseID`, `build-info` of the candidate. A digest is the artifact it is of and a
signature is its key with the bytes it signs. `built` records what release tools
wrote; a tool of a later version may write other schemas.

## 4. What the runs check

| Run | Shows | Bounds |
|---|---|---|
| `state_store` | type; `AckedNotLost`; `ActiveAdminRemains`; `NoUserWithoutCredential`; `BootstrapSecretUsable`; `StateStore` implements `DurableDocument`; `ServerComesBack` under `FairSpec` | 2 users, 3 passwords of which one is too short, revision up to 5, 1 stop |
| `control_center` | type; `EvidenceIsTrue`; `EffectIsTraced`; of `OperationStore`: `BoundedHistory`, `OutcomeIsTrue`, `RunningIsActive`, `TerminalIsFinal`, `StartedIsRecorded` | 3 operations in a history of 2, 1 restart, a clock of 2 readings that moves both ways |
| `control_center_live` | `RunningEnds`; `CutOffIsInterrupted` under `LiveSpec`; `BundleConsistent` | 2 operations in a history of 1, 1 restart, a bundle, the clock still |
| `auth_service` | type; `FailuresBounded`; `OldSessionsRevoked`; `BlockedShutOut`; `ChangesAuthorized` | 2 requests, 2 users, 2 passwords, 1 client, limit 1, 2 sessions, 1 change or block per user |
| `audit_log` | `AckedIntact`; `LostOnlyAfterCut`; `RecentIsNewest`; `RecentFailsForCause`; `AuditLog` implements `AuditTrail` | 2 events of 2 bytes, one of 3 and one of 4, a window of 7 bytes, lines shorter than 4, 1 power loss |
| `updater` | `LinksComplete`; `SettledOnAccepted`; `NoSilentDowngrade`; `OldReleaseServes` under `LiveSpec`; `ComparisonIsPrecedence` | 1 updater after the other without end, 4 releases; all pairs of 128 versions |
| `installer` | type; `RolledBack`; `RunningIsWhole`; `CompletedIsWhole`; `Preserved` | 2 releases, a key, fresh and legacy hosts, 3 runs with any number of updates, reboots and failures, 1 file lost by each rollback |
| `release_package` | `CandidateIsAsPackaged`; `RefusedOnlyForCause` | 2 packages, 2 binaries, of every key, platform and schema, with any number of exchanges |
| `bootstrap_credential` | finding 1 | as `state_store` |
| `auth_revocation`, `auth_self_block` | findings 2 and 3 | as `auth_service` |
| `installer_failure` | finding 4 | as `installer` |

Why the bounds are enough to be interesting. Revision 5 lets the server make
three mutations after the bootstrap, so that there can be a second
administrator, a block of the first one and an attempt on the last one, each
with failed writes around it; two users suffice for the count in `SetBlocked` to
matter. One stop can hit either process between any two steps, and a failed
write is not bounded at all. Three operations in a history of two make
`pruneLocked` remove a record, possibly of one still running, before and after the
clock was set back; two in a history of one make it do so with every `Start`.
Two requests give every
pair of interleaved handlers; the initial accounts of `AuthService` are all
accounts with an active administrator, so that requests need no steps to set the
scene, and two sessions are one for the caller and one for the target. Limit 1
makes the boundary of the limiter one failure away. The bytes of `AuditLog` are
chosen so that the window begins inside a line, between
two lines, and right at one, and so that a whole line of the short events fits the
scanner while two cut ones together, or the long one alone, do not. The releases of `Updater` are one installed, one newer, one of
the same version as that and one that does not work; the versions that are
compared have numbers whose order as text and as values differ (2, 10), and
pre-releases of numbers, text, both mixed, a hyphen at the end, and one that must be
refused (01). Three runs of `Installer` are one that sets the scene, one that leaves
a mess and one that has to cope with it; two releases are the one that is there and
the one that comes. One file that rollback loses may be any of the five, alone or in
either pass of a rollback that runs twice; the proofs have any number. Two packages suffice for an exchange of parts; there are two of
them only with the full commit and this schema of manifests, other ones come alone
(`FewBuilt`). Operation IDs, events, releases, requests, users and passwords are
interchangeable where a run checks no liveness, which it then uses as symmetry.

`control_center`, `control_center_live` and `audit_log` do not check for deadlock:
when all requests are answered or the pair of files is torn, or all events are
appended, an idle process is expected to stay idle.

Fairness. `FairSpec` assumes that the server, when it is down or loading, goes on
(systemd's `Restart=on-failure`, or an operator who starts what was stopped), and
that a call once begun runs to its end in both processes: Go schedules a runnable
goroutine, and file operations return. Nothing else is assumed fair: nobody has to
send a request or to run bootstrap-admin, and writes may fail every time.

`ControlCenter!LiveSpec` assumes the same of handlers that have begun, and that a
process that is down is started and succeeds to open its stores again and again:
`Restart=on-failure`, or an operator after a stop by hand. `Updater!LiveSpec` assumes
that `update.sh`, while nobody ends it, goes on to its next command, and that systemd
starts a failed service from its link: the script resets the start limit before each
restart.

### Findings

1. `BootstrapCredentialStored`: the administrator is persisted before
   `bootstrap-admin.secret` is written. A stop or a failed write in between leaves an
   administrator whose password nobody has, and the next run of the command skips
   with success (`internal/state/store.go:155`, `README.md:81`).
2. `RevocationComplete`: a login that verified the old password before a change
   creates its session after `RevokeUser` (`internal/httpserver/server.go:128`,
   `docs/adr/ADR-0003-authentication-rbac.md:17`). For a block this has no effect, as
   `BlockedShutOut` shows: `currentSession` reads the account again.
3. `NobodyBlocksThemselves`: the handler compares names without trimming, the store
   trims (`internal/httpserver/server.go:249`).
4. `FailureRollsBack`: the readiness loop ends in `die`, whose exit does not run the ERR
   trap (`install/install.sh:138`, `docs/adr/ADR-0002-installer-repair-model.md:22`).

The code falls short of its documents in more places. These have no run of their own:
a passing property states what does hold, and its condition names the case.

- After the wall clock was set back, or when it stands still, a full history may prune
  the record that `Start` has just made (`internal/operations/store.go:165`, ADR-0007
  line 9). `StartedIsRecorded` shows that this happens only for records that are no older
  by that clock.
- A restoring `install` of `rollback` that fails, as on a full disk, makes the same line
  delete the file, and the rollback goes on to its end (`install/install.sh:77` to 81,
  ADR-0002 line 9: "A failed transaction restores prior runtime files"). `RolledBack` and
  `Preserved` name the file (`run.damaged`) and show that nothing else is lost.
- The username of a failed login goes into the audit log as it came; one that JSON has to
  escape may make a line longer than the scanner's buffer, over which `Recent` fails until
  the line has left its window (`internal/observability/audit.go:108`).
  `RecentFailsForCause` shows that apart from this only a failed append leaves such a line.
- A handler that `currentSession` has admitted goes on when its user is blocked meanwhile,
  and may still change an account (`internal/httpserver/server.go:367`).
  `BlockedShutOut` and `ChangesAuthorized` show that one admitted after the block may not.
- A `control-center.env` that a cut has left half written is there for the next run,
  which preserves it as it is (`install/install.sh:111`). `Preserved` and
  `CompletedIsWhole` compare with what each run has found.
- `bootstrap-admin.secret` outlives the first password change if it cannot be removed: the
  error is dropped (`internal/state/store.go:253`).
- Behind the rest of a failed append the next event is acknowledged and shares its
  line, which is no JSON (`internal/observability/audit.go:76`, ADR-0007 line 23:
  "Audit is independently readable as JSONL"). `LostOnlyAfterCut` limits it to this one
  event.
- If `Finish` cannot write, the operation is audited as successful and interrupted after
  the restart (`internal/httpserver/server.go:321`, ADR-0007 line 26). `EvidenceIsTrue`
  shows that neither claims more than is stored.
- Two updaters at once may both compare with the old release and switch one after
  the other, the second from the newer release to the older one
  (`install/update.sh:68`, `README.md:77`). With a second updater in `MCUpdater.cfg`
  `NoSilentDowngrade` fails; with one it holds, and is proved.
- An updater that is killed between switch and acceptance leaves an unaccepted release,
  which the next one records as `previous` (`install/update.sh:90`, ADR-0006 line 6).
  `SettledOnAccepted` asks that none was (`abandoned`).
- A commit of 7 to 11 digits is valid everywhere and makes `ReleaseID` panic
  (`internal/release/release.go:104`, ADR-0006 line 80). `RefusedOnlyForCause` names it
  as the one case in which a valid package crashes `verify-release`.

## 5. What is proved

All proofs are checked by tlapm from the assumptions that the modules state on
their constants, for every value of these, and without any bound on steps.

### StateStoreProofs

The safety properties are not inductive: whether a write is harmless depends on
what else may be written. `Inv` adds who may write at all.

- `FilesInv`: `secrets.json` is never older than `state.json`, revision 1 is the
  one without users, and a whole pair names the same users twice.
- `MemoryInv`: a process that has read `state.json` holds it as it is or an older
  one, so the revision check of `load` is enough to find a mixed pair out.
- `ServerInv`: a server that mutates holds every account that is stored, and no
  file is newer than its memory; so it never overwrites anything acknowledged.
- `BootstrapInv`: the command writes only while both files are at revision 1.
- `SecretInv`: an administrator who has not changed the password has the generated
  one, in the files and in the server's memory.

From `InvInductive` follow `TypeCorrect`, `AcknowledgedDurable`,
`ActiveAdminAlways` (with a lemma on the count in `SetBlocked`), `CredentialAlways`
and `BootstrapSecretCorrect`. `Refinement` shows that each step is one step of
`DurableDocument` or a stutter, so `StateStore` implements it.

The proofs hold for one server and one bootstrap-admin command at a time, the
processes that the installer and systemd run.

### OperationStoreProofs

`HandlerInv` says that a record belongs to a handler that got past `Start`, and is
running while the handler is at work. `DiskInv` says that the memory holds the
terminal records of the file unchanged or not at all. They give `TypeCorrect`,
`OutcomesTrue`, `RunningActive`, `TerminalFinal` and `HistoryBounded`, for any wall
clock and any maxRecords. `StartRecorded` rests on `PrunedKeepsNewest`: in every
outcome of the unstable sort a record is missing only if as many as the history holds
are there that are no older.

### AuthServiceProofs

What a handler has read may be out of date; `RequestInv` says what it may still
rely on. Roles never change and epochs only grow, so an administrator stays one and
a block since then shows in the epoch; `Progress` is what every step of every other
request keeps for it. This gives `BlockedAreShutOut`, `ChangesAreAuthorized` (whose
caller, if blocked by now, was admitted before: `BlockedInv`) and
`RevocationOfOldSessions`. `FailuresAreBounded` needs a count of its own,
`LimiterInv`: the failures of a key together with the logins that have passed
`Allowed` for it and not failed yet stay below the limit plus the number of requests.

### AuditLogProofs

`Inv` is the type, `AckedIntact`, and that the line of an acknowledged event begins
where the file was empty, after a line end, or after a byte of a failed event.
Appending only adds at the end and a power loss takes only what is behind `synced`, so
all of it stays. This gives `AuditTypeCorrect`, `AcknowledgedIntact` and `LossIsLocal`.

`TrailRefinement` maps each step to one of `AuditTrail`. The trail is the readable
events in the order of their places in the file, which the model gets by counting how
many are in front of each; lemmas on such rankings (from `FS_Injection`) say that the
ranking names each event once, that an event behind all others goes to its end, and
that what a power loss takes is an end of it. `RecentFailure` and `RecentOrder` look at
the window: a line in it that is too long for the scanner has a byte of a failed event or
of one that is too long by itself (`TooLongHasCause`), and an acknowledged event whose line begins in it is found.

### ControlCenterProofs

The proofs about `OperationStore` are not repeated: `ImplementsStore` says that a
step of the system is one of it, so its invariant holds here, and with it all that was
proved there (`StoreGuarantees`). `ImplementsTrail` says the same of `AuditTrail`; with
`TrailRefinement` it is why the system may speak of a trail where the code has a file.
`SystemInv` adds what
ties the stores together: a handler past its mutation that succeeded has its change
on disk, each audit event tells the outcome of its handler, and what a bundle has
read so far is covered by what it reads next. From it follow `SystemTypeCorrect`,
`EvidenceTrue` and `BundlesConsistent`; `EffectTraced` needs a count of the records
that a prune or a failed `Start` leaves.

### UpdaterProofs

`LinksAlwaysComplete` holds for any number of updaters: whatever an updater has yet to
put into a link is in `complete`, from which nothing is ever taken. `Alone` is the
invariant of one updater: what it holds as `old` is what the link named when it came
to it, so `AcceptedReleaseKept` and `NoDowngradeAlone` assume that `Updaters` has
one element, which is needed: with two, what one has compared with the other may replace.

`ComparisonCorrect` holds for numbers and pre-releases of any length. The code compares
numbers by their length and then as text, the reference by `Value`, a recursive
function over the digits. Induction shows that `Value` is what its recursion says, that
a longer number without leading zero is larger, and that the first different digit
decides. It needs no theorem with an operator as parameter: `CountingUp` takes the
smallest number outside a set, from the well-foundedness of `<` (`WFMin`), and each use
of it is a set of its own. `ListOrder` then says, once for the text of an
identifier and once for a list of them, that the first position that decides gives the
order of the whole. From it follow `SwitchRaisesPrecedence`, for one updater at a
time, and `NewerIsStrictOrder`: no chain of unforced switches comes back to a version.

### InstallerProofs

For any releases and keys and any numbers `MaxRuns` of runs and `MaxDamaged` of files that
a rollback loses. `SafeInv` says that the
service has been stopped and disabled before anything that it could run is taken away,
and that a legacy unit that may be started has its binary, now and in the backup:
`RunningStaysWhole`. `BackInv` says of each file that the rollback has dealt with that it
is as in the backup, or gone and in `run.damaged`; `UndoInv` says the same of the links and
that the releases differ by the one directory that the run created, if any. Both hold
again when a command substitution makes the rollback run twice. This gives
`RollbackRestores`, which would be wrong of a run that dies: that is the finding of
`installer_failure`. `ProgressInv` collects what an installation has done so far, for
`CompletionIsWhole`. `HostPreserved` needs of both that
rollback puts settings and key back from the backup, and never takes away a data directory
that the run has found with users.

### ReleasePackageProofs

`PackageInvariant` says that a signature of a key is that of a package in `built`, so
one whose manifest matches its signature and whose artifact matches its manifest is
the very package: `CandidateGenuine`, for any number of packages, keys and exchanges.
The other direction, `GoodPackagePasses`, needs that what a release tool has written
verifies (`WrittenVerifies`), and that each verdict so far was for the package at hand.

### Only model-checked

The liveness properties `ServerComesBack`, `RunningEnds`, `CutOffIsInterrupted` and
`OldReleaseServes`, which the prover does not handle. All other properties of the
passing runs are stated by a theorem. `LinksComplete` is checked with one updater and
proved for any number.

## 6. Not modelled

- Durability of a rename under power loss: the code syncs the file and not the
  directory. The models take a rename that returned as durable.
- Two bootstrap-admin commands at once, and an updater and an installer at once.
- JSON, PBKDF2, Ed25519, SHA-256, tar, tokens and cookies as data; wording of answers
  and logs; what the files of a diagnostics bundle list.
- The growth of the session and limiter maps in memory.
- Web UI, build information and the acceptance scripts: they have no state that the
  rest depends on.
