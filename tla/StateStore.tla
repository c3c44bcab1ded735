----------------------------- MODULE StateStore -----------------------------
(***************************************************************************)
(* internal/state/store.go: the authoritative state of Control Center.     *)
(*                                                                         *)
(* Two processes open the same state directory: the server, and the        *)
(* bootstrap-admin command that install.sh runs.  Each keeps state.json    *)
(* (doc) and secrets.json (secrets) in memory; a mutation changes both in  *)
(* memory under the store's mutex, then writes secrets.json and state.json *)
(* with one atomicWrite each, and then returns to its caller.  Nothing     *)
(* excludes the other process, and a process may be killed, or a write may *)
(* fail, between any two of these steps.                                   *)
(***************************************************************************)
EXTENDS Naturals, FiniteSets

CONSTANTS Users,        \* usernames that normalizeUsername accepts
          Admin,        \* the --username of bootstrap-admin
          Passwords,
          Weak,         \* the passwords that validatePassword rejects
          None,         \* an absent map entry, or an absent file
          MaxRevision,  \* bound: mutations stop at this revision
          MaxStops      \* bound: crashes and stops of processes

ASSUME UsersAssumption == IsFiniteSet(Users) /\ Admin \in Users
ASSUME PasswordsAssumption == Weak \subseteq Passwords

server == "server"
bootstrap == "bootstrap-admin"
Processes == {server, bootstrap}

Roles == {"admin", "viewer"}
UserRecord == [role : Roles, blocked : BOOLEAN, mustChange : BOOLEAN]
Hash == [of : Passwords]
Document == [rev : Nat \ {0}, users : [Users -> UserRecord \cup {None}]]
SecretDocument == [rev : Nat \ {0}, passwords : [Users -> Hash \cup {None}]]

\* None is no record, password or function: JSON has no such value.
ASSUME NoneAssumption ==
  /\ None \notin UserRecord \cup Hash \cup Passwords
  /\ None \notin [Users -> Hash \cup {None}]
  /\ None \notin [rev : Nat, users : [Users -> UserRecord \cup {None}],
                  passwords : [Users -> Hash \cup {None}]]

VARIABLES
  phase,            \* phase[p]: how far process p is in Open or in a mutation
  call,             \* call[p]: the mutation p is in the middle of
  doc, secrets,     \* doc[p], secrets[p]: the Store's fields in p's memory
  stateFile,        \* state.json
  secretFile,       \* secrets.json
  bootstrapFile,    \* the password in bootstrap-admin.secret
  acknowledged,     \* history: the highest revision a caller saw succeed
  stops             \* bound: crashes and stops so far

files == <<stateFile, secretFile, bootstrapFile>>
vars == <<phase, call, doc, secrets, files, acknowledged, stops>>

Phases == {"down", "loading", "open", "secrets", "state", "return"}
Calls == {"none", "bootstrap", "create", "change", "block"}

Nobody == [u \in Users |-> None]
NoDocument == [rev |-> 1, users |-> Nobody]
NoSecrets == [rev |-> 1, passwords |-> Nobody]

Named(m) == {u \in Users : m[u] # None}

(***************************************************************************)
(* Passwords.  A hash is only ever asked which password it was made of.    *)
(***************************************************************************)
HashPassword(password) == [of |-> password]

VerifyPassword(password, hash) == hash # None /\ hash.of = password

ActiveAdmins(users) ==
  {u \in Named(users) : users[u].role = "admin" /\ ~users[u].blocked}

Init == /\ phase = [p \in Processes |-> "down"]
        /\ call = [p \in Processes |-> "none"]
        /\ doc = [p \in Processes |-> NoDocument]
        /\ secrets = [p \in Processes |-> NoSecrets]
        /\ stateFile = NoDocument
        /\ secretFile = NoSecrets
        /\ bootstrapFile = None
        /\ acknowledged = 0
        /\ stops = 0

-----------------------------------------------------------------------------
(***************************************************************************)
(* A process ends, and its memory with it.                                 *)
(***************************************************************************)
Exit(p) == /\ phase' = [phase EXCEPT ![p] = "down"]
           /\ call' = [call EXCEPT ![p] = "none"]
           /\ doc' = [doc EXCEPT ![p] = NoDocument]
           /\ secrets' = [secrets EXCEPT ![p] = NoSecrets]

(***************************************************************************)
(* Open reads the two files one after the other.  A file that does not     *)
(* exist leaves the defaults, revision 1 and no users.                     *)
(***************************************************************************)
ReadStateFile(p) == /\ phase[p] = "down"
                    /\ doc' = [doc EXCEPT ![p] = stateFile]
                    /\ phase' = [phase EXCEPT ![p] = "loading"]
                    /\ UNCHANGED <<call, secrets, files, acknowledged, stops>>

\* Mutant: a store without users counts as not initialised.
ReadSecretFileRefusesEmpty(p) ==
  /\ phase[p] = "loading"
  /\ IF doc[p].rev = secretFile.rev /\ Named(doc[p].users) # {}
     THEN /\ secrets' = [secrets EXCEPT ![p] = secretFile]
          /\ phase' = [phase EXCEPT ![p] = "open"]
          /\ UNCHANGED <<call, doc>>
     ELSE Exit(p)
  /\ UNCHANGED <<files, acknowledged, stops>>

\* Mutant: a revision mismatch is not an error.
ReadSecretFileAnyRevision(p) ==
  /\ phase[p] = "loading"
  /\ secrets' = [secrets EXCEPT ![p] = secretFile]
  /\ phase' = [phase EXCEPT ![p] = "open"]
  /\ UNCHANGED <<call, doc, files, acknowledged, stops>>

\* "repair required": the process exits with an error, and systemd starts
\* the server again (Restart=on-failure).
ReadSecretFile(p) ==
  /\ phase[p] = "loading"
  /\ IF doc[p].rev = secretFile.rev
     THEN /\ secrets' = [secrets EXCEPT ![p] = secretFile]
          /\ phase' = [phase EXCEPT ![p] = "open"]
          /\ UNCHANGED <<call, doc>>
     ELSE Exit(p)
  /\ UNCHANGED <<files, acknowledged, stops>>

-----------------------------------------------------------------------------
(***************************************************************************)
(* The mutations.  Each validates, changes doc and secrets in memory under *)
(* the mutex and raises the revision; persistLocked follows.               *)
(***************************************************************************)

Mutate(p, name, users, passwords) ==
  /\ doc' = [doc EXCEPT ![p] = [rev |-> @.rev + 1, users |-> users]]
  /\ secrets' = [secrets EXCEPT ![p] = [rev |-> doc[p].rev + 1, passwords |-> passwords]]
  /\ phase' = [phase EXCEPT ![p] = "secrets"]
  /\ call' = [call EXCEPT ![p] = name]
  /\ UNCHANGED <<files, acknowledged, stops>>

\* The command ends at once when the state has users.
SkipBootstrap == /\ phase[bootstrap] = "open"
                 /\ Named(doc[bootstrap].users) # {}
                 /\ Exit(bootstrap)
                 /\ UNCHANGED <<files, acknowledged, stops>>

\* Otherwise it makes the first administrator, with a random password.
BootstrapAdmin ==
  /\ phase[bootstrap] = "open"
  /\ Named(doc[bootstrap].users) = {}
  /\ \E password \in Passwords \ Weak :
       Mutate(bootstrap, "bootstrap",
              [doc[bootstrap].users EXCEPT ![Admin] =
                 [role |-> "admin", blocked |-> FALSE, mustChange |-> TRUE]],
              [secrets[bootstrap].passwords EXCEPT ![Admin] = HashPassword(password)])

\* The HTTP handlers reach the mutations below for an authenticated caller
\* only, and there is none before there are users.  The mutex admits one
\* mutation at a time.
Serving == /\ phase[server] = "open"
           /\ Named(doc[server].users) # {}
           /\ doc[server].rev < MaxRevision

\* Mutant: the role in the request is stored as it came.
CreateUserAnyRole(u, password, role) ==
  /\ Serving
  /\ password \notin Weak
  /\ doc[server].users[u] = None
  /\ Mutate(server, "create",
            [doc[server].users EXCEPT ![u] =
               [role |-> role, blocked |-> FALSE, mustChange |-> FALSE]],
            [secrets[server].passwords EXCEPT ![u] = HashPassword(password)])

CreateUser(u, password, role) ==
  /\ Serving
  /\ role \in Roles
  /\ password \notin Weak
  /\ doc[server].users[u] = None
  /\ Mutate(server, "create",
            [doc[server].users EXCEPT ![u] =
               [role |-> role, blocked |-> FALSE, mustChange |-> FALSE]],
            [secrets[server].passwords EXCEPT ![u] = HashPassword(password)])

\* Mutant: a change of password leaves the must-change flag set.
ChangePasswordKeepsFlag(u, old, new) ==
  /\ Serving
  /\ new \notin Weak
  /\ doc[server].users[u] # None
  /\ ~doc[server].users[u].blocked
  /\ VerifyPassword(old, secrets[server].passwords[u])
  /\ Mutate(server, "change", doc[server].users,
            [secrets[server].passwords EXCEPT ![u] = HashPassword(new)])

ChangePassword(u, old, new) ==
  /\ Serving
  /\ new \notin Weak
  /\ doc[server].users[u] # None
  /\ ~doc[server].users[u].blocked
  /\ VerifyPassword(old, secrets[server].passwords[u])
  /\ Mutate(server, "change",
            [doc[server].users EXCEPT ![u].mustChange = FALSE],
            [secrets[server].passwords EXCEPT ![u] = HashPassword(new)])

\* Mutant: the blocked administrators are counted as well.
LastActiveAdminOfAnyState(users, u, blocked) ==
  /\ users[u].role = "admin"
  /\ blocked
  /\ Cardinality({v \in Named(users) : users[v].role = "admin"}) <= 1

\* The refusal of SetBlocked: it counts, whether or not u is one of them.
LastActiveAdmin(users, u, blocked) ==
  /\ users[u].role = "admin"
  /\ blocked
  /\ Cardinality(ActiveAdmins(users)) <= 1

SetBlocked(u, blocked) ==
  /\ Serving
  /\ doc[server].users[u] # None
  /\ ~LastActiveAdmin(doc[server].users, u, blocked)
  /\ Mutate(server, "block",
            [doc[server].users EXCEPT ![u].blocked = blocked],
            secrets[server].passwords)

-----------------------------------------------------------------------------
(***************************************************************************)
(* persistLocked: secrets.json first, then state.json, each replaced in    *)
(* one step by a rename or, if the write fails, not at all.  An error is   *)
(* returned to the caller, and what is in memory stays there.              *)
(***************************************************************************)

WriteSecrets(p) == /\ phase[p] = "secrets"
                   /\ secretFile' = secrets[p]
                   /\ phase' = [phase EXCEPT ![p] = "state"]
                   /\ UNCHANGED <<call, doc, secrets, stateFile, bootstrapFile,
                                  acknowledged, stops>>

WriteState(p) == /\ phase[p] = "state"
                 /\ stateFile' = doc[p]
                 /\ phase' = [phase EXCEPT ![p] = "return"]
                 /\ UNCHANGED <<call, doc, secrets, secretFile, bootstrapFile,
                                acknowledged, stops>>

\* Mutant: a failed write is taken for a write.
WriteIgnored(p) == /\ phase[p] \in {"secrets", "state"}
                   /\ phase' = [phase EXCEPT ![p] = "return"]
                   /\ UNCHANGED <<call, doc, secrets, files, acknowledged, stops>>

WriteFails(p) == /\ phase[p] \in {"secrets", "state"}
                 /\ IF p = server
                    THEN /\ phase' = [phase EXCEPT ![p] = "open"]
                         /\ call' = [call EXCEPT ![p] = "none"]
                         /\ UNCHANGED <<doc, secrets>>
                    ELSE Exit(p)
                 /\ UNCHANGED <<files, acknowledged, stops>>

-----------------------------------------------------------------------------
(***************************************************************************)
(* After persistLocked: BootstrapAdmin stores the generated credential,    *)
(* ChangePassword removes it, and the caller sees the outcome.             *)
(***************************************************************************)
Acknowledge(p) ==
  acknowledged' = IF doc[p].rev > acknowledged THEN doc[p].rev ELSE acknowledged

StoreBootstrapSecret ==
  /\ phase[bootstrap] = "return"
  /\ bootstrapFile' = secrets[bootstrap].passwords[Admin].of
  /\ Acknowledge(bootstrap)
  /\ Exit(bootstrap)
  /\ UNCHANGED <<stateFile, secretFile, stops>>

\* atomicWrite of the secret fails, and so does the command.
StoreBootstrapSecretFails ==
  /\ phase[bootstrap] = "return"
  /\ Exit(bootstrap)
  /\ UNCHANGED <<files, acknowledged, stops>>

\* The error of os.Remove is dropped, so the file may stay.
Return ==
  /\ phase[server] = "return"
  /\ bootstrapFile' \in IF call[server] = "change" THEN {None, bootstrapFile}
                                                   ELSE {bootstrapFile}
  /\ Acknowledge(server)
  /\ phase' = [phase EXCEPT ![server] = "open"]
  /\ call' = [call EXCEPT ![server] = "none"]
  /\ UNCHANGED <<doc, secrets, stateFile, secretFile, stops>>

(***************************************************************************)
(* A kill, a power cycle or the shutdown that systemctl asks for.          *)
(***************************************************************************)
Stop(p) == /\ phase[p] # "down"
           /\ stops < MaxStops
           /\ stops' = stops + 1
           /\ Exit(p)
           /\ UNCHANGED <<files, acknowledged>>

-----------------------------------------------------------------------------
Load(p) == ReadStateFile(p) \/ ReadSecretFile(p)

\* Mutant: state.json is written before secrets.json.
PersistStateFirst(p) ==
  \/ /\ phase[p] = "secrets"
     /\ stateFile' = doc[p]
     /\ phase' = [phase EXCEPT ![p] = "state"]
     /\ UNCHANGED <<call, doc, secrets, secretFile, bootstrapFile, acknowledged, stops>>
  \/ /\ phase[p] = "state"
     /\ secretFile' = secrets[p]
     /\ phase' = [phase EXCEPT ![p] = "return"]
     /\ UNCHANGED <<call, doc, secrets, stateFile, bootstrapFile, acknowledged, stops>>
  \/ WriteFails(p)

Persist(p) == WriteSecrets(p) \/ WriteState(p) \/ WriteFails(p)

Bootstrap == \/ SkipBootstrap
             \/ BootstrapAdmin
             \/ StoreBootstrapSecret
             \/ StoreBootstrapSecretFails

Serve == \/ \E u \in Users, password \in Passwords, role \in Roles \cup {"other"} :
              CreateUser(u, password, role)
         \/ \E u \in Users, old, new \in Passwords : ChangePassword(u, old, new)
         \/ \E u \in Users, blocked \in BOOLEAN : SetBlocked(u, blocked)
         \/ Return

Next == \/ \E p \in Processes : Load(p) \/ Persist(p) \/ Stop(p)
        \/ Bootstrap
        \/ Serve

Spec == Init /\ [][Next]_vars

(***************************************************************************)
(* Fairness.  systemd starts a failed server again and an operator a       *)
(* stopped one, and a call that has begun runs to its end; nobody has to   *)
(* send a request, and nobody has to run bootstrap-admin.                  *)
(***************************************************************************)
Fairness == /\ WF_vars(Load(server))
            /\ WF_vars(Persist(server) \/ Return)
            /\ WF_vars(ReadSecretFile(bootstrap) \/ Persist(bootstrap) \/ Bootstrap)

FairSpec == Spec /\ Fairness

-----------------------------------------------------------------------------
(***************************************************************************)
(* Properties.                                                             *)
(***************************************************************************)

\* Every variable has its type; a stored role is one that CreateUser accepts.
TypeOK == /\ phase \in [Processes -> Phases]
          /\ call \in [Processes -> Calls]
          /\ doc \in [Processes -> Document]
          /\ secrets \in [Processes -> SecretDocument]
          /\ stateFile \in Document
          /\ secretFile \in SecretDocument
          /\ bootstrapFile \in Passwords \cup {None}
          /\ acknowledged \in Nat
          /\ stops \in Nat

\* The two documents belong to the same revision.
Whole == stateFile.rev = secretFile.rev

\* A change whose caller saw it succeed is in state.json, or was replaced by
\* a later change, whatever failed, stopped or was loaded in between
\* (persistLocked and the two processes of cmd/control-center/main.go).
AckedNotLost == acknowledged <= stateFile.rev

HasActiveAdmin(users) == Named(users) # {} => ActiveAdmins(users) # {}

\* No order of blocks and unblocks, failed writes and restarts leaves the
\* users without an active administrator, on disk or in a process's memory
\* (SetBlocked; ADR-0003 "The final active administrator cannot be blocked").
ActiveAdminRemains == /\ HasActiveAdmin(stateFile.users)
                      /\ \A p \in Processes : HasActiveAdmin(doc[p].users)

\* Metadata never names a user whose credential is not in secrets.json, not
\* even when a pair update was cut in two (the write order of persistLocked;
\* ADR-0004 "a partial pair update cannot silently authorize metadata that
\* has no corresponding credential").
NoUserWithoutCredential == Named(stateFile.users) \subseteq Named(secretFile.passwords)

\* The secret that bootstrap-admin left logs the administrator in for as long
\* as the administrator has not changed the password: no later mutation, failed
\* removal or restart makes bootstrap-admin.secret a wrong password that the
\* documentation still tells the operator to use.
BootstrapSecretUsable ==
  /\ bootstrapFile # None
  /\ Whole
  /\ stateFile.users[Admin] # None
  /\ stateFile.users[Admin].mustChange
  => VerifyPassword(bootstrapFile, secretFile.passwords[Admin])

\* The two files, and the copies the two processes make of them, behave as one
\* document: opened whole or not at all, committed under a higher revision and
\* without losing an account, and unreadable between the two writes.
Abstract ==
  INSTANCE DurableDocument WITH
    Accounts <- UserRecord,
    Credentials <- Hash,
    Torn <- None,
    Closed <- None,
    metadata <- stateFile,
    credentials <- IF Whole THEN secretFile.passwords ELSE None,
    live <- [p \in Processes |->
               IF phase[p] \in {"down", "loading"}
               THEN None
               ELSE [rev |-> doc[p].rev, users |-> doc[p].users,
                     passwords |-> secrets[p].passwords]]

ImplementsDurableDocument == Abstract!Spec

\* The server always comes back, also when it was started in the middle of a
\* bootstrap-admin and took the half-written pair for a mismatch, unless the
\* pair stays torn: then somebody has to repair it (Open; Restart=on-failure).
ServerComesBack == \/ []<>(phase[server] = "open")
                   \/ <>[]~Whole

\* README.md and ADR-0003: the generated credential is stored for the operator.
\* When bootstrap-admin succeeds because the state already has its user, and
\* nobody has changed anything since, the credential is in the secret file.
BootstrapCredentialStored ==
  [][SkipBootstrap /\ doc[bootstrap].rev = 2 => bootstrapFile # None]_vars
=============================================================================
