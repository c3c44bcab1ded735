-------------------------- MODULE StateStoreProofs --------------------------
(***************************************************************************)
(* What StateStore guarantees for every set of users and passwords and     *)
(* every bound on revisions and stops.                                     *)
(*                                                                         *)
(* The safety properties are not inductive: they depend on who may write   *)
(* at all.  Inv says that the bootstrap-admin command writes only while    *)
(* both files are at revision 1, that the server writes only once they are *)
(* past it and never from a document that misses a stored account, and     *)
(* that a process half-way through Open holds state.json as it is or an    *)
(* older one, so that the revision check finds it out.                     *)
(***************************************************************************)
EXTENDS StateStore, FiniteSetTheorems, TLAPS

Active(p) == phase[p] \in {"open", "secrets", "state", "return"}
Writing(p) == phase[p] \in {"secrets", "state", "return"}

\* The first revision, and no other, has no users.
FirstIsEmpty(m) == m.rev = 1 <=> Named(m.users) = {}

FilesInv == /\ stateFile.rev <= secretFile.rev
            /\ FirstIsEmpty(stateFile)
            /\ Whole => Named(stateFile.users) = Named(secretFile.passwords)

MemoryInv ==
  \A p \in Processes :
    /\ FirstIsEmpty(doc[p])
    /\ phase[p] = "loading" => /\ doc[p].rev <= stateFile.rev
                               /\ doc[p].rev = stateFile.rev => doc[p] = stateFile
    /\ Active(p) => /\ doc[p].rev = secrets[p].rev
                    /\ Named(doc[p].users) = Named(secrets[p].passwords)

ServerInv ==
  /\ Writing(server) => doc[server].rev > 1
  /\ Active(server) /\ doc[server].rev > 1 =>
       /\ stateFile.rev > 1
       /\ Named(stateFile.users) \subseteq Named(doc[server].users)
       /\ secretFile.rev <= doc[server].rev
       /\ phase[server] = "secrets" => secretFile.rev < doc[server].rev
       /\ phase[server] = "state" => /\ secretFile = secrets[server]
                                     /\ stateFile.rev < doc[server].rev
       /\ phase[server] = "return" => stateFile = doc[server]

BootstrapInv ==
  /\ Writing(bootstrap) => /\ doc[bootstrap].rev = 2
                           /\ secrets[bootstrap].passwords[Admin] # None
  /\ \/ phase[bootstrap] = "open" /\ doc[bootstrap].rev = 1
     \/ phase[bootstrap] = "secrets"
     => stateFile.rev = 1 /\ secretFile.rev = 1
  /\ phase[bootstrap] = "state" => /\ stateFile.rev = 1
                                   /\ secretFile = secrets[bootstrap]
  /\ phase[bootstrap] = "return" => doc[bootstrap].rev <= stateFile.rev

\* The password that bootstrap-admin generated, once it has one.
Issued(password) ==
  \/ bootstrapFile = password
  \/ Writing(bootstrap) /\ secrets[bootstrap].passwords[Admin] = HashPassword(password)

\* An administrator who must change the password has the generated one.
Untouched(users, passwords) ==
  \A password \in Passwords :
    /\ Issued(password)
    /\ users[Admin] # None
    /\ users[Admin].mustChange
    => passwords[Admin] = HashPassword(password)

SecretInv ==
  /\ bootstrapFile # None => stateFile.rev > 1
  /\ Whole => Untouched(stateFile.users, secretFile.passwords)
  /\ Active(server) => Untouched(doc[server].users, secrets[server].passwords)

Inv == /\ TypeOK
       /\ FilesInv
       /\ MemoryInv
       /\ ServerInv
       /\ BootstrapInv
       /\ SecretInv
       /\ AckedNotLost
       /\ ActiveAdminRemains
       /\ NoUserWithoutCredential
USE DEF Processes, server, bootstrap

\* A fresh state directory satisfies the inductive invariant.
LEMMA InitInv == Init => Inv
<1> SUFFICES ASSUME Init PROVE Inv
  OBVIOUS
<1> USE DEF Init, NoDocument, NoSecrets, Nobody
<1>1. TypeOK
  BY DEF TypeOK, Phases, Calls, Document, SecretDocument
<1>2. Named(Nobody) = {}
  BY DEF Named
<1>3. FilesInv /\ MemoryInv /\ ServerInv /\ BootstrapInv
  BY <1>2 DEF FilesInv, FirstIsEmpty, MemoryInv, ServerInv, BootstrapInv,
              Active, Writing, Whole
<1>4. SecretInv
  BY UsersAssumption DEF SecretInv, Untouched, Active
<1>5. AckedNotLost /\ ActiveAdminRemains /\ NoUserWithoutCredential
  BY <1>2 DEF AckedNotLost, ActiveAdminRemains, HasActiveAdmin,
              NoUserWithoutCredential
<1> QED
  BY <1>1, <1>3, <1>4, <1>5 DEF Inv

\* A process that ends takes only its memory with it.
LEMMA ExitInv ==
  ASSUME Inv, NEW p \in Processes, Exit(p),
         stateFile' = stateFile, secretFile' = secretFile,
         bootstrapFile' = bootstrapFile, acknowledged' = acknowledged, stops' \in Nat
  PROVE  Inv'
<1> USE DEF Inv, Exit, NoDocument, NoSecrets, Nobody
<1>1. TypeOK'
  BY DEF TypeOK, Phases, Calls, Document, SecretDocument
<1>2. Named(Nobody) = {}
  BY DEF Named
<1>3. FilesInv' 
  BY DEF FilesInv, FirstIsEmpty, Named, Whole
<1>4. MemoryInv'
  BY <1>2 DEF MemoryInv, FirstIsEmpty, Named, Active, TypeOK
<1>5. ServerInv' 
  BY DEF ServerInv, Active, Writing, TypeOK, Named
<1>6. BootstrapInv'
  BY DEF BootstrapInv, Active, Writing, TypeOK
<1>7. SecretInv'
  BY DEF SecretInv, Untouched, Issued, Active, Writing, TypeOK, Whole
<1>8. AckedNotLost' /\ ActiveAdminRemains' /\ NoUserWithoutCredential'
  BY <1>2 DEF AckedNotLost, ActiveAdminRemains, HasActiveAdmin, Named,
              NoUserWithoutCredential, TypeOK, ActiveAdmins
<1> QED
  BY <1>1, <1>3, <1>4, <1>5, <1>6, <1>7, <1>8
\* Open has read state.json.
LEMMA ReadStateFileInv ==
  ASSUME Inv, NEW p \in Processes, ReadStateFile(p)
  PROVE  Inv'
<1> USE DEF Inv, ReadStateFile, files
<1>1. TypeOK'
  BY DEF TypeOK, Phases
<1>2. FilesInv'
  BY DEF FilesInv, FirstIsEmpty, Named, Whole
<1>3. MemoryInv'
  BY DEF MemoryInv, FilesInv, FirstIsEmpty, Named, Active, TypeOK, Document
<1>4. ServerInv'
  BY DEF ServerInv, Active, Writing, TypeOK, Named
<1>5. BootstrapInv'
  BY DEF BootstrapInv, Active, Writing, TypeOK
<1>6. SecretInv'
  BY DEF SecretInv, Untouched, Issued, Active, Writing, TypeOK, Whole
<1>7. AckedNotLost' /\ ActiveAdminRemains' /\ NoUserWithoutCredential'
  BY DEF AckedNotLost, ActiveAdminRemains, HasActiveAdmin, Named,
         NoUserWithoutCredential, TypeOK, ActiveAdmins
<1> QED
  BY <1>1, <1>2, <1>3, <1>4, <1>5, <1>6, <1>7

\* The revision check is enough: a document that passes it is the stored one.
LEMMA OpenedIsStored ==
  ASSUME Inv, NEW p \in Processes, phase[p] = "loading", doc[p].rev = secretFile.rev
  PROVE  Whole /\ doc[p] = stateFile
BY DEF Inv, TypeOK, Document, SecretDocument, FilesInv, MemoryInv, Whole

\* Open has read secrets.json, and compared the revisions.
LEMMA ReadSecretFileInv ==
  ASSUME Inv, NEW p \in Processes, ReadSecretFile(p)
  PROVE  Inv'
<1>1. CASE doc[p].rev # secretFile.rev
  BY <1>1, ExitInv DEF ReadSecretFile, files, Inv, TypeOK
<1>2. CASE doc[p].rev = secretFile.rev
  <2> USE <1>2 DEF Inv, ReadSecretFile, files
  <2>0. Whole /\ doc[p] = stateFile
    BY OpenedIsStored
  <2>1. TypeOK'
    BY DEF TypeOK, Phases
  <2>2. FilesInv'
    BY DEF FilesInv, FirstIsEmpty, Named, Whole
  <2>3. MemoryInv'
    BY <2>0 DEF MemoryInv, FilesInv, FirstIsEmpty, Named, Active, TypeOK
  <2>4. ServerInv'
    BY <2>0 DEF ServerInv, Active, Writing, TypeOK, Named, Document, SecretDocument
  <2>5. BootstrapInv'
    BY <2>0 DEF BootstrapInv, Active, Writing, TypeOK
  <2>6. SecretInv'
    BY <2>0 DEF SecretInv, Untouched, Issued, Active, Writing, TypeOK, Whole
  <2>7. AckedNotLost' /\ ActiveAdminRemains' /\ NoUserWithoutCredential'
    BY DEF AckedNotLost, ActiveAdminRemains, HasActiveAdmin, Named,
           NoUserWithoutCredential, TypeOK, ActiveAdmins
  <2> QED
    BY <2>1, <2>2, <2>3, <2>4, <2>5, <2>6, <2>7
<1> QED
  BY <1>1, <1>2

\* What every mutation has to ensure about the maps that it puts in memory.
LEMMA MutateInv ==
  ASSUME Inv, NEW p \in Processes, NEW name \in Calls,
         NEW users \in [Users -> UserRecord \cup {None}],
         NEW passwords \in [Users -> Hash \cup {None}],
         phase[p] = "open",
         Mutate(p, name, users, passwords),
         Named(users) # {},
         Named(users) = Named(passwords),
         HasActiveAdmin(users),
         p = server => /\ doc[server].rev > 1
                       /\ Named(doc[server].users) \subseteq Named(users)
                       /\ Untouched(users, passwords),
         p = bootstrap => doc[bootstrap].rev = 1 /\ passwords[Admin] # None
  PROVE  Inv'
<1> USE DEF Inv, Mutate, files
<1>1. TypeOK'
  BY DEF TypeOK, Phases, Document, SecretDocument
<1>2. FilesInv'
  BY DEF FilesInv, FirstIsEmpty, Named, Whole
<1>3. MemoryInv'
  BY DEF MemoryInv, FirstIsEmpty, Named, Active, TypeOK, Document
<1>4. ServerInv'
  BY DEF ServerInv, Active, Writing, TypeOK, Named, Document, SecretDocument
<1>5. BootstrapInv'
  BY DEF BootstrapInv, Active, Writing, TypeOK
<1>6. SecretInv'
  <2>1. CASE p = server
    BY <2>1 DEF SecretInv, Untouched, Issued, Active, Writing, TypeOK, Whole
  <2>2. CASE p = bootstrap
    <3>1. stateFile.rev = 1 /\ stateFile.users[Admin] = None
      BY <2>2, UsersAssumption DEF BootstrapInv, FilesInv, FirstIsEmpty, Named
    <3>2. Active(server) => doc[server].users[Admin] = None
      BY <3>1, UsersAssumption
      DEF ServerInv, MemoryInv, FirstIsEmpty, Named, TypeOK, Document
    <3> QED
      BY <2>2, <3>1, <3>2 DEF SecretInv, Untouched, Active, TypeOK, Whole
  <2> QED
    BY <2>1, <2>2
<1>7. AckedNotLost' /\ ActiveAdminRemains' /\ NoUserWithoutCredential'
  BY DEF AckedNotLost, ActiveAdminRemains, HasActiveAdmin, Named,
         NoUserWithoutCredential, TypeOK, ActiveAdmins
<1> QED
  BY <1>1, <1>2, <1>3, <1>4, <1>5, <1>6, <1>7

\* The first write of persistLocked tears the pair, and only the metadata is old.
LEMMA WriteSecretsInv ==
  ASSUME Inv, NEW p \in Processes, WriteSecrets(p)
  PROVE  Inv'
<1> USE DEF Inv, WriteSecrets
<1>0. /\ secretFile'.rev > stateFile.rev
      /\ Named(stateFile.users) \subseteq Named(secretFile'.passwords)
      /\ p = bootstrap => ~Active(server) \/ doc[server].rev = 1
  BY DEF ServerInv, BootstrapInv, MemoryInv, FilesInv, FirstIsEmpty, TypeOK,
         Document, SecretDocument, Writing, Active
<1>1. TypeOK'
  BY DEF TypeOK, Phases
<1>2. FilesInv'
  BY <1>0 DEF FilesInv, FirstIsEmpty, Named, Whole, TypeOK, Document, SecretDocument
<1>3. MemoryInv'
  BY DEF MemoryInv, FirstIsEmpty, Named, Active, TypeOK
<1>4. ServerInv'
  BY <1>0 DEF ServerInv, MemoryInv, FilesInv, Active, Writing, TypeOK, Named,
              Document, SecretDocument
<1>5. BootstrapInv'
  BY <1>0 DEF BootstrapInv, ServerInv, Active, Writing, TypeOK
<1>6. SecretInv'
  BY <1>0 DEF SecretInv, Untouched, Issued, Active, Writing, TypeOK, Whole,
              Document, SecretDocument
<1>7. AckedNotLost' /\ ActiveAdminRemains' /\ NoUserWithoutCredential'
  BY <1>0 DEF AckedNotLost, ActiveAdminRemains, HasActiveAdmin, Named,
              NoUserWithoutCredential, TypeOK, ActiveAdmins
<1> QED
  BY <1>1, <1>2, <1>3, <1>4, <1>5, <1>6, <1>7

\* The second write of persistLocked makes the pair whole again.
LEMMA WriteStateInv ==
  ASSUME Inv, NEW p \in Processes, WriteState(p)
  PROVE  Inv'
<1> USE DEF Inv, WriteState
<1>0. /\ secretFile = secrets[p] /\ doc[p].rev = secrets[p].rev
      /\ Named(doc[p].users) = Named(secrets[p].passwords)
      /\ doc[p].rev > stateFile.rev
      /\ p = bootstrap => ~Active(server) \/ doc[server].rev = 1
  BY DEF ServerInv, BootstrapInv, MemoryInv, TypeOK, Document, SecretDocument,
         Writing, Active
<1>1. TypeOK'
  BY DEF TypeOK, Phases
<1>2. FilesInv'
  BY <1>0 DEF FilesInv, MemoryInv, FirstIsEmpty, Named, Whole, TypeOK,
              Document, SecretDocument
<1>3. MemoryInv'
  BY <1>0 DEF MemoryInv, FirstIsEmpty, Named, Active, TypeOK, Document, SecretDocument
<1>4. ServerInv'
  BY <1>0 DEF ServerInv, Active, Writing, TypeOK, Named, Document, SecretDocument
<1>5. BootstrapInv'
  BY <1>0 DEF BootstrapInv, ServerInv, Active, Writing, TypeOK, Document, SecretDocument
<1>6. SecretInv'
  <2>1. \A password \in Passwords : Issued(password)' = Issued(password)
    BY DEF Issued, Writing, TypeOK
  <2>2. Untouched(doc[p].users, secrets[p].passwords)
    <3>1. CASE p = server
      BY <3>1 DEF SecretInv, Active
    <3>2. CASE p = bootstrap
      <4>1. bootstrapFile = None
        BY <3>2 DEF SecretInv, BootstrapInv
      <4> QED
        BY <3>2, <4>1, NoneAssumption DEF Untouched, Issued
    <3> QED
      BY <3>1, <3>2
  <2>3. Untouched(stateFile.users, secretFile.passwords)'
    BY <1>0, <2>1, <2>2 DEF Untouched
  <2>4. Active(server)' => Untouched(doc[server].users, secrets[server].passwords)'
    BY <2>1 DEF SecretInv, Untouched, Active, TypeOK
  <2>5. bootstrapFile' # None => stateFile'.rev > 1
    BY <1>0 DEF SecretInv, TypeOK, Document, SecretDocument
  <2> QED
    BY <2>3, <2>4, <2>5 DEF SecretInv
<1>7. AckedNotLost' /\ ActiveAdminRemains' /\ NoUserWithoutCredential'
  BY <1>0 DEF AckedNotLost, ActiveAdminRemains, HasActiveAdmin, Named,
              NoUserWithoutCredential, TypeOK, ActiveAdmins, Document, SecretDocument
<1> QED
  BY <1>1, <1>2, <1>3, <1>4, <1>5, <1>6, <1>7

\* A failed write changes no file.
LEMMA WriteFailsInv ==
  ASSUME Inv, NEW p \in Processes, WriteFails(p)
  PROVE  Inv'
<1>1. CASE p # server
  BY <1>1, ExitInv DEF WriteFails, files, Inv, TypeOK
<1>2. CASE p = server
  <2> USE <1>2 DEF Inv, WriteFails, files
  <2>1. TypeOK'
    BY DEF TypeOK, Phases, Calls
  <2>2. FilesInv' /\ MemoryInv'
    BY DEF FilesInv, MemoryInv, FirstIsEmpty, Named, Whole, Active, TypeOK
  <2>3. ServerInv'
    BY DEF ServerInv, Active, Writing, TypeOK, Named, Document, SecretDocument
  <2>4. BootstrapInv'
    BY DEF BootstrapInv, Active, Writing, TypeOK
  <2>5. SecretInv'
    BY DEF SecretInv, Untouched, Issued, Active, Writing, TypeOK, Whole
  <2>6. AckedNotLost' /\ ActiveAdminRemains' /\ NoUserWithoutCredential'
    BY DEF AckedNotLost, ActiveAdminRemains, HasActiveAdmin, Named,
           NoUserWithoutCredential, TypeOK, ActiveAdmins
  <2> QED
    BY <2>1, <2>2, <2>3, <2>4, <2>5, <2>6
<1> QED
  BY <1>1, <1>2
\* An entry of the maps is never taken for an absent one.
LEMMA EntryIsNotNone ==
  /\ \A r \in UserRecord : r # None
  /\ \A h \in Hash : h # None
  /\ \A password \in Passwords : HashPassword(password) \in Hash
<1>1. \A password \in Passwords : HashPassword(password) \in Hash
  BY DEF HashPassword, Hash
<1> QED
  BY <1>1, NoneAssumption

\* The first account is an active administrator with a credential.
LEMMA BootstrapAdminInv ==
  ASSUME Inv, BootstrapAdmin
  PROVE  Inv'
<1>1. PICK password \in Passwords \ Weak :
        Mutate(bootstrap, "bootstrap",
               [doc[bootstrap].users EXCEPT ![Admin] =
                  [role |-> "admin", blocked |-> FALSE, mustChange |-> TRUE]],
               [secrets[bootstrap].passwords EXCEPT ![Admin] = HashPassword(password)])
  BY DEF BootstrapAdmin
<1> DEFINE users == [doc[bootstrap].users EXCEPT ![Admin] =
                       [role |-> "admin", blocked |-> FALSE, mustChange |-> TRUE]]
           passwords == [secrets[bootstrap].passwords EXCEPT ![Admin] =
                           HashPassword(password)]
<1>2. phase[bootstrap] = "open" /\ doc[bootstrap].rev = 1
  BY DEF BootstrapAdmin, Inv, MemoryInv, FirstIsEmpty
<1>3. /\ users \in [Users -> UserRecord \cup {None}]
      /\ passwords \in [Users -> Hash \cup {None}]
      /\ "bootstrap" \in Calls
  BY DEF Inv, TypeOK, Document, SecretDocument, UserRecord, Roles, Hash,
         HashPassword, Calls
<1>4. users[Admin] # None /\ passwords[Admin] # None
  <2>1. [role |-> "admin", blocked |-> FALSE, mustChange |-> TRUE] \in UserRecord
    BY DEF UserRecord, Roles
  <2>2. users[Admin] \in UserRecord /\ passwords[Admin] \in Hash
    BY <2>1, UsersAssumption, EntryIsNotNone DEF Inv, TypeOK, Document, SecretDocument
  <2> QED
    BY <2>2, EntryIsNotNone
<1>5. Named(users) # {} /\ Named(users) = Named(passwords)
  BY <1>2, <1>4, UsersAssumption
  DEF Inv, TypeOK, Document, SecretDocument, MemoryInv, Named, Active
<1>6. HasActiveAdmin(users)
  <2>1. users[Admin].role = "admin" /\ ~users[Admin].blocked
    BY UsersAssumption DEF Inv, TypeOK, Document
  <2> QED
    BY <1>4, <2>1, UsersAssumption DEF HasActiveAdmin, ActiveAdmins, Named
<1> HIDE DEF users, passwords
<1> QED
  BY <1>1, <1>2, <1>3, <1>4, <1>5, <1>6, MutateInv DEF users, passwords

\* The server mutates only documents that have users.
LEMMA ServingDocument ==
  ASSUME Inv, Serving
  PROVE  /\ phase[server] = "open"
         /\ doc[server].rev > 1
         /\ Named(doc[server].users) = Named(secrets[server].passwords)
         /\ Untouched(doc[server].users, secrets[server].passwords)
         /\ HasActiveAdmin(doc[server].users)
BY DEF Serving, Inv, TypeOK, Document, MemoryInv, FirstIsEmpty, SecretInv, Active,
       ActiveAdminRemains

\* CreateUser adds an account together with its credential.
LEMMA CreateUserInv ==
  ASSUME Inv, NEW u \in Users, NEW password \in Passwords, NEW role,
         CreateUser(u, password, role)
  PROVE  Inv'
<1> DEFINE record == [role |-> role, blocked |-> FALSE, mustChange |-> FALSE]
           users == [doc[server].users EXCEPT ![u] = record]
           passwords == [secrets[server].passwords EXCEPT ![u] = HashPassword(password)]
<1>1. /\ Serving
      /\ Mutate(server, "create", users, passwords)
      /\ role \in Roles
      /\ doc[server].users[u] = None
  BY DEF CreateUser
<1>2. /\ users \in [Users -> UserRecord \cup {None}]
      /\ passwords \in [Users -> Hash \cup {None}]
      /\ "create" \in Calls
  BY <1>1 DEF Inv, TypeOK, Document, SecretDocument, UserRecord, Hash,
              HashPassword, Calls
<1>3. users[u] = record /\ users[u] # None /\ passwords[u] # None
  <2>1. record \in UserRecord
    BY <1>1 DEF UserRecord
  <2>2. users[u] = record /\ passwords[u] = HashPassword(password)
    BY DEF Inv, TypeOK, Document, SecretDocument
  <2> QED
    BY <2>1, <2>2, EntryIsNotNone
<1>4. \A v \in Users \ {u} : /\ users[v] = doc[server].users[v]
                             /\ passwords[v] = secrets[server].passwords[v]
  BY DEF Inv, TypeOK, Document, SecretDocument
<1> HIDE DEF users, passwords
<1>5. /\ Named(users) = Named(passwords)
      /\ Named(doc[server].users) \subseteq Named(users)
      /\ Named(users) # {}
  BY <1>1, <1>3, <1>4, ServingDocument DEF Named
<1>6. HasActiveAdmin(users)
  BY <1>1, <1>3, <1>4, ServingDocument DEF HasActiveAdmin, ActiveAdmins, Named, Serving
<1>7. Untouched(users, passwords)
  BY <1>1, <1>3, <1>4, ServingDocument, UsersAssumption DEF Untouched
<1> QED
  BY <1>1, <1>2, <1>5, <1>6, <1>7, ServingDocument, MutateInv

\* ChangePassword replaces a credential and clears the must-change flag.
LEMMA ChangePasswordInv ==
  ASSUME Inv, NEW u \in Users, NEW old \in Passwords, NEW new \in Passwords,
         ChangePassword(u, old, new)
  PROVE  Inv'
<1> DEFINE users == [doc[server].users EXCEPT ![u].mustChange = FALSE]
           passwords == [secrets[server].passwords EXCEPT ![u] = HashPassword(new)]
<1>1. /\ Serving
      /\ Mutate(server, "change", users, passwords)
      /\ doc[server].users[u] # None
  BY DEF ChangePassword
<1>2. /\ doc[server].users[u] \in UserRecord
      /\ users[u] = [doc[server].users[u] EXCEPT !.mustChange = FALSE]
      /\ passwords[u] = HashPassword(new)
  BY <1>1 DEF Inv, TypeOK, Document, SecretDocument
<1>3. /\ users[u] \in UserRecord
      /\ users[u].role = doc[server].users[u].role
      /\ users[u].blocked = doc[server].users[u].blocked
      /\ ~users[u].mustChange
  BY <1>2, ZenonT(30) DEF UserRecord
<1>4. \A v \in Users \ {u} : /\ users[v] = doc[server].users[v]
                             /\ passwords[v] = secrets[server].passwords[v]
  BY DEF Inv, TypeOK, Document, SecretDocument
<1>5. /\ users \in [Users -> UserRecord \cup {None}]
      /\ passwords \in [Users -> Hash \cup {None}]
      /\ "change" \in Calls
  BY <1>2, <1>3, <1>4, EntryIsNotNone DEF Inv, TypeOK, Document, SecretDocument, Calls
<1> HIDE DEF users, passwords
<1>6. /\ Named(users) = Named(passwords)
      /\ Named(doc[server].users) \subseteq Named(users)
      /\ Named(users) # {}
  BY <1>1, <1>2, <1>3, <1>4, ServingDocument, EntryIsNotNone DEF Named
<1>7. HasActiveAdmin(users)
  BY <1>1, <1>3, <1>4, ServingDocument, EntryIsNotNone DEF HasActiveAdmin, ActiveAdmins, Named
<1>8. Untouched(users, passwords)
  BY <1>1, <1>3, <1>4, ServingDocument, UsersAssumption DEF Untouched
<1> QED
  BY <1>1, <1>5, <1>6, <1>7, <1>8, ServingDocument, MutateInv

\* What the count in SetBlocked buys: with more than one active administrator,
\* each of them has another one.
LEMMA AnotherAdmin ==
  ASSUME NEW S, IsFiniteSet(S), ~(Cardinality(S) <= 1), NEW u
  PROVE  \E v \in S : v # u
<1>1. SUFFICES ASSUME S \subseteq {u} PROVE FALSE
  OBVIOUS
<1>2. IsFiniteSet({u}) /\ Cardinality({u}) = 1
  BY FS_Singleton
<1>3. Cardinality(S) <= Cardinality({u})
  BY <1>1, <1>2, FS_Subset
<1> QED
  BY <1>2, <1>3

\* SetBlocked leaves an active administrator.
LEMMA SetBlockedInv ==
  ASSUME Inv, NEW u \in Users, NEW blocked \in BOOLEAN, SetBlocked(u, blocked)
  PROVE  Inv'
<1> DEFINE users == [doc[server].users EXCEPT ![u].blocked = blocked]
           passwords == secrets[server].passwords
<1>1. /\ Serving
      /\ Mutate(server, "block", users, passwords)
      /\ doc[server].users[u] # None
      /\ ~LastActiveAdmin(doc[server].users, u, blocked)
  BY DEF SetBlocked
<1>2. /\ doc[server].users[u] \in UserRecord
      /\ users[u] = [doc[server].users[u] EXCEPT !.blocked = blocked]
  BY <1>1 DEF Inv, TypeOK, Document, SecretDocument
<1>3. /\ users[u] \in UserRecord
      /\ users[u].role = doc[server].users[u].role
      /\ users[u].blocked = blocked
      /\ users[u].mustChange = doc[server].users[u].mustChange
      /\ users[u] # None
  BY <1>2, NoneAssumption DEF UserRecord
<1>4. \A v \in Users \ {u} : users[v] = doc[server].users[v]
  BY DEF Inv, TypeOK, Document, SecretDocument
<1>5. /\ users \in [Users -> UserRecord \cup {None}]
      /\ passwords \in [Users -> Hash \cup {None}]
      /\ "block" \in Calls
  BY <1>2, <1>3, <1>4 DEF Inv, TypeOK, Document, SecretDocument, Calls
<1> HIDE DEF users
<1>6. /\ Named(users) = Named(passwords)
      /\ Named(doc[server].users) \subseteq Named(users)
      /\ Named(users) # {}
  BY <1>1, <1>3, <1>4, ServingDocument DEF Named
<1>7. HasActiveAdmin(users)
  <2> DEFINE admins == ActiveAdmins(doc[server].users)
  <2>1. \E v \in admins : v = u => ~(doc[server].users[u].role = "admin" /\ blocked)
    <3>1. IsFiniteSet(admins)
      BY UsersAssumption, FS_Subset DEF ActiveAdmins, Named
    <3>2. CASE doc[server].users[u].role = "admin" /\ blocked
      <4>1. ~(Cardinality(admins) <= 1)
        BY <1>1, <3>2 DEF LastActiveAdmin
      <4> QED
        BY <3>1, <4>1, AnotherAdmin
    <3>3. CASE ~(doc[server].users[u].role = "admin" /\ blocked)
      BY <1>1, <3>3, ServingDocument DEF HasActiveAdmin, Serving
    <3> QED
      BY <3>2, <3>3
  <2> QED
    BY <1>3, <1>4, <2>1 DEF HasActiveAdmin, ActiveAdmins, Named
<1>8. Untouched(users, passwords)
  BY <1>1, <1>3, <1>4, ServingDocument, UsersAssumption DEF Untouched
<1> QED
  BY <1>1, <1>5, <1>6, <1>7, <1>8, ServingDocument, MutateInv
\* bootstrap-admin stores the password that it has just persisted.
LEMMA StoreBootstrapSecretInv ==
  ASSUME Inv, StoreBootstrapSecret
  PROVE  Inv'
<1> USE DEF StoreBootstrapSecret
<1>1. PICK password \in Passwords :
        secrets[bootstrap].passwords[Admin] = HashPassword(password)
  BY UsersAssumption DEF Inv, TypeOK, SecretDocument, Hash, HashPassword, BootstrapInv,
                         Writing
<1>2. bootstrapFile' = password
  BY <1>1 DEF HashPassword
<1>3. stateFile.rev > 1 /\ doc[bootstrap].rev <= stateFile.rev
  BY DEF Inv, BootstrapInv, Writing, TypeOK, Document
<1>4. \A pw \in Passwords : Issued(pw)' => Issued(pw)
  BY <1>1, <1>2 DEF Issued, Writing, Exit, Inv, TypeOK
<1> USE DEF Inv, Exit, NoDocument, NoSecrets, Nobody
<1>5. TypeOK'
  BY <1>2 DEF TypeOK, Phases, Calls, Document, SecretDocument, Acknowledge
<1>6. Named(Nobody) = {}
  BY DEF Named
<1>7. FilesInv' /\ MemoryInv'
  BY <1>6 DEF FilesInv, MemoryInv, FirstIsEmpty, Named, Whole, Active, TypeOK
<1>8. ServerInv' /\ BootstrapInv'
  BY DEF ServerInv, BootstrapInv, Active, Writing, TypeOK, Named
<1>9. SecretInv'
  BY <1>3, <1>4 DEF SecretInv, Untouched, Active, TypeOK, Whole
<1>10. AckedNotLost' /\ ActiveAdminRemains' /\ NoUserWithoutCredential'
  BY <1>3, <1>6 DEF AckedNotLost, Acknowledge, ActiveAdminRemains, HasActiveAdmin, Named,
                    NoUserWithoutCredential, TypeOK, ActiveAdmins
<1> QED
  BY <1>5, <1>7, <1>8, <1>9, <1>10

\* A mutation returns to its caller, and ChangePassword may remove the secret.
LEMMA ReturnInv ==
  ASSUME Inv, Return
  PROVE  Inv'
<1> USE DEF Inv, Return
<1>1. TypeOK'
  BY DEF TypeOK, Phases, Calls, Document, Acknowledge
<1>2. bootstrapFile' \in {None, bootstrapFile}
  OBVIOUS
<1>3. FilesInv' /\ MemoryInv'
  BY DEF FilesInv, MemoryInv, FirstIsEmpty, Named, Whole, Active, TypeOK
<1>4. ServerInv' /\ BootstrapInv'
  BY DEF ServerInv, BootstrapInv, Active, Writing, TypeOK, Named
<1>5. SecretInv'
  BY <1>2, NoneAssumption
  DEF SecretInv, Untouched, Issued, Active, Writing, TypeOK, Whole
<1>6. AckedNotLost'
  <2>1. doc[server] = stateFile
    BY DEF ServerInv, Active, Writing
  <2> QED
    BY <2>1 DEF AckedNotLost, Acknowledge, TypeOK, Document
<1>7. ActiveAdminRemains' /\ NoUserWithoutCredential'
  BY DEF ActiveAdminRemains, HasActiveAdmin, Named, NoUserWithoutCredential, ActiveAdmins
<1> QED
  BY <1>1, <1>3, <1>4, <1>5, <1>6, <1>7

\* A step that changes nothing.
LEMMA StutterInv == Inv /\ UNCHANGED vars => Inv'
BY DEF Inv, vars, files, TypeOK, FilesInv, MemoryInv, ServerInv, BootstrapInv, SecretInv,
       AckedNotLost, ActiveAdminRemains, HasActiveAdmin, ActiveAdmins, Named,
       NoUserWithoutCredential, FirstIsEmpty, Active, Writing, Whole, Untouched, Issued

\* Every step of the two processes keeps the inductive invariant.
THEOREM InvInductive == Spec => []Inv
<1>1. Inv /\ [Next]_vars => Inv'
  <2> SUFFICES ASSUME Inv, [Next]_vars PROVE Inv'
    OBVIOUS
  <2>1. ASSUME NEW p \in Processes, Load(p) PROVE Inv'
    BY <2>1, ReadStateFileInv, ReadSecretFileInv DEF Load
  <2>2. ASSUME NEW p \in Processes, Persist(p) PROVE Inv'
    BY <2>2, WriteSecretsInv, WriteStateInv, WriteFailsInv DEF Persist
  <2>3. ASSUME NEW p \in Processes, Stop(p) PROVE Inv'
    BY <2>3, ExitInv DEF Stop, files, Inv, TypeOK
  <2>4. CASE Bootstrap
    <3>1. CASE SkipBootstrap
      BY <3>1, ExitInv DEF SkipBootstrap, files, Inv, TypeOK
    <3>2. CASE StoreBootstrapSecretFails
      BY <3>2, ExitInv DEF StoreBootstrapSecretFails, files, Inv, TypeOK
    <3> QED
      BY <2>4, <3>1, <3>2, BootstrapAdminInv, StoreBootstrapSecretInv DEF Bootstrap
  <2>5. CASE Serve
    BY <2>5, CreateUserInv, ChangePasswordInv, SetBlockedInv, ReturnInv DEF Serve
  <2>6. CASE UNCHANGED vars
    BY <2>6, StutterInv
  <2> QED
    BY <2>1, <2>2, <2>3, <2>4, <2>5, <2>6 DEF Next
<1> QED
  BY InitInv, <1>1, PTL DEF Spec
-----------------------------------------------------------------------------
\* The variables keep their types; a role that is not one is never stored.
THEOREM TypeCorrect == Spec => []TypeOK
<1>1. Inv => TypeOK
  BY DEF Inv
<1> QED
  BY <1>1, InvInductive, PTL

\* persistLocked: what a caller saw succeed stays in state.json or is replaced
\* by something newer.
THEOREM AcknowledgedDurable == Spec => []AckedNotLost
<1>1. Inv => AckedNotLost
  BY DEF Inv
<1> QED
  BY <1>1, InvInductive, PTL

\* SetBlocked: for any number of users, there is an active administrator.
THEOREM ActiveAdminAlways == Spec => []ActiveAdminRemains
<1>1. Inv => ActiveAdminRemains
  BY DEF Inv
<1> QED
  BY <1>1, InvInductive, PTL

\* The order of the two writes: metadata is never without its credential.
THEOREM CredentialAlways == Spec => []NoUserWithoutCredential
<1>1. Inv => NoUserWithoutCredential
  BY DEF Inv
<1> QED
  BY <1>1, InvInductive, PTL

\* bootstrap-admin.secret never holds a password that does not log in.
THEOREM BootstrapSecretCorrect == Spec => []BootstrapSecretUsable
<1>1. Inv => BootstrapSecretUsable
  <2> SUFFICES ASSUME Inv, bootstrapFile # None, Whole, stateFile.users[Admin] # None,
                      stateFile.users[Admin].mustChange
               PROVE  VerifyPassword(bootstrapFile, secretFile.passwords[Admin])
    BY DEF BootstrapSecretUsable
  <2>1. bootstrapFile \in Passwords /\ Issued(bootstrapFile)
    BY DEF Inv, TypeOK, Issued
  <2>2. secretFile.passwords[Admin] = HashPassword(bootstrapFile)
    BY <2>1 DEF Inv, SecretInv, Untouched
  <2>3. HashPassword(bootstrapFile) # None
    BY <2>1, EntryIsNotNone
  <2> QED
    BY <2>2, <2>3 DEF VerifyPassword, HashPassword
<1> QED
  BY <1>1, InvInductive, PTL

-----------------------------------------------------------------------------
(***************************************************************************)
(* The refinement.  Inv tells which files and which memory a step meets;   *)
(* each step of StateStore is then one step of DurableDocument or none.    *)
(***************************************************************************)
storedCredentials == IF Whole THEN secretFile.passwords ELSE None

liveDocument ==
  [p \in Processes |->
     IF phase[p] \in {"down", "loading"}
     THEN None
     ELSE [rev |-> doc[p].rev, users |-> doc[p].users, passwords |-> secrets[p].passwords]]

abstractVars == <<stateFile, storedCredentials, liveDocument>>

\* What is in a process's memory is a document, not None.
LEMMA LiveDocument ==
  ASSUME Inv, NEW p \in Processes
  PROVE  /\ Active(p) => /\ liveDocument[p] # None
                         /\ liveDocument[p].rev = doc[p].rev
                         /\ liveDocument[p].users = doc[p].users
                         /\ liveDocument[p].passwords = secrets[p].passwords
         /\ ~Active(p) => liveDocument[p] = None
<1>1. Active(p) <=> phase[p] \notin {"down", "loading"}
  BY DEF Active, Inv, TypeOK, Phases
<1>2. ASSUME Active(p)
      PROVE  liveDocument[p] \in [rev : Nat, users : [Users -> UserRecord \cup {None}],
                                  passwords : [Users -> Hash \cup {None}]]
  BY <1>1, <1>2 DEF liveDocument, Inv, TypeOK, Document, SecretDocument
<1>3. Active(p) => liveDocument[p] # None
  BY <1>2, NoneAssumption
<1> QED
  BY <1>1, <1>3 DEF liveDocument

\* The stored credentials are a function, so they are never taken for a torn pair.
LEMMA StoredCredentials ==
  ASSUME Inv
  PROVE  storedCredentials # None <=> Whole
<1>1. secretFile.passwords \in [Users -> Hash \cup {None}]
  BY DEF Inv, TypeOK, SecretDocument
<1> QED
  BY <1>1, NoneAssumption DEF storedCredentials

\* The initial states map to the initial state of the document.
LEMMA InitRefines == Init => Abstract!Init
BY DEF Init, Abstract!Init, NoDocument, NoSecrets, Nobody, Whole

\* A process that ends, or that starts to load, has no document.
LEMMA ExitRefines ==
  ASSUME Inv, NEW p \in Processes, Exit(p),
         stateFile' = stateFile, secretFile' = secretFile
  PROVE  Abstract!Close(p) \/ UNCHANGED abstractVars
<1>1. storedCredentials' = storedCredentials
  BY DEF storedCredentials, Whole
<1>2. liveDocument' = [liveDocument EXCEPT ![p] = None]
  BY DEF Exit, liveDocument, Inv, TypeOK
<1>3. liveDocument = [q \in Processes |-> liveDocument[q]]
  BY DEF liveDocument
<1>4. CASE liveDocument[p] = None
  <2>1. liveDocument' = liveDocument
    BY <1>2, <1>3, <1>4
  <2> QED
    BY <1>1, <2>1 DEF abstractVars
<1>5. CASE liveDocument[p] # None
  BY <1>1, <1>2, <1>5 DEF Abstract!Close, storedCredentials, liveDocument
<1> QED
  BY <1>4, <1>5
\* Reading state.json alone gives no document yet.
LEMMA ReadStateFileRefines ==
  ASSUME Inv, NEW p \in Processes, ReadStateFile(p)
  PROVE  UNCHANGED abstractVars
<1>1. liveDocument' = liveDocument
  BY DEF ReadStateFile, liveDocument, Inv, TypeOK
<1> QED
  BY <1>1 DEF ReadStateFile, files, abstractVars, storedCredentials, Whole

\* Reading secrets.json opens the document, or closes the process.
LEMMA ReadSecretFileRefines ==
  ASSUME Inv, NEW p \in Processes, ReadSecretFile(p)
  PROVE  Abstract!Open(p) \/ Abstract!Close(p) \/ UNCHANGED abstractVars
<1>1. CASE doc[p].rev # secretFile.rev
  BY <1>1, ExitRefines DEF ReadSecretFile, files
<1>2. CASE doc[p].rev = secretFile.rev
  <2> USE <1>2 DEF ReadSecretFile, files
  <2>1. Whole /\ doc[p] = stateFile
    BY OpenedIsStored
  <2>2. storedCredentials # None /\ storedCredentials = secretFile.passwords
    BY <2>1, StoredCredentials DEF storedCredentials
  <2>3. storedCredentials' = storedCredentials
    BY DEF storedCredentials, Whole
  <2>4. liveDocument[p] = None
    BY DEF liveDocument
  <2>5. liveDocument' = [liveDocument EXCEPT ![p] =
                           [rev |-> stateFile.rev, users |-> stateFile.users,
                            passwords |-> storedCredentials]]
    BY <2>1, <2>2 DEF liveDocument, Inv, TypeOK
  <2>6. Abstract!Open(p)
    BY <2>2, <2>3, <2>4, <2>5
    DEF Abstract!Open, Abstract!Document, storedCredentials, liveDocument
  <2> QED
    BY <2>6
<1> QED
  BY <1>1, <1>2

\* A mutation in memory is one change of the live document.
LEMMA MutateRefines ==
  ASSUME Inv, NEW p \in Processes, NEW name, NEW u \in Users,
         NEW a \in UserRecord, NEW c \in Hash, phase[p] = "open",
         Mutate(p, name, [doc[p].users EXCEPT ![u] = a],
                         [secrets[p].passwords EXCEPT ![u] = c])
  PROVE  Abstract!Change(p)
<1> DEFINE changed == [rev |-> liveDocument[p].rev + 1,
                       users |-> [liveDocument[p].users EXCEPT ![u] = a],
                       passwords |-> [liveDocument[p].passwords EXCEPT ![u] = c]]
<1>1. /\ liveDocument[p] # None
      /\ liveDocument[p].rev = doc[p].rev
      /\ liveDocument[p].users = doc[p].users
      /\ liveDocument[p].passwords = secrets[p].passwords
  BY LiveDocument DEF Active
<1>2. liveDocument' = [liveDocument EXCEPT ![p] = changed]
  BY <1>1 DEF Mutate, liveDocument, Inv, TypeOK
<1>3. UNCHANGED <<stateFile, storedCredentials>>
  BY DEF Mutate, files, storedCredentials, Whole
<1>4. \E v \in Users, b \in UserRecord, d \in Hash :
        liveDocument' = [liveDocument EXCEPT ![p] =
                           [rev |-> @.rev + 1,
                            users |-> [@.users EXCEPT ![v] = b],
                            passwords |-> [@.passwords EXCEPT ![v] = d]]]
  BY <1>2
<1>5. liveDocument[p] # None
  BY <1>1
<1> HIDE DEF changed
<1> QED
  BY <1>3, <1>4, <1>5 DEF Abstract!Change, storedCredentials, liveDocument

\* The first write is a Tear.
LEMMA WriteSecretsRefines ==
  ASSUME Inv, NEW p \in Processes, WriteSecrets(p)
  PROVE  Abstract!Tear(p)
<1> USE DEF WriteSecrets
<1>1. /\ secrets[p].rev = doc[p].rev
      /\ doc[p].rev > stateFile.rev
  BY DEF Inv, ServerInv, BootstrapInv, MemoryInv, FilesInv, TypeOK, Document,
         SecretDocument, Writing, Active
<1>2. storedCredentials' = None
  BY <1>1 DEF storedCredentials, Whole, Inv, TypeOK, Document, SecretDocument
<1>3. liveDocument' = liveDocument
  BY DEF liveDocument, Inv, TypeOK
<1>4. liveDocument[p] # None /\ liveDocument[p].rev = doc[p].rev
  BY LiveDocument DEF Active
<1> QED
  BY <1>1, <1>2, <1>3, <1>4 DEF Abstract!Tear, storedCredentials, liveDocument

\* The second write is a Commit.
LEMMA WriteStateRefines ==
  ASSUME Inv, NEW p \in Processes, WriteState(p)
  PROVE  Abstract!Commit(p)
<1> USE DEF WriteState
<1>1. /\ secretFile = secrets[p]
      /\ secrets[p].rev = doc[p].rev
      /\ doc[p].rev > stateFile.rev
      /\ Named(stateFile.users) \subseteq Named(doc[p].users)
  BY DEF Inv, ServerInv, BootstrapInv, MemoryInv, FilesInv, FirstIsEmpty, TypeOK,
         Document, SecretDocument, Writing, Active
<1>2. stateFile' = [rev |-> doc[p].rev, users |-> doc[p].users]
  BY DEF Inv, TypeOK, Document
<1>3. storedCredentials' = secrets[p].passwords
  BY <1>1 DEF storedCredentials, Whole
<1>4. liveDocument' = liveDocument
  BY DEF liveDocument, Inv, TypeOK
<1>5. /\ liveDocument[p] # None
      /\ liveDocument[p].rev = doc[p].rev
      /\ liveDocument[p].users = doc[p].users
      /\ liveDocument[p].passwords = secrets[p].passwords
  BY LiveDocument DEF Active
<1> QED
  BY <1>1, <1>2, <1>3, <1>4, <1>5
  DEF Abstract!Commit, Abstract!Named, Named, storedCredentials, liveDocument

\* A failed write is a stutter of the server, and a Close of bootstrap-admin.
LEMMA WriteFailsRefines ==
  ASSUME Inv, NEW p \in Processes, WriteFails(p)
  PROVE  Abstract!Close(p) \/ UNCHANGED abstractVars
<1>1. CASE p # server
  BY <1>1, ExitRefines DEF WriteFails, files
<1>2. CASE p = server
  <2>1. liveDocument' = liveDocument
    BY <1>2 DEF WriteFails, liveDocument, Inv, TypeOK
  <2> QED
    BY <1>2, <2>1 DEF WriteFails, files, abstractVars, storedCredentials, Whole
<1> QED
  BY <1>1, <1>2

\* The mutations of the server change one account each.
LEMMA ServeRefines ==
  ASSUME Inv, Serve
  PROVE  Abstract!Change(server) \/ UNCHANGED abstractVars
<1>1. ASSUME NEW u \in Users, NEW password \in Passwords,
             NEW role \in Roles \cup {"other"}, CreateUser(u, password, role)
      PROVE  Abstract!Change(server)
  <2>1. [role |-> role, blocked |-> FALSE, mustChange |-> FALSE] \in UserRecord
    BY <1>1 DEF CreateUser, UserRecord
  <2> QED
    BY <1>1, <2>1, EntryIsNotNone, MutateRefines DEF CreateUser, Serving
<1>2. ASSUME NEW u \in Users, NEW old \in Passwords, NEW new \in Passwords,
             ChangePassword(u, old, new)
      PROVE  Abstract!Change(server)
  <2> DEFINE record == [doc[server].users[u] EXCEPT !.mustChange = FALSE]
  <2>1. record \in UserRecord
    <3>1. doc[server].users[u] \in UserRecord
      BY <1>2 DEF ChangePassword, Inv, TypeOK, Document
    <3> QED
      BY <3>1 DEF UserRecord
  <2>2. [doc[server].users EXCEPT ![u].mustChange = FALSE]
          = [doc[server].users EXCEPT ![u] = record]
    OBVIOUS
  <2> HIDE DEF record
  <2> QED
    BY <1>2, <2>1, <2>2, EntryIsNotNone, MutateRefines DEF ChangePassword, Serving
<1>3. ASSUME NEW u \in Users, NEW blocked \in BOOLEAN, SetBlocked(u, blocked)
      PROVE  Abstract!Change(server)
  <2> DEFINE record == [doc[server].users[u] EXCEPT !.blocked = blocked]
             hash == secrets[server].passwords[u]
  <2>1. record \in UserRecord
    <3>1. doc[server].users[u] \in UserRecord
      BY <1>3 DEF SetBlocked, Inv, TypeOK, Document
    <3> QED
      BY <3>1 DEF UserRecord
  <2>2. [doc[server].users EXCEPT ![u].blocked = blocked]
          = [doc[server].users EXCEPT ![u] = record]
    OBVIOUS
  <2>3. hash \in Hash
    BY <1>3, ServingDocument DEF SetBlocked, Inv, TypeOK, SecretDocument, Named
  <2>4. secrets[server].passwords = [secrets[server].passwords EXCEPT ![u] = hash]
    BY DEF Inv, TypeOK, SecretDocument
  <2> HIDE DEF record, hash
  <2> QED
    BY <1>3, <2>1, <2>2, <2>3, <2>4, MutateRefines DEF SetBlocked, Serving
<1>4. ASSUME Return PROVE UNCHANGED abstractVars
  <2>1. liveDocument' = liveDocument
    BY <1>4 DEF Return, liveDocument, Inv, TypeOK
  <2> QED
    BY <1>4, <2>1 DEF Return, abstractVars, storedCredentials, Whole
<1> QED
  BY <1>1, <1>2, <1>3, <1>4 DEF Serve

\* The steps of bootstrap-admin change or close its document.
LEMMA BootstrapRefines ==
  ASSUME Inv, Bootstrap
  PROVE  Abstract!Change(bootstrap) \/ Abstract!Close(bootstrap) \/ UNCHANGED abstractVars
<1>1. CASE BootstrapAdmin
  <2> DEFINE record == [role |-> "admin", blocked |-> FALSE, mustChange |-> TRUE]
  <2>1. PICK password \in Passwords \ Weak :
          Mutate(bootstrap, "bootstrap",
                 [doc[bootstrap].users EXCEPT ![Admin] = record],
                 [secrets[bootstrap].passwords EXCEPT ![Admin] = HashPassword(password)])
    BY <1>1 DEF BootstrapAdmin
  <2>2. record \in UserRecord
    BY DEF UserRecord, Roles
  <2> QED
    BY <1>1, <2>1, <2>2, EntryIsNotNone, UsersAssumption, MutateRefines DEF BootstrapAdmin
<1>2. CASE SkipBootstrap
  BY <1>2, ExitRefines DEF SkipBootstrap, files
<1>3. CASE StoreBootstrapSecret
  BY <1>3, ExitRefines DEF StoreBootstrapSecret
<1>4. CASE StoreBootstrapSecretFails
  BY <1>4, ExitRefines DEF StoreBootstrapSecretFails, files
<1> QED
  BY <1>1, <1>2, <1>3, <1>4 DEF Bootstrap

\* state.json and secrets.json, written one after the other and read one after
\* the other by two processes, are one durable document.
THEOREM Refinement == Spec => ImplementsDurableDocument
<1>1. Inv /\ [Next]_vars => [Abstract!Next]_abstractVars
  <2> SUFFICES ASSUME Inv, [Next]_vars PROVE Abstract!Next \/ UNCHANGED abstractVars
    OBVIOUS
  <2>1. ASSUME NEW p \in Processes, Load(p)
        PROVE  Abstract!Next \/ UNCHANGED abstractVars
    BY <2>1, ReadStateFileRefines, ReadSecretFileRefines DEF Load, Abstract!Next
  <2>2. ASSUME NEW p \in Processes, Persist(p)
        PROVE  Abstract!Next \/ UNCHANGED abstractVars
    BY <2>2, WriteSecretsRefines, WriteStateRefines, WriteFailsRefines
    DEF Persist, Abstract!Next
  <2>3. ASSUME NEW p \in Processes, Stop(p)
        PROVE  Abstract!Next \/ UNCHANGED abstractVars
    BY <2>3, ExitRefines DEF Stop, files, Abstract!Next
  <2>4. CASE Bootstrap
    BY <2>4, BootstrapRefines DEF Abstract!Next
  <2>5. CASE Serve
    BY <2>5, ServeRefines DEF Abstract!Next
  <2>6. CASE UNCHANGED vars
    BY <2>6 DEF vars, files, abstractVars, storedCredentials, liveDocument, Whole
  <2> QED
    BY <2>1, <2>2, <2>3, <2>4, <2>5, <2>6 DEF Next
<1> QED
  BY <1>1, InitRefines, InvInductive, PTL
  DEF Spec, ImplementsDurableDocument, Abstract!Spec, Abstract!vars, abstractVars,
      storedCredentials, liveDocument
=============================================================================
