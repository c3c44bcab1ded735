---------------------------- MODULE AuthService ----------------------------
(***************************************************************************)
(* internal/httpserver/server.go over internal/auth: logins, sessions and  *)
(* the mutations of accounts, by requests that run concurrently.           *)
(*                                                                         *)
(* net/http serves each request on a goroutine of its own.  A handler is a *)
(* sequence of short critical sections, each under the mutex of one        *)
(* object: the LoginLimiter, the session Manager or the state Store.  What *)
(* a section has read may be out of date when the next one starts.  One    *)
(* action is one such section.  StateStore shows what happens inside a     *)
(* mutation of the store; here it is one step, with its outcome.           *)
(***************************************************************************)
EXTENDS Naturals, FiniteSets

CONSTANTS Requests,    \* slots for requests in flight
          Clients,     \* client addresses
          Users,       \* usernames
          Passwords,
          Limit,       \* the limit of NewLoginLimiter, 5 in the code
          None,
          MaxTokens,   \* bound: sessions created
          MaxEpoch     \* bound: password changes and blocks of one user

ASSUME RequestsAssumption == IsFiniteSet(Requests) /\ Requests # {}
ASSUME UsersAssumption == IsFiniteSet(Users)
ASSUME LimitAssumption == Limit \in Nat \ {0}
ASSUME BoundsAssumption == MaxTokens \in Nat /\ MaxEpoch \in Nat

Roles == {"admin", "viewer"}
Account == [role : Roles, blocked : BOOLEAN]
Keys == Clients \X Users     \* clientIP(r) + "|" + target
Tokens == 1..MaxTokens
Session == [user : Users, role : Roles, created : Nat, verified : Nat]

ASSUME NoneAssumption == None \notin Account \cup Session

VARIABLES
  users, passwords,  \* the store's memory; a password stands for its hash
  entries,           \* LoginLimiter.entries: the failures of the window, 0 without one
  sessions,          \* Manager.sessions, by token
  issued,            \* tokens drawn so far
  pc,                \* pc[r]: the section that request r comes to next
  req,               \* req[r]: what the handler of r has read so far
  epoch,             \* history: epoch[u] counts u's password changes and blocks
  revoked            \* history: the latest epoch of each user whose handler has answered

store == <<users, passwords, epoch>>
vars == <<store, entries, sessions, issued, pc, req, revoked>>

\* What a handler holds: the credentials of a login, the account that verified
\* them, the caller of a session, a caller who may go on, the sessions to revoke.
Attempt == [user : Users, client : Clients, password : Passwords]
Verified == [user : Users, client : Clients, role : Roles, epoch : Nat]
Caller == [user : Users, role : Roles, token : Tokens]
Admitted == [user : Users, token : Tokens, epoch : Nat,
             kind : {"logout", "password", "create", "block"}]
Revocation == [target : Users, epoch : Nat]

Holds == [idle |-> {None}, verify |-> Attempt, failure |-> Attempt,
          success |-> Verified, create |-> Verified, user |-> Caller,
          stale |-> Caller, handle |-> Admitted, revoke |-> Revocation, answer |-> Revocation]
Sections == DOMAIN Holds

Named == {u \in Users : users[u] # None}
ActiveAdmins == {u \in Named : users[u].role = "admin" /\ ~users[u].blocked}
Live == {t \in Tokens : sessions[t] # None}

\* Any accounts that bootstrap-admin and earlier runs may have left.
Init == /\ users \in [Users -> Account \cup {None}]
        /\ ActiveAdmins # {}
        /\ passwords \in [Users -> Passwords]
        /\ epoch = [u \in Users |-> 0]
        /\ entries = [k \in Keys |-> 0]
        /\ sessions = [t \in Tokens |-> None]
        /\ issued = 0
        /\ pc = [r \in Requests |-> "idle"]
        /\ req = [r \in Requests |-> None]
        /\ revoked = [u \in Users |-> 0]

Goto(r, section, held) == /\ pc' = [pc EXCEPT ![r] = section]
                          /\ req' = [req EXCEPT ![r] = held]

\* The handler writes its response and returns.
Respond(r) == Goto(r, "idle", None)

-----------------------------------------------------------------------------
(***************************************************************************)
(* login                                                                   *)
(***************************************************************************)
\* Mutant: the limit is compared the wrong way round at the boundary.
AllowedOnceMore(k) == entries[k] <= Limit

Allowed(k) == entries[k] < Limit

\* A refused login only answers auth_rate_limited.
StartLogin(r, c, u, password) ==
  /\ pc[r] = "idle"
  /\ Allowed(<<c, u>>)
  /\ Goto(r, "verify", [user |-> u, client |-> c, password |-> password])
  /\ UNCHANGED <<store, entries, sessions, issued, revoked>>

\* Mutant: the handler does not look at the answer.
VerifyAny(r) ==
  /\ pc[r] = "verify"
  /\ Goto(r, "success", req[r])
  /\ UNCHANGED <<store, entries, sessions, issued, revoked>>

\* VerifyCredentials copies the record and the hash under the lock and computes
\* PBKDF2 on the copy afterwards: the answer is of this moment.
VerifyCredentials(r) ==
  LET u == req[r].user
  IN  /\ pc[r] = "verify"
      /\ IF users[u] # None /\ ~users[u].blocked /\ req[r].password = passwords[u]
         THEN Goto(r, "success", [user |-> u, client |-> req[r].client,
                                  role |-> users[u].role, epoch |-> epoch[u]])
         ELSE Goto(r, "failure", req[r])
      /\ UNCHANGED <<store, entries, sessions, issued, revoked>>

Failure(r) ==
  /\ pc[r] = "failure"
  /\ entries' = [entries EXCEPT ![<<req[r].client, req[r].user>>] = @ + 1]
  /\ Respond(r)
  /\ UNCHANGED <<store, sessions, issued, revoked>>

Success(r) ==
  /\ pc[r] = "success"
  /\ entries' = [entries EXCEPT ![<<req[r].client, req[r].user>>] = 0]
  /\ Goto(r, "create", req[r])
  /\ UNCHANGED <<store, sessions, issued, revoked>>

\* The session carries the role that VerifyCredentials saw.
CreateSession(r) ==
  /\ pc[r] = "create"
  /\ issued < MaxTokens
  /\ issued' = issued + 1
  /\ sessions' = [sessions EXCEPT ![issued + 1] =
                    [user |-> req[r].user, role |-> req[r].role,
                     created |-> epoch[req[r].user], verified |-> req[r].epoch]]
  /\ Respond(r)
  /\ UNCHANGED <<store, entries, revoked>>

\* session_create_failed
CreateSessionFails(r) == /\ pc[r] = "create"
                         /\ Respond(r)
                         /\ UNCHANGED <<store, entries, sessions, issued, revoked>>

-----------------------------------------------------------------------------
(***************************************************************************)
(* currentSession and requirePermission                                    *)
(***************************************************************************)
\* A cookie without a session only answers authentication_required.
Lookup(r, token) ==
  /\ pc[r] = "idle"
  /\ token \in Live
  /\ Goto(r, "user", [user |-> sessions[token].user,
                      role |-> sessions[token].role, token |-> token])
  /\ UNCHANGED <<store, entries, sessions, issued, revoked>>

\* Mutant: a viewer has every permission.
HasPermissionAlways(role, kind) == TRUE

\* Logout and password change ask for authentication, the mutations of accounts
\* for rbac.users.write, which only an administrator has.
HasPermission(role, kind) == kind \in {"logout", "password"} \/ role = "admin"

\* Mutant: a session is enough, the account's block is not looked at.
CurrentUserByRole(r) == /\ users[req[r].user] # None
                        /\ users[req[r].user].role = req[r].role

\* GetUser: the account is read again for every request.
CurrentUser(r) == /\ users[req[r].user] # None
                  /\ ~users[req[r].user].blocked
                  /\ users[req[r].user].role = req[r].role

Admit(r, kind) ==
  /\ pc[r] = "user"
  /\ CurrentUser(r)
  /\ HasPermission(req[r].role, kind)
  /\ Goto(r, "handle", [user |-> req[r].user, token |-> req[r].token, kind |-> kind,
                        epoch |-> epoch[req[r].user]])
  /\ UNCHANGED <<store, entries, sessions, issued, revoked>>

\* permission_denied, or a handler that only reads.
AnswerOnly(r) == /\ pc[r] = "user"
                 /\ CurrentUser(r)
                 /\ Respond(r)
                 /\ UNCHANGED <<store, entries, sessions, issued, revoked>>

FindStale(r) == /\ pc[r] = "user"
                /\ ~CurrentUser(r)
                /\ Goto(r, "stale", req[r])
                /\ UNCHANGED <<store, entries, sessions, issued, revoked>>

RevokeStale(r) == /\ pc[r] = "stale"
                  /\ sessions' = [sessions EXCEPT ![req[r].token] = None]
                  /\ Respond(r)
                  /\ UNCHANGED <<store, entries, issued, revoked>>

-----------------------------------------------------------------------------
(***************************************************************************)
(* The handlers.  Each may return early: a CSRF token or body that does    *)
(* not validate, an operation that cannot be recorded, a refusal of the    *)
(* store.  A store mutation whose files cannot be written is an error for  *)
(* the caller too, but what it changed in memory stays.                    *)
(***************************************************************************)
Handling(r, kind) == pc[r] = "handle" /\ req[r].kind = kind

Reject(r) == /\ pc[r] = "handle"
             /\ Respond(r)
             /\ UNCHANGED <<store, entries, sessions, issued, revoked>>

Logout(r) == /\ Handling(r, "logout")
             /\ sessions' = [sessions EXCEPT ![req[r].token] = None]
             /\ Respond(r)
             /\ UNCHANGED <<store, entries, issued, revoked>>

\* Mutant: the sessions are left to expire.
RevokeNever(r, u, persisted) ==
  IF persisted THEN Goto(r, "answer", [target |-> u, epoch |-> epoch[u] + 1])
               ELSE Respond(r)

\* After a mutation that was persisted comes RevokeUser.
RevokeNext(r, u, persisted) ==
  IF persisted THEN Goto(r, "revoke", [target |-> u, epoch |-> epoch[u] + 1])
               ELSE Respond(r)

ChangePassword(r, old, new, persisted) ==
  LET u == req[r].user
  IN  /\ Handling(r, "password")
      /\ epoch[u] < MaxEpoch
      /\ users[u] # None /\ ~users[u].blocked /\ passwords[u] = old
      /\ passwords' = [passwords EXCEPT ![u] = new]
      /\ epoch' = [epoch EXCEPT ![u] = @ + 1]
      /\ RevokeNext(r, u, persisted)
      /\ UNCHANGED <<users, entries, sessions, issued, revoked>>

\* The caller sees the same answer whether or not the files were written.
CreateUser(r, u, password, role) ==
  /\ Handling(r, "create")
  /\ users[u] = None
  /\ users' = [users EXCEPT ![u] = [role |-> role, blocked |-> FALSE]]
  /\ passwords' = [passwords EXCEPT ![u] = password]
  /\ Respond(r)
  /\ UNCHANGED <<epoch, entries, sessions, issued, revoked>>

\* The refusal of SetBlocked.
LastActiveAdmin(u, blocked) ==
  users[u].role = "admin" /\ blocked /\ Cardinality(ActiveAdmins) <= 1

\* The handler compares the path's username with the caller's as it is spelled;
\* the store trims it first.  A padded spelling is not equal to any name.
SetBlocked(r, u, padded, blocked, persisted) ==
  /\ Handling(r, "block")
  /\ padded \/ u # req[r].user
  /\ users[u] # None
  /\ ~LastActiveAdmin(u, blocked)
  /\ users' = [users EXCEPT ![u].blocked = blocked]
  /\ IF blocked
     THEN /\ epoch[u] < MaxEpoch
          /\ epoch' = [epoch EXCEPT ![u] = @ + 1]
          /\ RevokeNext(r, u, persisted)
     ELSE UNCHANGED epoch /\ Respond(r)
  /\ UNCHANGED <<passwords, entries, sessions, issued, revoked>>

RevokeUser(r) ==
  LET u == req[r].target
  IN  /\ pc[r] = "revoke"
      /\ sessions' = [t \in Tokens |-> IF t \in Live /\ sessions[t].user = u
                                       THEN None ELSE sessions[t]]
      /\ Goto(r, "answer", req[r])
      /\ UNCHANGED <<store, entries, issued, revoked>>

\* The handler answers that the change is made.
Answer(r) ==
  /\ pc[r] = "answer"
  /\ revoked' = [revoked EXCEPT ![req[r].target] = IF req[r].epoch > @ THEN req[r].epoch ELSE @]
  /\ Respond(r)
  /\ UNCHANGED <<store, entries, sessions, issued>>

-----------------------------------------------------------------------------
(***************************************************************************)
(* Time: the 12 hours of a session, the 5 minutes of a limiter window.     *)
(* The code leaves what has expired in its map until it next meets it, and *)
(* treats it as absent when it does; here it goes when its time is over.   *)
(***************************************************************************)
ExpireSession(token) == /\ token \in Live
                        /\ sessions' = [sessions EXCEPT ![token] = None]
                        /\ UNCHANGED <<store, entries, issued, pc, req, revoked>>

ExpireEntry(k) == /\ entries[k] > 0
                  /\ entries' = [entries EXCEPT ![k] = 0]
                  /\ UNCHANGED <<store, sessions, issued, pc, req, revoked>>

-----------------------------------------------------------------------------
Login(r) == \/ \E c \in Clients, u \in Users, password \in Passwords :
                 StartLogin(r, c, u, password)
            \/ VerifyCredentials(r)
            \/ Failure(r)
            \/ Success(r)
            \/ CreateSession(r)
            \/ CreateSessionFails(r)

Authenticate(r) == \/ \E token \in Tokens : Lookup(r, token)
                   \/ \E kind \in {"logout", "password", "create", "block"} : Admit(r, kind)
                   \/ AnswerOnly(r)
                   \/ FindStale(r)
                   \/ RevokeStale(r)

Handle(r) == \/ Reject(r)
             \/ Logout(r)
             \/ \E old, new \in Passwords, persisted \in BOOLEAN :
                  ChangePassword(r, old, new, persisted)
             \/ \E u \in Users, password \in Passwords, role \in Roles :
                  CreateUser(r, u, password, role)
             \/ \E u \in Users, padded, blocked, persisted \in BOOLEAN :
                  SetBlocked(r, u, padded, blocked, persisted)
             \/ RevokeUser(r)
             \/ Answer(r)

Next == \/ \E r \in Requests : Login(r) \/ Authenticate(r) \/ Handle(r)
        \/ \E token \in Tokens : ExpireSession(token)
        \/ \E k \in Keys : ExpireEntry(k)

Spec == Init /\ [][Next]_vars

-----------------------------------------------------------------------------
(***************************************************************************)
(* Properties.                                                             *)
(***************************************************************************)

\* Every variable has its type, and a handler holds what its section expects.
TypeOK == /\ users \in [Users -> Account \cup {None}]
          /\ passwords \in [Users -> Passwords]
          /\ epoch \in [Users -> Nat]
          /\ revoked \in [Users -> Nat]
          /\ entries \in [Keys -> Nat]
          /\ sessions \in [Tokens -> Session \cup {None}]
          /\ issued \in 0..MaxTokens
          /\ pc \in [Requests -> Sections]
          /\ DOMAIN req = Requests
          /\ \A r \in Requests : req[r] \in Holds[pc[r]]

\* Allowed and Failure are separate sections, so logins in flight together may
\* pass the check together.  They overshoot the limit by at most the other
\* requests in flight, and a window that ends in between does not add to that.
FailuresBounded ==
  \A k \in Keys : entries[k] <= Limit + Cardinality(Requests) - 1

\* When the handler of a password change or of a block has answered, no session
\* that existed when the store changed is left, however the requests of the user,
\* other changes and new logins interleave with it (RevokeUser after the store;
\* ADR-0003 "Password change and account blocking revoke applicable sessions").
OldSessionsRevoked == \A t \in Live : sessions[t].created >= revoked[sessions[t].user]

\* A blocked user gets no request past currentSession.  A handler at work for a
\* blocked user was admitted before the block, even if a session of theirs was
\* created after RevokeUser had passed.
BlockedShutOut ==
  \A r \in Requests :
    /\ pc[r] = "handle"
    /\ users[req[r].user].blocked
    => req[r].epoch < epoch[req[r].user]

AuthorizedChange(u) ==
  users'[u] # users[u] \/ passwords'[u] # passwords[u] =>
    \E r \in Requests :
      /\ pc[r] = "handle" /\ pc'[r] # "handle"
      /\ \/ users[req[r].user].role = "admin"
         \/ req[r].user = u /\ users'[u] = users[u]
      /\ users[req[r].user].blocked => req[r].epoch < epoch[req[r].user]

\* An account changes only by the hand of an administrator, or in its password by the
\* user's own.  The caller may be blocked by now only if the block came after
\* currentSession had let the request in: one admitted since changes nothing.
ChangesAuthorized == [][\A u \in Users : AuthorizedChange(u)]_vars

\* ADR-0003: "Password change and account blocking revoke applicable sessions."
\* No session is left whose password was verified before the last change or
\* block that its handler has answered.
RevocationComplete == \A t \in Live : sessions[t].verified >= revoked[sessions[t].user]

\* setBlocked: "Current user cannot block itself".
NobodyBlocksThemselves ==
  [][\A r \in Requests :
       /\ Handling(r, "block") /\ pc'[r] # "handle"
       /\ ~users[req[r].user].blocked
       => ~users'[req[r].user].blocked]_vars
=============================================================================
