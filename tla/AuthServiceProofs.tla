------------------------- MODULE AuthServiceProofs -------------------------
(***************************************************************************)
(* What AuthService guarantees for any number of requests, clients and     *)
(* users and any limit.  RequestInv says what a handler may still rely on  *)
(* of what it has read: roles never change and epochs only grow, so an     *)
(* administrator stays one, and a block shows in the epoch.                *)
(***************************************************************************)
EXTENDS AuthService, FiniteSetTheorems, TLAPS

\* What a request section may rely on, however long ago it read it.
RequestInv(r) ==
  /\ pc[r] = "handle" =>
       /\ users[req[r].user] # None
       /\ req[r].epoch <= epoch[req[r].user]
       /\ users[req[r].user].blocked => req[r].epoch < epoch[req[r].user]
       /\ req[r].kind \in {"create", "block"} => users[req[r].user].role = "admin"
  /\ pc[r] \in {"revoke", "answer"} => req[r].epoch <= epoch[req[r].target]
  /\ pc[r] = "answer" =>
       \A t \in Live : sessions[t].user = req[r].target => sessions[t].created >= req[r].epoch

RevokedInv == \A u \in Users : revoked[u] <= epoch[u]

Inv == /\ TypeOK
       /\ \A r \in Requests : RequestInv(r)
       /\ RevokedInv
       /\ OldSessionsRevoked

-----------------------------------------------------------------------------
(***************************************************************************)
(* Types.                                                                  *)
(***************************************************************************)
\* What the handler of a section holds.
LEMMA Held ==
  ASSUME TypeOK, NEW r \in Requests
  PROVE  /\ pc[r] \in {"verify", "failure"} => req[r] \in Attempt
         /\ pc[r] \in {"success", "create"} => req[r] \in Verified
         /\ pc[r] \in {"user", "stale"} => req[r] \in Caller
         /\ pc[r] = "handle" => req[r] \in Admitted
         /\ pc[r] \in {"revoke", "answer"} => req[r] \in Revocation
BY DEF TypeOK, Holds

\* A section of the handler hands over to the next one.
LEMMA GotoType ==
  ASSUME TypeOK, NEW r \in Requests, NEW s \in Sections, NEW h \in Holds[s], Goto(r, s, h)
  PROVE  /\ pc' \in [Requests -> Sections]
         /\ DOMAIN req' = Requests
         /\ \A q \in Requests : req'[q] \in Holds[pc'[q]]
         /\ pc'[r] = s /\ req'[r] = h
         /\ \A q \in Requests \ {r} : pc'[q] = pc[q] /\ req'[q] = req[q]
BY DEF TypeOK, Goto

\* The handler returns.
LEMMA RespondType ==
  ASSUME TypeOK, NEW r \in Requests, Respond(r)
  PROVE  /\ pc' \in [Requests -> Sections]
         /\ DOMAIN req' = Requests
         /\ \A q \in Requests : req'[q] \in Holds[pc'[q]]
         /\ pc'[r] = "idle"
         /\ \A q \in Requests \ {r} : pc'[q] = pc[q] /\ req'[q] = req[q]
<1>1. "idle" \in Sections /\ None \in Holds["idle"]
  BY DEF Sections, Holds
<1> QED
  BY <1>1, GotoType DEF Respond

\* The sections of login.
LEMMA LoginType == ASSUME TypeOK, NEW r \in Requests, Login(r) PROVE TypeOK'
<1>1. ASSUME NEW c \in Clients, NEW u \in Users, NEW password \in Passwords,
             StartLogin(r, c, u, password)
      PROVE  TypeOK'
  <2> DEFINE held == [user |-> u, client |-> c, password |-> password]
  <2>1. "verify" \in Sections /\ held \in Holds["verify"]
    BY DEF Sections, Holds, Attempt
  <2>2. Goto(r, "verify", held)
    BY <1>1 DEF StartLogin
  <2> QED
    BY <1>1, <2>1, <2>2, GotoType DEF TypeOK, StartLogin, store
<1>2. CASE VerifyCredentials(r)
  <2>1. req[r] \in Attempt
    BY <1>2, Held DEF VerifyCredentials
  <2> DEFINE u == req[r].user
             held == [user |-> u, client |-> req[r].client,
                      role |-> users[u].role, epoch |-> epoch[u]]
  <2>2. /\ "success" \in Sections
        /\ users[u] # None => held \in Holds["success"]
        /\ "failure" \in Sections /\ req[r] \in Holds["failure"]
    BY <2>1 DEF Sections, Holds, Attempt, Verified, TypeOK, Account
  <2>3. (users[u] # None /\ Goto(r, "success", held)) \/ Goto(r, "failure", req[r])
    BY <1>2 DEF VerifyCredentials
  <2>4. /\ pc' \in [Requests -> Sections]
        /\ DOMAIN req' = Requests
        /\ \A q \in Requests : req'[q] \in Holds[pc'[q]]
    <3> HIDE DEF held, u
    <3> QED
      BY <2>2, <2>3, GotoType
  <2> QED
    BY <1>2, <2>4 DEF TypeOK, VerifyCredentials, store
<1>3. CASE Failure(r)
  <2>1. req[r] \in Attempt
    BY <1>3, Held DEF Failure
  <2>2. entries' \in [Keys -> Nat]
    BY <1>3, <2>1 DEF TypeOK, Failure, Attempt, Keys
  <2> QED
    BY <1>3, <2>2, RespondType DEF TypeOK, Failure, store
<1>4. CASE Success(r)
  <2>1. req[r] \in Verified
    BY <1>4, Held DEF Success
  <2>2. entries' \in [Keys -> Nat]
    BY <1>4, <2>1 DEF TypeOK, Success, Verified, Keys
  <2>3. "create" \in Sections /\ req[r] \in Holds["create"]
    BY <2>1 DEF Sections, Holds
  <2>4. Goto(r, "create", req[r])
    BY <1>4 DEF Success
  <2> QED
    BY <1>4, <2>2, <2>3, <2>4, GotoType DEF TypeOK, Success, store
<1>5. CASE CreateSession(r)
  <2>1. req[r] \in Verified
    BY <1>5, Held DEF CreateSession
  <2> DEFINE session == [user |-> req[r].user, role |-> req[r].role,
                         created |-> epoch[req[r].user], verified |-> req[r].epoch]
  <2>2. session \in Session
    BY <2>1 DEF Verified, Session, TypeOK
  <2>3. issued' \in 0..MaxTokens
    BY <1>5, BoundsAssumption DEF CreateSession, TypeOK
  <2>4. sessions' \in [Tokens -> Session \cup {None}]
    <3>1. sessions' = [sessions EXCEPT ![issued + 1] = session]
      BY <1>5 DEF CreateSession
    <3> HIDE DEF session
    <3> QED
      BY <2>2, <3>1 DEF TypeOK
  <2> QED
    BY <1>5, <2>3, <2>4, RespondType DEF TypeOK, CreateSession, store
<1>6. CASE CreateSessionFails(r)
  BY <1>6, RespondType DEF TypeOK, CreateSessionFails, store
<1> QED
  BY <1>1, <1>2, <1>3, <1>4, <1>5, <1>6 DEF Login

\* The caller of a mutation that was persisted goes on to RevokeUser.
LEMMA RevokeNextType ==
  ASSUME TypeOK, NEW r \in Requests, NEW u \in Users, NEW persisted \in BOOLEAN,
         RevokeNext(r, u, persisted)
  PROVE  /\ pc' \in [Requests -> Sections]
         /\ DOMAIN req' = Requests
         /\ \A q \in Requests : req'[q] \in Holds[pc'[q]]
         /\ \/ pc'[r] = "idle"
            \/ pc'[r] = "revoke" /\ req'[r] = [target |-> u, epoch |-> epoch[u] + 1]
         /\ \A q \in Requests \ {r} : pc'[q] = pc[q] /\ req'[q] = req[q]
<1> DEFINE held == [target |-> u, epoch |-> epoch[u] + 1]
<1>1. "revoke" \in Sections /\ held \in Holds["revoke"]
  BY DEF Sections, Holds, Revocation, TypeOK
<1>2. Goto(r, "revoke", held) \/ Respond(r)
  BY DEF RevokeNext
<1> HIDE DEF held
<1>3. CASE Goto(r, "revoke", held)
  BY <1>1, <1>3, GotoType DEF held
<1>4. CASE Respond(r)
  BY <1>4, RespondType
<1> QED
  BY <1>2, <1>3, <1>4

\* The sections of currentSession and requirePermission.
LEMMA AuthenticateType == ASSUME TypeOK, NEW r \in Requests, Authenticate(r) PROVE TypeOK'
<1>1. ASSUME NEW token \in Tokens, Lookup(r, token) PROVE TypeOK'
  <2> DEFINE held == [user |-> sessions[token].user,
                      role |-> sessions[token].role, token |-> token]
  <2>1. sessions[token] \in Session
    BY <1>1 DEF Lookup, Live, TypeOK
  <2>2. "user" \in Sections /\ held \in Holds["user"]
    BY <2>1 DEF Sections, Holds, Caller, Session
  <2>3. Goto(r, "user", held)
    BY <1>1 DEF Lookup
  <2> QED
    BY <1>1, <2>2, <2>3, GotoType DEF TypeOK, Lookup, store
<1>2. ASSUME NEW kind \in {"logout", "password", "create", "block"}, Admit(r, kind)
      PROVE  TypeOK'
  <2> DEFINE held == [user |-> req[r].user, token |-> req[r].token, kind |-> kind,
                      epoch |-> epoch[req[r].user]]
  <2>1. req[r] \in Caller
    BY <1>2, Held DEF Admit
  <2>2. "handle" \in Sections /\ held \in Holds["handle"]
    BY <2>1 DEF Sections, Holds, Caller, Admitted, TypeOK
  <2>3. Goto(r, "handle", held)
    BY <1>2 DEF Admit
  <2> QED
    BY <1>2, <2>2, <2>3, GotoType DEF TypeOK, Admit, store
<1>3. CASE AnswerOnly(r)
  BY <1>3, RespondType DEF TypeOK, AnswerOnly, store
<1>4. CASE FindStale(r)
  <2>1. req[r] \in Caller
    BY <1>4, Held DEF FindStale
  <2>2. "stale" \in Sections /\ req[r] \in Holds["stale"]
    BY <2>1 DEF Sections, Holds
  <2>3. Goto(r, "stale", req[r])
    BY <1>4 DEF FindStale
  <2> QED
    BY <1>4, <2>2, <2>3, GotoType DEF TypeOK, FindStale, store
<1>5. CASE RevokeStale(r)
  <2>1. sessions' \in [Tokens -> Session \cup {None}]
    BY <1>5 DEF TypeOK, RevokeStale
  <2> QED
    BY <1>5, <2>1, RespondType DEF TypeOK, RevokeStale, store
<1> QED
  BY <1>1, <1>2, <1>3, <1>4, <1>5 DEF Authenticate

\* The sections of the handlers.
LEMMA HandleType == ASSUME TypeOK, NEW r \in Requests, Handle(r) PROVE TypeOK'
<1>1. CASE Reject(r)
  BY <1>1, RespondType DEF TypeOK, Reject, store
<1>2. CASE Logout(r)
  <2>1. sessions' \in [Tokens -> Session \cup {None}]
    BY <1>2 DEF TypeOK, Logout
  <2> QED
    BY <1>2, <2>1, RespondType DEF TypeOK, Logout, store
<1>3. ASSUME NEW old \in Passwords, NEW new \in Passwords, NEW persisted \in BOOLEAN,
             ChangePassword(r, old, new, persisted)
      PROVE  TypeOK'
  <2>1. req[r] \in Admitted
    BY <1>3, Held DEF ChangePassword, Handling
  <2>2. req[r].user \in Users /\ RevokeNext(r, req[r].user, persisted)
    BY <1>3, <2>1 DEF ChangePassword, Admitted
  <2>3. /\ passwords' = [passwords EXCEPT ![req[r].user] = new]
        /\ epoch' = [epoch EXCEPT ![req[r].user] = @ + 1]
        /\ UNCHANGED <<users, entries, sessions, issued, revoked>>
    BY <1>3 DEF ChangePassword
  <2>4. passwords' \in [Users -> Passwords]
    BY <2>2, <2>3 DEF TypeOK
  <2>5. epoch' \in [Users -> Nat]
    BY <2>2, <2>3 DEF TypeOK
  <2>6. /\ pc' \in [Requests -> Sections]
        /\ DOMAIN req' = Requests
        /\ \A q \in Requests : req'[q] \in Holds[pc'[q]]
    BY <2>2, RevokeNextType
  <2> QED
    BY <2>3, <2>4, <2>5, <2>6 DEF TypeOK
<1>4. ASSUME NEW u \in Users, NEW password \in Passwords, NEW role \in Roles,
             CreateUser(r, u, password, role)
      PROVE  TypeOK'
  <2>1. users' \in [Users -> Account \cup {None}] /\ passwords' \in [Users -> Passwords]
    BY <1>4 DEF CreateUser, TypeOK, Account
  <2> QED
    BY <1>4, <2>1, RespondType DEF TypeOK, CreateUser
<1>5. ASSUME NEW u \in Users, NEW padded \in BOOLEAN, NEW blocked \in BOOLEAN,
             NEW persisted \in BOOLEAN, SetBlocked(r, u, padded, blocked, persisted)
      PROVE  TypeOK'
  <2>1. users' \in [Users -> Account \cup {None}] /\ epoch' \in [Users -> Nat]
    <3>1. users[u] \in Account /\ users' = [users EXCEPT ![u].blocked = blocked]
      BY <1>5 DEF SetBlocked, TypeOK
    <3>2. users' \in [Users -> Account \cup {None}]
      BY <3>1 DEF TypeOK, Account
    <3>3. epoch' \in [Users -> Nat]
      BY <1>5 DEF SetBlocked, TypeOK
    <3> QED
      BY <3>2, <3>3
  <2>2. RevokeNext(r, u, persisted) \/ Respond(r)
    BY <1>5 DEF SetBlocked
  <2>3. UNCHANGED <<passwords, entries, sessions, issued, revoked>>
    BY <1>5 DEF SetBlocked
  <2>4. /\ pc' \in [Requests -> Sections]
        /\ DOMAIN req' = Requests
        /\ \A q \in Requests : req'[q] \in Holds[pc'[q]]
    BY <2>2, RevokeNextType, RespondType
  <2> QED
    BY <2>1, <2>3, <2>4 DEF TypeOK
<1>6. CASE RevokeUser(r)
  <2>1. "answer" \in Sections /\ req[r] \in Holds["answer"]
    BY <1>6, Held DEF RevokeUser, Sections, Holds
  <2>2. Goto(r, "answer", req[r])
    BY <1>6 DEF RevokeUser
  <2>3. sessions' \in [Tokens -> Session \cup {None}]
    BY <1>6 DEF RevokeUser, TypeOK
  <2> QED
    BY <1>6, <2>1, <2>2, <2>3, GotoType DEF TypeOK, RevokeUser, store
<1>7. CASE Answer(r)
  <2>1. req[r] \in Revocation
    BY <1>7, Held DEF Answer
  <2>2. revoked' \in [Users -> Nat]
    BY <1>7, <2>1 DEF Answer, Revocation, TypeOK
  <2> QED
    BY <1>7, <2>2, RespondType DEF TypeOK, Answer, store
<1> QED
  BY <1>1, <1>2, <1>3, <1>4, <1>5, <1>6, <1>7 DEF Handle

\* What the passing of time removes.
LEMMA TimeType ==
  ASSUME TypeOK, \/ \E token \in Tokens : ExpireSession(token)
                 \/ \E k \in Keys : ExpireEntry(k)
  PROVE  TypeOK'
<1>1. ASSUME NEW token \in Tokens, ExpireSession(token) PROVE TypeOK'
  BY <1>1 DEF ExpireSession, TypeOK, store
<1>2. ASSUME NEW k \in Keys, ExpireEntry(k) PROVE TypeOK'
  BY <1>2 DEF ExpireEntry, TypeOK, store
<1> QED
  BY <1>1, <1>2

\* Every step keeps the types.
LEMMA NextType == TypeOK /\ [Next]_vars => TypeOK'
<1> SUFFICES ASSUME TypeOK, [Next]_vars PROVE TypeOK'
  OBVIOUS
<1>1. CASE UNCHANGED vars
  BY <1>1 DEF vars, store, TypeOK
<1> QED
  BY <1>1, LoginType, AuthenticateType, HandleType, TimeType DEF Next

\* The variables keep their types, and a handler holds what its section expects.
THEOREM TypeCorrect == Spec => []TypeOK
<1>1. Init => TypeOK
  <2> SUFFICES ASSUME Init PROVE TypeOK
    OBVIOUS
  <2>1. "idle" \in Sections /\ None \in Holds["idle"]
    BY DEF Sections, Holds
  <2> QED
    BY <2>1, BoundsAssumption DEF Init, TypeOK
<1> QED
  BY <1>1, NextType, PTL DEF Spec

-----------------------------------------------------------------------------
(***************************************************************************)
(* The invariant.  Progress is what no step may break: a request in the    *)
(* middle of its sections relies on it while the others go on.             *)
(***************************************************************************)
Progress ==
  /\ \A u \in Users : epoch[u] <= epoch'[u]
  /\ \A u \in Users : users[u] # None =>
       /\ users'[u] # None
       /\ users'[u].role = users[u].role
       /\ users'[u].blocked => (users[u].blocked \/ epoch[u] < epoch'[u])
  /\ \A t \in Tokens : sessions'[t] # None =>
       sessions'[t] = sessions[t] \/ sessions'[t].created >= epoch'[sessions'[t].user]

\* A request keeps what it relies on while another one takes a step.
LEMMA RequestKept ==
  ASSUME TypeOK, TypeOK', Progress, NEW q \in Requests, RequestInv(q),
         pc'[q] = pc[q], req'[q] = req[q]
  PROVE  RequestInv(q)'
<1>1. CASE pc[q] = "handle"
  <2>1. req[q] \in Admitted
    BY <1>1, Held
  <2> DEFINE u == req[q].user
  <2>2. u \in Users /\ epoch[u] \in Nat /\ epoch'[u] \in Nat /\ req[q].epoch \in Nat
    BY <2>1 DEF Admitted, TypeOK
  <2>3. /\ users[u] # None
        /\ req[q].epoch <= epoch[u]
        /\ users[u].blocked => req[q].epoch < epoch[u]
        /\ req[q].kind \in {"create", "block"} => users[u].role = "admin"
    BY <1>1 DEF RequestInv
  <2>4. /\ epoch[u] <= epoch'[u]
        /\ users'[u] # None
        /\ users'[u].role = users[u].role
        /\ users'[u].blocked => (users[u].blocked \/ epoch[u] < epoch'[u])
    BY <2>2, <2>3 DEF Progress
  <2>5. users'[u].blocked => req[q].epoch < epoch'[u]
    BY <2>2, <2>3, <2>4
  <2> QED
    BY <1>1, <2>2, <2>3, <2>4, <2>5 DEF RequestInv
<1>2. CASE pc[q] \in {"revoke", "answer"}
  <2>1. req[q] \in Revocation
    BY <1>2, Held
  <2> DEFINE u == req[q].target
  <2>2. u \in Users /\ epoch[u] \in Nat /\ epoch'[u] \in Nat /\ req[q].epoch \in Nat
    BY <2>1 DEF Revocation, TypeOK
  <2>3. req[q].epoch <= epoch[u] /\ epoch[u] <= epoch'[u]
    BY <1>2, <2>2 DEF RequestInv, Progress
  <2>4. ASSUME pc[q] = "answer", NEW t \in Tokens, sessions'[t] # None, sessions'[t].user = u
        PROVE  sessions'[t].created >= req[q].epoch
    <3>1. sessions'[t] \in Session
      BY <2>4 DEF TypeOK
    <3>2. sessions'[t].created \in Nat
      BY <3>1 DEF Session
    <3>3. CASE sessions'[t] = sessions[t]
      BY <2>4, <3>3 DEF RequestInv, Live
    <3>4. CASE sessions'[t].created >= epoch'[u]
      BY <2>2, <2>3, <3>2, <3>4
    <3> QED
      BY <2>4, <3>3, <3>4 DEF Progress
  <2> QED
    BY <1>2, <2>2, <2>3, <2>4 DEF RequestInv, Live
<1> QED
  BY <1>1, <1>2 DEF RequestInv

\* A session that is left, or new, is not older than what has been answered.
LEMMA RevocationKept ==
  ASSUME TypeOK, TypeOK', Progress, RevokedInv, OldSessionsRevoked, UNCHANGED revoked
  PROVE  RevokedInv' /\ OldSessionsRevoked'
<1>1. RevokedInv'
  <2> SUFFICES ASSUME NEW u \in Users PROVE revoked'[u] <= epoch'[u]
    BY DEF RevokedInv
  <2>1. epoch[u] \in Nat /\ epoch'[u] \in Nat /\ revoked[u] \in Nat
    BY DEF TypeOK
  <2>2. revoked[u] <= epoch[u] /\ epoch[u] <= epoch'[u]
    BY DEF RevokedInv, Progress
  <2> QED
    BY <2>1, <2>2
<1>2. OldSessionsRevoked'
  <2> SUFFICES ASSUME NEW t \in Tokens, sessions'[t] # None
               PROVE  sessions'[t].created >= revoked'[sessions'[t].user]
    BY DEF OldSessionsRevoked, Live
  <2>1. sessions'[t] \in Session
    BY DEF TypeOK
  <2> DEFINE u == sessions'[t].user
  <2>2. u \in Users /\ sessions'[t].created \in Nat
    BY <2>1 DEF Session
  <2>3. epoch'[u] \in Nat /\ revoked'[u] \in Nat /\ revoked'[u] <= epoch'[u]
    BY <1>1, <2>2 DEF RevokedInv, TypeOK
  <2>4. CASE sessions'[t] = sessions[t]
    BY <2>4 DEF OldSessionsRevoked, Live
  <2>5. CASE sessions'[t].created >= epoch'[u]
    BY <2>2, <2>3, <2>5
  <2> QED
    BY <2>4, <2>5 DEF Progress
<1> QED
  BY <1>1, <1>2

\* Nothing but time passes, or sessions go.
LEMMA NothingProgress ==
  ASSUME TypeOK, UNCHANGED store, \A t \in Tokens : sessions'[t] \in {sessions[t], None}
  PROVE  Progress
BY DEF Progress, TypeOK, store

\* One request takes a step, and the others keep what they rely on.
LEMMA StepInv ==
  ASSUME Inv, TypeOK', Progress, UNCHANGED revoked, NEW r \in Requests, RequestInv(r)',
         \A q \in Requests \ {r} : pc'[q] = pc[q] /\ req'[q] = req[q]
  PROVE  Inv'
<1>1. \A q \in Requests : RequestInv(q)'
  <2> SUFFICES ASSUME NEW q \in Requests PROVE RequestInv(q)'
    OBVIOUS
  <2>1. CASE q = r
    BY <2>1
  <2>2. CASE q # r
    BY <2>2, RequestKept DEF Inv
  <2> QED
    BY <2>1, <2>2
<1> QED
  BY <1>1, RevocationKept DEF Inv

\* What Goto does to the request, and to the others.
LEMMA GotoFrame ==
  ASSUME TypeOK, NEW r \in Requests, NEW s, NEW h, Goto(r, s, h)
  PROVE  /\ pc'[r] = s
         /\ req'[r] = h
         /\ \A q \in Requests \ {r} : pc'[q] = pc[q] /\ req'[q] = req[q]
BY DEF TypeOK, Goto

\* A section that reads, or removes sessions, and goes on to one that relies on nothing.
LEMMA ReadingInv ==
  ASSUME Inv, TypeOK', NEW r \in Requests, NEW s, NEW h, Goto(r, s, h),
         s \notin {"handle", "revoke", "answer"}, UNCHANGED <<store, revoked>>,
         \A t \in Tokens : sessions'[t] \in {sessions[t], None}
  PROVE  Inv'
<1>1. Progress
  BY NothingProgress DEF Inv
<1>2. RequestInv(r)'
  BY GotoFrame DEF RequestInv, Inv
<1> QED
  BY <1>1, <1>2, StepInv, GotoFrame DEF Inv

\* login.
LEMMA LoginInv == ASSUME Inv, NEW r \in Requests, Login(r) PROVE Inv'
<1>0. TypeOK /\ TypeOK'
  BY LoginType DEF Inv
<1>1. ASSUME NEW c \in Clients, NEW u \in Users, NEW password \in Passwords,
             StartLogin(r, c, u, password)
      PROVE  Inv'
  BY <1>0, <1>1, ReadingInv DEF StartLogin
<1>2. CASE VerifyCredentials(r)
  <2>1. PICK s, h : s \in {"success", "failure"} /\ Goto(r, s, h)
    BY <1>2 DEF VerifyCredentials
  <2> QED
    BY <1>0, <1>2, <2>1, ReadingInv DEF VerifyCredentials
<1>3. CASE Failure(r)
  BY <1>0, <1>3, ReadingInv DEF Failure, Respond
<1>4. CASE Success(r)
  BY <1>0, <1>4, ReadingInv DEF Success
<1>5. CASE CreateSession(r)
  <2>1. req[r] \in Verified
    BY <1>0, <1>5, Held DEF CreateSession
  <2>2. /\ sessions' = [sessions EXCEPT ![issued + 1] =
                          [user |-> req[r].user, role |-> req[r].role,
                           created |-> epoch[req[r].user], verified |-> req[r].epoch]]
        /\ UNCHANGED store
        /\ UNCHANGED revoked
        /\ Goto(r, "idle", None)
    BY <1>5 DEF CreateSession, Respond
  <2>3. Progress
    <3>1. ASSUME NEW t \in Tokens, sessions'[t] # None
          PROVE  sessions'[t] = sessions[t] \/ sessions'[t].created >= epoch'[sessions'[t].user]
      <4>1. CASE t # issued + 1
        BY <1>0, <2>2, <4>1 DEF TypeOK
      <4>2. CASE t = issued + 1
        <5>1. sessions'[t].created = epoch[req[r].user] /\ sessions'[t].user = req[r].user
          BY <1>0, <2>2, <4>2 DEF TypeOK
        <5>2. epoch'[req[r].user] = epoch[req[r].user] /\ epoch[req[r].user] \in Nat
          BY <1>0, <2>1, <2>2 DEF Verified, TypeOK, store
        <5> QED
          BY <5>1, <5>2
      <4> QED
        BY <4>1, <4>2
    <3>2. UNCHANGED <<users, epoch>>
      BY <2>2 DEF store
    <3> QED
      BY <1>0, <3>1, <3>2 DEF Progress, TypeOK
  <2>4. RequestInv(r)'
    BY <1>0, <2>2, GotoFrame DEF RequestInv
  <2> QED
    BY <1>0, <2>2, <2>3, <2>4, StepInv, GotoFrame
<1>6. CASE CreateSessionFails(r)
  BY <1>0, <1>6, ReadingInv DEF CreateSessionFails, Respond
<1> QED
  BY <1>1, <1>2, <1>3, <1>4, <1>5, <1>6 DEF Login

\* currentSession and requirePermission: who is admitted, is so at this moment.
LEMMA AuthenticateInv == ASSUME Inv, NEW r \in Requests, Authenticate(r) PROVE Inv'
<1>0. TypeOK /\ TypeOK'
  BY AuthenticateType DEF Inv
<1>1. ASSUME NEW token \in Tokens, Lookup(r, token) PROVE Inv'
  BY <1>0, <1>1, ReadingInv DEF Lookup
<1>2. ASSUME NEW kind \in {"logout", "password", "create", "block"}, Admit(r, kind)
      PROVE  Inv'
  <2> DEFINE u == req[r].user
             held == [user |-> u, token |-> req[r].token, kind |-> kind,
                      epoch |-> epoch[u]]
  <2>1. req[r] \in Caller
    BY <1>0, <1>2, Held DEF Admit
  <2>2. u \in Users /\ epoch[u] \in Nat
    BY <1>0, <2>1 DEF Caller, TypeOK
  <2>3. /\ Goto(r, "handle", held)
        /\ UNCHANGED store /\ UNCHANGED sessions /\ UNCHANGED revoked
        /\ users[u] # None
        /\ ~users[u].blocked
        /\ kind \in {"create", "block"} => users[u].role = "admin"
    BY <1>2 DEF Admit, CurrentUser, HasPermission
  <2>4. Progress
    BY <1>0, <2>3, NothingProgress
  <2>5. pc'[r] = "handle" /\ req'[r] = held
    BY <1>0, <2>3, GotoFrame
  <2>6. UNCHANGED <<users, epoch>>
    BY <2>3 DEF store
  <2>7. RequestInv(r)'
    BY <2>2, <2>3, <2>5, <2>6 DEF RequestInv
  <2>8. \A q \in Requests \ {r} : pc'[q] = pc[q] /\ req'[q] = req[q]
    BY <1>0, <2>3, GotoFrame
  <2> QED
    BY <1>0, <2>3, <2>4, <2>7, <2>8, StepInv
<1>3. CASE AnswerOnly(r)
  BY <1>0, <1>3, ReadingInv DEF AnswerOnly, Respond
<1>4. CASE FindStale(r)
  BY <1>0, <1>4, ReadingInv DEF FindStale
<1>5. CASE RevokeStale(r)
  <2>1. \A t \in Tokens : sessions'[t] \in {sessions[t], None}
    BY <1>0, <1>5 DEF RevokeStale, TypeOK
  <2>2. Goto(r, "idle", None) /\ UNCHANGED store /\ UNCHANGED revoked
    BY <1>5 DEF RevokeStale, Respond
  <2> QED
    BY <1>0, <2>1, <2>2, ReadingInv
<1> QED
  BY <1>1, <1>2, <1>3, <1>4, <1>5 DEF Authenticate

\* The store has changed an account, and the handler returns or goes on to RevokeUser.
LEMMA ChangeInv ==
  ASSUME Inv, TypeOK', NEW r \in Requests, NEW u \in Users, NEW persisted \in BOOLEAN,
         Progress, UNCHANGED revoked,
         \/ RevokeNext(r, u, persisted) /\ epoch'[u] = epoch[u] + 1
         \/ Respond(r)
  PROVE  Inv'
<1>1. /\ \/ pc'[r] = "idle"
         \/ /\ pc'[r] = "revoke" /\ req'[r] = [target |-> u, epoch |-> epoch[u] + 1]
            /\ epoch'[u] = epoch[u] + 1
      /\ \A q \in Requests \ {r} : pc'[q] = pc[q] /\ req'[q] = req[q]
  BY RevokeNextType, RespondType DEF Inv
<1>2. epoch[u] \in Nat
  BY DEF Inv, TypeOK
<1>3. RequestInv(r)'
  BY <1>1, <1>2 DEF RequestInv
<1> QED
  BY <1>1, <1>3, StepInv

\* The handlers: the mutations of the store, and the revocation that follows.
LEMMA HandleInv == ASSUME Inv, NEW r \in Requests, Handle(r) PROVE Inv'
<1>0. TypeOK /\ TypeOK'
  BY HandleType DEF Inv
<1>1. CASE Reject(r)
  BY <1>0, <1>1, ReadingInv DEF Reject, Respond
<1>2. CASE Logout(r)
  <2>1. \A t \in Tokens : sessions'[t] \in {sessions[t], None}
    BY <1>0, <1>2 DEF Logout, TypeOK
  <2>2. Goto(r, "idle", None) /\ UNCHANGED store /\ UNCHANGED revoked
    BY <1>2 DEF Logout, Respond
  <2> QED
    BY <1>0, <2>1, <2>2, ReadingInv
<1>3. ASSUME NEW old \in Passwords, NEW new \in Passwords, NEW persisted \in BOOLEAN,
             ChangePassword(r, old, new, persisted)
      PROVE  Inv'
  <2> DEFINE u == req[r].user
  <2>1. req[r] \in Admitted
    BY <1>0, <1>3, Held DEF ChangePassword, Handling
  <2>2. u \in Users
    BY <2>1 DEF Admitted
  <2>3. /\ epoch' = [epoch EXCEPT ![u] = @ + 1]
        /\ RevokeNext(r, u, persisted)
        /\ UNCHANGED <<users, sessions, revoked>>
    BY <1>3 DEF ChangePassword
  <2>4. epoch'[u] = epoch[u] + 1 /\ \A v \in Users : epoch[v] <= epoch'[v]
    BY <1>0, <2>2, <2>3 DEF TypeOK
  <2>5. Progress
    BY <2>3, <2>4 DEF Progress
  <2> QED
    BY <1>0, <2>2, <2>3, <2>4, <2>5, ChangeInv
<1>4. ASSUME NEW u \in Users, NEW password \in Passwords, NEW role \in Roles,
             CreateUser(r, u, password, role)
      PROVE  Inv'
  <2>1. /\ users[u] = None
        /\ users' = [users EXCEPT ![u] = [role |-> role, blocked |-> FALSE]]
        /\ UNCHANGED <<epoch, sessions, revoked>>
        /\ Respond(r)
    BY <1>4 DEF CreateUser
  <2>2. \A v \in Users : users[v] # None => users'[v] = users[v]
    BY <1>0, <2>1 DEF TypeOK
  <2>3. Progress
    BY <1>0, <2>1, <2>2 DEF Progress, TypeOK
  <2> QED
    BY <1>0, <2>1, <2>3, ChangeInv
<1>5. ASSUME NEW u \in Users, NEW padded \in BOOLEAN, NEW blocked \in BOOLEAN,
             NEW persisted \in BOOLEAN, SetBlocked(r, u, padded, blocked, persisted)
      PROVE  Inv'
  <2>1. /\ users[u] # None
        /\ users' = [users EXCEPT ![u].blocked = blocked]
        /\ UNCHANGED sessions /\ UNCHANGED revoked
        /\ \/ /\ epoch' = [epoch EXCEPT ![u] = @ + 1]
              /\ RevokeNext(r, u, persisted)
           \/ ~blocked /\ UNCHANGED epoch /\ Respond(r)
    BY <1>5 DEF SetBlocked
  <2>2. \/ epoch'[u] = epoch[u] + 1 /\ RevokeNext(r, u, persisted)
        \/ ~blocked /\ Respond(r)
    BY <1>0, <2>1 DEF TypeOK
  <2>3. \A v \in Users : epoch[v] <= epoch'[v]
    BY <1>0, <2>1 DEF TypeOK
  <2>4. ASSUME NEW v \in Users, users[v] # None
        PROVE  /\ users'[v] # None
               /\ users'[v].role = users[v].role
               /\ users'[v].blocked => (users[v].blocked \/ epoch[v] < epoch'[v])
    <3>1. users[v] \in Account /\ users'[v] \in Account \cup {None}
      BY <1>0, <2>4 DEF TypeOK
    <3>2. CASE v # u
      BY <1>0, <2>1, <2>4, <3>2 DEF TypeOK
    <3>3. CASE v = u
      <4>1. /\ users'[v] = [users[v] EXCEPT !.blocked = blocked]
            /\ users'[v].role = users[v].role
            /\ users'[v].blocked = blocked
        BY <1>0, <2>1, <3>1, <3>3 DEF TypeOK, Account
      <4>2. users'[v] \in Account
        BY <3>1, <4>1 DEF Account
      <4>3. users'[v] # None
        BY <4>2, NoneAssumption
      <4>4. blocked => epoch[v] < epoch'[v]
        BY <1>0, <2>2, <3>3 DEF TypeOK
      <4> QED
        BY <4>1, <4>3, <4>4
    <3> QED
      BY <3>2, <3>3
  <2>5. Progress
    BY <2>1, <2>3, <2>4 DEF Progress
  <2> QED
    BY <1>0, <2>1, <2>2, <2>5, ChangeInv
<1>6. CASE RevokeUser(r)
  <2> DEFINE u == req[r].target
  <2>1. req[r] \in Revocation /\ pc[r] = "revoke"
    BY <1>0, <1>6, Held DEF RevokeUser
  <2>2. /\ sessions' = [t \in Tokens |-> IF t \in Live /\ sessions[t].user = u
                                         THEN None ELSE sessions[t]]
        /\ Goto(r, "answer", req[r])
        /\ UNCHANGED store /\ UNCHANGED revoked
    BY <1>6 DEF RevokeUser
  <2>3. Progress
    <3>1. \A t \in Tokens : sessions'[t] \in {sessions[t], None}
      BY <2>2
    <3> QED
      BY <1>0, <2>2, <3>1, NothingProgress
  <2>4. \A t \in Tokens : sessions'[t] # None => sessions'[t].user # u
    BY <2>2 DEF Live
  <2>5. pc'[r] = "answer" /\ req'[r] = req[r]
    BY <1>0, <2>2, GotoFrame
  <2>6. req[r].epoch <= epoch[u]
    BY <2>1 DEF Inv, RequestInv
  <2>7. RequestInv(r)'
    BY <2>2, <2>4, <2>5, <2>6 DEF RequestInv, Live, store
  <2>8. \A q \in Requests \ {r} : pc'[q] = pc[q] /\ req'[q] = req[q]
    BY <1>0, <2>2, GotoFrame
  <2> QED
    BY <1>0, <2>2, <2>3, <2>7, <2>8, StepInv
<1>7. CASE Answer(r)
  <2> DEFINE u == req[r].target
             e == req[r].epoch
  <2>1. req[r] \in Revocation /\ pc[r] = "answer"
    BY <1>0, <1>7, Held DEF Answer
  <2>2. u \in Users /\ e \in Nat /\ revoked[u] \in Nat
    BY <1>0, <2>1 DEF Revocation, TypeOK
  <2>3. /\ UNCHANGED store /\ UNCHANGED sessions
        /\ Goto(r, "idle", None)
        /\ revoked' = [revoked EXCEPT ![u] = IF e > @ THEN e ELSE @]
    BY <1>7 DEF Answer, Respond
  <2>4. \A v \in Users : \/ revoked'[v] = revoked[v]
                         \/ v = u /\ revoked'[v] = e
    BY <1>0, <2>2, <2>3 DEF TypeOK
  <2>5. /\ e <= epoch[u]
        /\ \A t \in Live : sessions[t].user = u => sessions[t].created >= e
    BY <2>1 DEF Inv, RequestInv
  <2>6. RevokedInv'
    BY <2>3, <2>4, <2>5 DEF Inv, RevokedInv, store
  <2>7. OldSessionsRevoked'
    <3> SUFFICES ASSUME NEW t \in Live
                 PROVE  sessions[t].created >= revoked'[sessions[t].user]
      BY <2>3 DEF OldSessionsRevoked, Live
    <3>1. sessions[t] \in Session
      BY <1>0 DEF Live, TypeOK
    <3>2. sessions[t].user \in Users
      BY <3>1 DEF Session
    <3> QED
      BY <2>4, <2>5, <3>2 DEF Inv, OldSessionsRevoked
  <2>8. Progress
    BY <1>0, <2>3, NothingProgress
  <2>9. \A q \in Requests : RequestInv(q)'
    <3> SUFFICES ASSUME NEW q \in Requests PROVE RequestInv(q)'
      OBVIOUS
    <3>1. CASE q = r
      BY <1>0, <2>3, <3>1, GotoFrame DEF RequestInv
    <3>2. CASE q # r
      <4>1. pc'[q] = pc[q] /\ req'[q] = req[q]
        BY <1>0, <2>3, <3>2, GotoFrame
      <4> QED
        BY <1>0, <2>8, <4>1, RequestKept DEF Inv
    <3> QED
      BY <3>1, <3>2
  <2> QED
    BY <1>0, <2>6, <2>7, <2>9 DEF Inv
<1> QED
  BY <1>1, <1>2, <1>3, <1>4, <1>5, <1>6, <1>7 DEF Handle

\* Time takes sessions and limiter windows away.
LEMMA IdleInv ==
  ASSUME Inv, TypeOK', UNCHANGED <<users, epoch, pc, req, revoked>>,
         \A t \in Tokens : sessions'[t] \in {sessions[t], None}
  PROVE  Inv'
<1>1. Progress
  BY DEF Progress, Inv, TypeOK
<1>2. \A q \in Requests : RequestInv(q)'
  BY <1>1, RequestKept DEF Inv
<1> QED
  BY <1>1, <1>2, RevocationKept DEF Inv

\* Every step keeps the inductive invariant.
LEMMA NextInv == Inv /\ [Next]_vars => Inv'
<1> SUFFICES ASSUME Inv, [Next]_vars PROVE Inv'
  OBVIOUS
<1>0. TypeOK /\ TypeOK'
  BY NextType DEF Inv
<1>1. ASSUME NEW token \in Tokens, ExpireSession(token) PROVE Inv'
  <2>1. \A t \in Tokens : sessions'[t] \in {sessions[t], None}
    BY <1>0, <1>1 DEF ExpireSession, TypeOK
  <2> QED
    BY <1>0, <1>1, <2>1, IdleInv DEF ExpireSession, store
<1>2. ASSUME NEW k \in Keys, ExpireEntry(k) PROVE Inv'
  BY <1>0, <1>2, IdleInv DEF ExpireEntry, store
<1>3. CASE UNCHANGED vars
  BY <1>0, <1>3, IdleInv DEF vars, store
<1> QED
  BY <1>1, <1>2, <1>3, LoginInv, AuthenticateInv, HandleInv DEF Next

\* The inductive invariant holds in every state of the handlers.
THEOREM InvInductive == Spec => []Inv
<1>1. Init => Inv
  <2> SUFFICES ASSUME Init PROVE Inv
    OBVIOUS
  <2>1. TypeOK
    <3>1. "idle" \in Sections /\ None \in Holds["idle"]
      BY DEF Sections, Holds
    <3> QED
      BY <3>1, BoundsAssumption DEF Init, TypeOK
  <2>2. RevokedInv /\ OldSessionsRevoked
    BY DEF Init, RevokedInv, OldSessionsRevoked, Live
  <2>3. \A r \in Requests : RequestInv(r)
    BY DEF Init, RequestInv
  <2> QED
    BY <2>1, <2>2, <2>3 DEF Inv
<1> QED
  BY <1>1, NextInv, PTL DEF Spec

\* RevokeUser after the store: whatever interleaves, no session that existed at
\* a password change or block is left once its handler has answered.
THEOREM RevocationOfOldSessions == Spec => []OldSessionsRevoked
<1>1. Inv => OldSessionsRevoked
  BY DEF Inv
<1> QED
  BY <1>1, InvInductive, PTL

\* What a request keeps of its admission says so.
LEMMA BlockedInv == Inv => BlockedShutOut
BY DEF Inv, RequestInv, BlockedShutOut

\* currentSession: a handler at work for a blocked user was admitted before the block.
THEOREM BlockedAreShutOut == Spec => []BlockedShutOut
BY BlockedInv, InvInductive, PTL

-----------------------------------------------------------------------------
(***************************************************************************)
(* Who changes an account.                                                 *)
(***************************************************************************)
\* A handler changes accounts with the role, or the name, that it was admitted with.
LEMMA HandleAuthorized ==
  ASSUME Inv, NEW r \in Requests, Handle(r), NEW v \in Users
  PROVE  AuthorizedChange(v)
<1>0. TypeOK /\ BlockedShutOut
  BY BlockedInv DEF Inv
<1>1. CASE Reject(r) \/ Logout(r) \/ RevokeUser(r) \/ Answer(r)
  BY <1>1 DEF Reject, Logout, RevokeUser, Answer, store, AuthorizedChange
<1>2. ASSUME NEW old \in Passwords, NEW new \in Passwords, NEW persisted \in BOOLEAN,
             ChangePassword(r, old, new, persisted)
      PROVE  AuthorizedChange(v)
  <2>1. req[r] \in Admitted /\ pc[r] = "handle"
    BY <1>0, <1>2, Held DEF ChangePassword, Handling
  <2>2. req[r].user \in Users /\ RevokeNext(r, req[r].user, persisted)
    BY <1>2, <2>1 DEF ChangePassword, Admitted
  <2>3. pc'[r] # "handle"
    BY <1>0, <2>2, RevokeNextType
  <2>4. UNCHANGED users /\ passwords' = [passwords EXCEPT ![req[r].user] = new]
    BY <1>2 DEF ChangePassword
  <2>5. passwords'[v] # passwords[v] => v = req[r].user
    BY <1>0, <2>4 DEF TypeOK
  <2> QED
    BY <1>0, <2>1, <2>3, <2>4, <2>5 DEF AuthorizedChange, BlockedShutOut
<1>3. ASSUME NEW u \in Users, NEW password \in Passwords, NEW role \in Roles,
             CreateUser(r, u, password, role)
      PROVE  AuthorizedChange(v)
  <2>1. pc[r] = "handle" /\ req[r].kind = "create" /\ Respond(r)
    BY <1>3 DEF CreateUser, Handling
  <2>2. users[req[r].user].role = "admin"
    BY <2>1 DEF Inv, RequestInv
  <2>3. pc'[r] = "idle"
    BY <1>0, <2>1, RespondType
  <2> QED
    BY <1>0, <2>1, <2>2, <2>3 DEF AuthorizedChange, BlockedShutOut
<1>4. ASSUME NEW u \in Users, NEW padded \in BOOLEAN, NEW blocked \in BOOLEAN,
             NEW persisted \in BOOLEAN, SetBlocked(r, u, padded, blocked, persisted)
      PROVE  AuthorizedChange(v)
  <2>1. pc[r] = "handle" /\ req[r].kind = "block"
    BY <1>4 DEF SetBlocked, Handling
  <2>2. users[req[r].user].role = "admin"
    BY <2>1 DEF Inv, RequestInv
  <2>3. RevokeNext(r, u, persisted) \/ Respond(r)
    BY <1>4 DEF SetBlocked
  <2>4. pc'[r] # "handle"
    BY <1>0, <2>3, RevokeNextType, RespondType
  <2> QED
    BY <1>0, <2>1, <2>2, <2>4 DEF AuthorizedChange, BlockedShutOut
<1> QED
  BY <1>1, <1>2, <1>3, <1>4 DEF Handle

\* requirePermission: an account changes only by the hand of an administrator or, in
\* its password, by the user's own, and never for a request that was let in after its
\* caller was blocked: for any number of concurrent requests.
THEOREM ChangesAreAuthorized == Spec => ChangesAuthorized
<1>1. Inv /\ [Next]_vars => [\A u \in Users : AuthorizedChange(u)]_vars
  <2> SUFFICES ASSUME Inv, Next, NEW u \in Users PROVE AuthorizedChange(u)
    OBVIOUS
  <2>1. ASSUME NEW r \in Requests, Login(r) PROVE AuthorizedChange(u)
    <3>1. UNCHANGED store
      BY <2>1 DEF Login, StartLogin, VerifyCredentials, Failure, Success, CreateSession,
                  CreateSessionFails
    <3> QED
      BY <3>1 DEF store, AuthorizedChange
  <2>2. ASSUME NEW r \in Requests, Authenticate(r) PROVE AuthorizedChange(u)
    <3>1. UNCHANGED store
      BY <2>2 DEF Authenticate, Lookup, Admit, AnswerOnly, FindStale, RevokeStale
    <3> QED
      BY <3>1 DEF store, AuthorizedChange
  <2>3. CASE \/ \E token \in Tokens : ExpireSession(token)
             \/ \E k \in Keys : ExpireEntry(k)
    BY <2>3 DEF ExpireSession, ExpireEntry, store, AuthorizedChange
  <2> QED
    BY <2>1, <2>2, <2>3, HandleAuthorized DEF Next
<1> QED
  BY <1>1, InvInductive, PTL DEF Spec, ChangesAuthorized

-----------------------------------------------------------------------------
(***************************************************************************)
(* The limiter.  A login that has passed Allowed and not yet failed counts *)
(* as if it had: the sum is bounded when the last one passes, and a        *)
(* failure only moves one from one part of it to the other.                *)
(***************************************************************************)
InFlight(k) == {r \in Requests : /\ pc[r] \in {"verify", "failure"}
                                 /\ <<req[r].client, req[r].user>> = k}

LimiterInv == \A k \in Keys :
  entries[k] + Cardinality(InFlight(k)) <= Limit - 1 + Cardinality(Requests)

\* There are finitely many logins in flight.
LEMMA InFlightFinite ==
  ASSUME NEW k
  PROVE  /\ IsFiniteSet(InFlight(k))
         /\ Cardinality(InFlight(k)) \in Nat
         /\ Cardinality(InFlight(k)) <= Cardinality(Requests)
         /\ Cardinality(Requests) \in Nat
<1>1. InFlight(k) \subseteq Requests
  BY DEF InFlight
<1> QED
  BY <1>1, RequestsAssumption, FS_Subset, FS_CardinalityType

\* The same, after a step.
LEMMA InFlightFiniteNext ==
  ASSUME NEW k
  PROVE  /\ IsFiniteSet(InFlight(k)')
         /\ Cardinality(InFlight(k)') \in Nat
         /\ Cardinality(InFlight(k)') <= Cardinality(Requests)
<1>1. InFlight(k)' \subseteq Requests
  BY DEF InFlight
<1> QED
  BY <1>1, RequestsAssumption, FS_Subset, FS_CardinalityType

\* A step that ends logins or windows, and starts no login, keeps the bound.
LEMMA FewerInFlight ==
  ASSUME TypeOK, TypeOK', LimiterInv, \A k \in Keys : entries'[k] <= entries[k],
         \A k \in Keys : InFlight(k)' \subseteq InFlight(k)
  PROVE  LimiterInv'
<1> SUFFICES ASSUME NEW k \in Keys
             PROVE  entries'[k] + Cardinality(InFlight(k)') <= Limit - 1 + Cardinality(Requests)
  BY DEF LimiterInv
<1>1. Cardinality(InFlight(k)') <= Cardinality(InFlight(k))
  BY InFlightFinite, FS_Subset
<1>2. entries[k] \in Nat /\ entries'[k] \in Nat /\ entries'[k] <= entries[k]
  BY DEF TypeOK
<1>3. entries[k] + Cardinality(InFlight(k)) <= Limit - 1 + Cardinality(Requests)
  BY DEF LimiterInv
<1> QED
  BY <1>1, <1>2, <1>3, LimitAssumption, InFlightFinite, InFlightFiniteNext

\* A request that goes anywhere but on with its login is in flight no more.
LEMMA LeavesFlight ==
  ASSUME NEW r \in Requests, pc'[r] \notin {"verify", "failure"},
         \A q \in Requests \ {r} : pc'[q] = pc[q] /\ req'[q] = req[q]
  PROVE  \A k \in Keys : InFlight(k)' \subseteq InFlight(k) \ {r}
BY DEF InFlight

\* Allowed, VerifyCredentials, and what follows them.
LEMMA LoginLimited ==
  ASSUME TypeOK, TypeOK', LimiterInv, NEW r \in Requests, Login(r)
  PROVE  LimiterInv'
<1>1. ASSUME NEW c \in Clients, NEW u \in Users, NEW password \in Passwords,
             StartLogin(r, c, u, password)
      PROVE  LimiterInv'
  <2> DEFINE held == [user |-> u, client |-> c, password |-> password]
  <2>1. entries[<<c, u>>] < Limit /\ UNCHANGED entries /\ Goto(r, "verify", held)
    BY <1>1 DEF StartLogin, Allowed
  <2>2. /\ req'[r] = held
        /\ \A q \in Requests \ {r} : pc'[q] = pc[q] /\ req'[q] = req[q]
    BY <2>1, GotoFrame
  <2>3. ASSUME NEW k \in Keys
        PROVE  entries'[k] + Cardinality(InFlight(k)') <= Limit - 1 + Cardinality(Requests)
    <3>1. entries[k] \in Nat
      BY DEF TypeOK
    <3>2. CASE k = <<c, u>>
      <4>1. entries'[k] = entries[k] /\ entries[k] < Limit
        BY <2>1, <3>2
      <4>2. /\ Cardinality(InFlight(k)') \in Nat
            /\ Cardinality(InFlight(k)') <= Cardinality(Requests)
            /\ Cardinality(Requests) \in Nat
        BY InFlightFinite, InFlightFiniteNext
      <4> HIDE <3>2
      <4> QED
        BY <3>1, <4>1, <4>2, LimitAssumption
    <3>3. CASE k # <<c, u>>
      <4>1. InFlight(k)' \subseteq InFlight(k)
        BY <2>2, <3>3 DEF InFlight
      <4>2. Cardinality(InFlight(k)') <= Cardinality(InFlight(k))
        BY <4>1, InFlightFinite, FS_Subset
      <4>3. entries[k] + Cardinality(InFlight(k)) <= Limit - 1 + Cardinality(Requests)
        BY DEF LimiterInv
      <4>4. entries'[k] = entries[k]
        BY <2>1
      <4> QED
        BY <3>1, <4>2, <4>3, <4>4, LimitAssumption, InFlightFinite, InFlightFiniteNext
    <3> QED
      BY <3>2, <3>3
  <2> QED
    BY <2>3 DEF LimiterInv
<1>2. CASE VerifyCredentials(r)
  <2>1. pc[r] = "verify" /\ UNCHANGED entries
    BY <1>2 DEF VerifyCredentials
  <2>2. \/ Goto(r, "failure", req[r])
        \/ \E h : Goto(r, "success", h)
    BY <1>2 DEF VerifyCredentials
  <2>3. /\ pc'[r] = "success" \/ (pc'[r] = "failure" /\ req'[r] = req[r])
        /\ \A q \in Requests \ {r} : pc'[q] = pc[q] /\ req'[q] = req[q]
    BY <2>2, GotoFrame
  <2>4. \A k \in Keys : InFlight(k)' \subseteq InFlight(k)
    BY <2>1, <2>3 DEF InFlight
  <2>5. \A k \in Keys : entries'[k] <= entries[k]
    BY <2>1 DEF TypeOK
  <2> QED
    BY <2>4, <2>5, FewerInFlight
<1>3. CASE Failure(r)
  <2> DEFINE key == <<req[r].client, req[r].user>>
  <2>1. req[r] \in Attempt /\ pc[r] = "failure"
    BY <1>3, Held DEF Failure
  <2>2. /\ key \in Keys
        /\ r \in InFlight(key)
    BY <2>1 DEF Attempt, Keys, InFlight
  <2>3. entries' = [entries EXCEPT ![key] = @ + 1] /\ Goto(r, "idle", None)
    BY <1>3 DEF Failure, Respond
  <2>4. \A k \in Keys : InFlight(k)' \subseteq InFlight(k) \ {r}
    BY <2>3, GotoFrame, LeavesFlight
  <2> HIDE DEF key
  <2>5. ASSUME NEW k \in Keys
        PROVE  entries'[k] + Cardinality(InFlight(k)') <= Limit - 1 + Cardinality(Requests)
    <3>1. /\ entries[k] \in Nat
          /\ entries[k] + Cardinality(InFlight(k)) <= Limit - 1 + Cardinality(Requests)
      BY DEF TypeOK, LimiterInv
    <3>2. CASE k = key
      <4>1. entries'[k] = entries[k] + 1
        BY <2>3, <3>2 DEF TypeOK
      <4>2. /\ IsFiniteSet(InFlight(k) \ {r})
            /\ Cardinality(InFlight(k) \ {r}) = Cardinality(InFlight(k)) - 1
        BY <2>2, <3>2, InFlightFinite, FS_RemoveElement
      <4>3. Cardinality(InFlight(k)') <= Cardinality(InFlight(k) \ {r})
        BY <2>4, <4>2, FS_Subset
      <4> QED
        BY <3>1, <4>1, <4>2, <4>3, LimitAssumption, InFlightFinite, InFlightFiniteNext
    <3>3. CASE k # key
      <4>1. entries'[k] = entries[k]
        BY <2>3, <3>3 DEF TypeOK
      <4>2. InFlight(k)' \subseteq InFlight(k)
        BY <2>4
      <4>3. Cardinality(InFlight(k)') <= Cardinality(InFlight(k))
        BY <4>2, InFlightFinite, FS_Subset
      <4> QED
        BY <3>1, <4>1, <4>3, LimitAssumption, InFlightFinite, InFlightFiniteNext
    <3> QED
      BY <3>2, <3>3
  <2> QED
    BY <2>5 DEF LimiterInv
<1>4. CASE Success(r)
  <2>1. /\ entries' = [entries EXCEPT ![<<req[r].client, req[r].user>>] = 0]
        /\ Goto(r, "create", req[r])
    BY <1>4 DEF Success
  <2>2. \A k \in Keys : entries'[k] <= entries[k]
    BY <2>1 DEF TypeOK
  <2>3. \A k \in Keys : InFlight(k)' \subseteq InFlight(k)
    BY <2>1, GotoFrame, LeavesFlight
  <2> QED
    BY <2>2, <2>3, FewerInFlight
<1>5. CASE CreateSession(r) \/ CreateSessionFails(r)
  <2>1. UNCHANGED entries /\ Goto(r, "idle", None)
    BY <1>5 DEF CreateSession, CreateSessionFails, Respond
  <2>2. \A k \in Keys : entries'[k] <= entries[k]
    BY <2>1 DEF TypeOK
  <2>3. \A k \in Keys : InFlight(k)' \subseteq InFlight(k)
    BY <2>1, GotoFrame, LeavesFlight
  <2> QED
    BY <2>2, <2>3, FewerInFlight
<1> QED
  BY <1>1, <1>2, <1>3, <1>4, <1>5 DEF Login

\* The sections that are no part of a login start none.
LEMMA OthersLimited ==
  ASSUME TypeOK, TypeOK', LimiterInv, NEW r \in Requests, Authenticate(r) \/ Handle(r)
  PROVE  LimiterInv'
<1>1. UNCHANGED entries
  BY DEF Authenticate, Lookup, Admit, AnswerOnly, FindStale, RevokeStale, Handle, Reject,
         Logout, ChangePassword, CreateUser, SetBlocked, RevokeUser, Answer
<1>2. \/ Goto(r, "idle", None)
      \/ \E h : Goto(r, "user", h)
      \/ \E h : Goto(r, "handle", h)
      \/ \E h : Goto(r, "stale", h)
      \/ \E h : Goto(r, "revoke", h)
      \/ \E h : Goto(r, "answer", h)
  <2>1. CASE Authenticate(r)
    BY <2>1 DEF Authenticate, Lookup, Admit, AnswerOnly, FindStale, RevokeStale, Respond
  <2>2. CASE Handle(r)
    BY <2>2 DEF Handle, Reject, Logout, ChangePassword, CreateUser, SetBlocked, RevokeUser,
                Answer, RevokeNext, Respond
  <2> QED
    BY <2>1, <2>2
<1>3. \A k \in Keys : InFlight(k)' \subseteq InFlight(k)
  <2>1. /\ pc'[r] \notin {"verify", "failure"}
        /\ \A q \in Requests \ {r} : pc'[q] = pc[q] /\ req'[q] = req[q]
    BY <1>2, GotoFrame
  <2> QED
    BY <2>1, LeavesFlight
<1>4. \A k \in Keys : entries'[k] <= entries[k]
  BY <1>1 DEF TypeOK
<1> QED
  BY <1>3, <1>4, FewerInFlight

\* Every step keeps the bound on failures and logins in flight.
LEMMA NextLimited == TypeOK /\ LimiterInv /\ [Next]_vars => LimiterInv'
<1> SUFFICES ASSUME TypeOK, LimiterInv, [Next]_vars PROVE LimiterInv'
  OBVIOUS
<1>0. TypeOK'
  BY NextType
<1>1. CASE \/ \E token \in Tokens : ExpireSession(token)
           \/ \E k \in Keys : ExpireEntry(k)
           \/ UNCHANGED vars
  <2>1. \A k \in Keys : entries'[k] <= entries[k]
    BY <1>1 DEF ExpireSession, ExpireEntry, vars, TypeOK
  <2>2. UNCHANGED <<pc, req>>
    BY <1>1 DEF ExpireSession, ExpireEntry, vars
  <2>3. \A k \in Keys : InFlight(k)' \subseteq InFlight(k)
    BY <2>2 DEF InFlight
  <2> QED
    BY <1>0, <2>1, <2>3, FewerInFlight
<1> QED
  BY <1>0, <1>1, LoginLimited, OthersLimited DEF Next

\* LoginLimiter: for any limit and any number of concurrent requests, the failures
\* of a window exceed the limit by less than the number of requests in flight.
THEOREM FailuresAreBounded == Spec => []FailuresBounded
<1>1. Init => LimiterInv
  <2> SUFFICES ASSUME Init, NEW k \in Keys
               PROVE  entries[k] + Cardinality(InFlight(k)) <= Limit - 1 + Cardinality(Requests)
    BY DEF LimiterInv
  <2>1. entries[k] = 0
    BY DEF Init
  <2>2. Cardinality(InFlight(k)) <= Cardinality(Requests)
    BY InFlightFinite
  <2> QED
    BY <2>1, <2>2, LimitAssumption, InFlightFinite
<1>2. TypeOK /\ LimiterInv => FailuresBounded
  <2> SUFFICES ASSUME TypeOK, LimiterInv, NEW k \in Keys
               PROVE  entries[k] <= Limit + Cardinality(Requests) - 1
    BY DEF FailuresBounded
  <2>1. entries[k] \in Nat
    BY DEF TypeOK
  <2>2. entries[k] + Cardinality(InFlight(k)) <= Limit - 1 + Cardinality(Requests)
    BY DEF LimiterInv
  <2> QED
    BY <2>1, <2>2, LimitAssumption, InFlightFinite
<1> QED
  BY <1>1, <1>2, NextLimited, TypeCorrect, PTL DEF Spec
=============================================================================
