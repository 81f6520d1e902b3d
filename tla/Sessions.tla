------------------------------ MODULE Sessions ------------------------------
(***************************************************************************)
(* The auth service (internal/auth/service.go): accounts, the refresh      *)
(* tokens in table sessions, and the access tokens (JWT), which the server *)
(* does not store and accepts until they expire.                           *)
(*                                                                         *)
(* Every statement is a step of its own, so that registrations, refreshes  *)
(* and logouts interleave.  A refresh token stands for the row that holds  *)
(* its hash.                                                               *)
(***************************************************************************)
EXTENDS Naturals

CONSTANTS User,       \* ids of accounts (uuids are fresh: an id is used once)
          Name,       \* user names, up to upper and lower case
          NameOf,     \* the name under which an account is registered
          Worker,     \* goroutines that run handlers, one call at a time
          Token,      \* refresh tokens (fresh as well)
          AccessTTL, RefreshTTL,
          MaxTime,    \* bound of the clock
          Faults,     \* TRUE: a statement may fail
          NoUser, NoToken

ASSUME SessionsAssumption ==
    /\ NameOf \in [User -> Name]
    /\ AccessTTL \in Nat /\ RefreshTTL \in Nat /\ MaxTime \in Nat
    /\ Faults \in BOOLEAN
    /\ NoUser \notin User
    /\ NoToken \notin Token

VARIABLES accounts,   \* table users
          sessions,   \* table sessions: the tokens that have a row
          owner,      \* the user of a token, NoUser while it is not made
          expires,    \* the expiry of a token
          access,     \* the access tokens handed out
          clock,      \* time.Now()
          call,       \* where each worker is in its handler
          root,       \* history: the token of the login that a token descends from
          disturbed,  \* history: the logins of which two refreshes overlapped, or
                      \* a token was replaced and not deleted
          ended       \* history: when a login was ended by a logout that deleted its
                      \* tokens and met no refresh of it under way, 0 if it was not

tokens == <<sessions, owner, expires, access, root, disturbed, ended>>
vars   == <<accounts, clock, call, tokens>>

Stage == {"idle", "register", "save", "refresh", "expired", "create"}
Call  == [stage : Stage, user : User \cup {NoUser}, token : Token \cup {NoToken}]
Entered(stage, u, t) == [stage |-> stage, user |-> u, token |-> t]
Idle  == Entered("idle", NoUser, NoToken)

\* Beyond the types: a handler goes on only for an account that is stored.
TypeOK ==
    /\ accounts \in SUBSET User
    /\ sessions \in SUBSET Token
    /\ owner \in [Token -> User \cup {NoUser}]
    /\ expires \in [Token -> Nat]
    /\ access \in SUBSET [user : User, login : Token, expires : Nat]
    /\ clock \in Nat
    /\ call \in [Worker -> Call]
    /\ \A w \in Worker :
          call[w].stage \in {"save", "refresh", "expired", "create"} => call[w].user \in accounts
    /\ root \in [Token -> Token \cup {NoToken}]
    /\ disturbed \in SUBSET Token
    /\ ended \in [Token -> Nat]

Init ==
    /\ accounts = {}
    /\ sessions = {}
    /\ owner = [t \in Token |-> NoUser]
    /\ expires = [t \in Token |-> 0]
    /\ access = {}
    /\ clock = 1
    /\ call = [w \in Worker |-> Idle]
    /\ root = [t \in Token |-> NoToken]
    /\ disturbed = {}
    /\ ended = [t \in Token |-> 0]

At(w, stage)   == call[w].stage = stage
Enter(w, stage, u, t) == call' = [call EXCEPT ![w] = Entered(stage, u, t)]
Return(w)      == call' = [call EXCEPT ![w] = Idle]
Goto(w, stage) == call' = [call EXCEPT ![w].stage = stage]

-----------------------------------------------------------------------------
(* Register: is the name taken, hash the password, insert the account,     *)
(* insert the saved chat, create the session.                              *)

Taken(u) == \E v \in accounts : NameOf[v] = NameOf[u]

RegisterCheck(w, u) ==
    /\ At(w, "idle")
    /\ ~Taken(u)
    /\ \A x \in Worker : call[x].user # u
    /\ Enter(w, "register", u, NoToken)
    /\ UNCHANGED <<accounts, clock, tokens>>

\* The index on the name is UNIQUE COLLATE NOCASE.
RegisterInsert_NoIndex(w) ==
    /\ At(w, "register")
    /\ accounts' = accounts \cup {call[w].user}
    /\ Goto(w, "save")
    /\ UNCHANGED <<clock, tokens>>
\* The error of the insert is dropped, as that of the saved chat is.
RegisterInsert_IgnoresError(w) ==
    /\ At(w, "register")
    /\ accounts' = IF Taken(call[w].user) THEN accounts ELSE accounts \cup {call[w].user}
    /\ Goto(w, "save")
    /\ UNCHANGED <<clock, tokens>>
RegisterInsert(w) ==
    /\ At(w, "register")
    /\ IF Taken(call[w].user)
       THEN Return(w) /\ UNCHANGED accounts
       ELSE accounts' = accounts \cup {call[w].user} /\ Goto(w, "save")
    /\ UNCHANGED <<clock, tokens>>

\* The chat of type 'saved' and its member: the CHECK of the schema refuses
\* the type, the member has no chat to refer to, and both errors are ignored.
RegisterSave(w) ==
    /\ At(w, "save")
    /\ Goto(w, "create")
    /\ UNCHANGED <<accounts, clock, tokens>>

-----------------------------------------------------------------------------
\* With the right password.
Login(w, u) ==
    /\ At(w, "idle")
    /\ u \in accounts
    /\ Enter(w, "create", u, NoToken)
    /\ UNCHANGED <<accounts, clock, tokens>>

\* createSession: a new pair of tokens, for a login or for a refresh of the
\* token of the call.
CreateSession(w, t) ==
    LET c     == call[w]
        login == IF c.token = NoToken THEN t ELSE root[c.token]
    IN
    /\ At(w, "create")
    /\ owner[t] = NoUser
    /\ sessions' = sessions \cup {t}
    /\ owner' = [owner EXCEPT ![t] = c.user]
    /\ expires' = [expires EXCEPT ![t] = clock + RefreshTTL]
    /\ access' = access \cup {[user |-> c.user, login |-> login, expires |-> clock + AccessTTL]}
    /\ root' = [root EXCEPT ![t] = login]
    /\ Return(w)
    /\ UNCHANGED <<accounts, clock, disturbed, ended>>

-----------------------------------------------------------------------------
(* Refresh: the row is read and its expiry tested, then it is deleted,     *)
(* then the account is read and a new session created.                     *)

\* A refresh that will create a session, and the login it carries on.
Refreshing(w) == call[w].stage \in {"refresh", "create"} /\ call[w].token # NoToken
LoginOf(w)    == root[call[w].token]

RefreshRead(w, t) ==
    /\ At(w, "idle")
    /\ t \in sessions
    /\ Enter(w, IF clock > expires[t] THEN "expired" ELSE "refresh", owner[t], t)
    /\ disturbed' = IF \E x \in Worker : Refreshing(x) /\ LoginOf(x) = root[t]
                    THEN disturbed \cup {root[t]} ELSE disturbed
    /\ UNCHANGED <<accounts, clock, sessions, owner, expires, access, root, ended>>

\* The outcome of the delete is not looked at: neither an error nor that
\* there was nothing left to delete.
RefreshDelete_Keeps(w) ==
    /\ call[w].stage \in {"refresh", "expired"}
    /\ IF At(w, "refresh") THEN Goto(w, "create") ELSE Return(w)
    /\ UNCHANGED <<accounts, clock, tokens>>
RefreshDelete_AllOfUser(w) ==
    /\ call[w].stage \in {"refresh", "expired"}
    /\ sessions' = {t \in sessions : owner[t] # call[w].user}
    /\ IF At(w, "refresh") THEN Goto(w, "create") ELSE Return(w)
    /\ UNCHANGED <<accounts, clock, owner, expires, access, root, disturbed, ended>>
RefreshDelete(w) ==
    /\ call[w].stage \in {"refresh", "expired"}
    /\ \/ sessions' = sessions \ {call[w].token} /\ UNCHANGED disturbed
       \/ Faults /\ disturbed' = disturbed \cup {LoginOf(w)} /\ UNCHANGED sessions
    /\ IF At(w, "refresh") THEN Goto(w, "create") ELSE Return(w)
    /\ UNCHANGED <<accounts, clock, owner, expires, access, root, ended>>

\* ValidateToken: the signature and the expiry, nothing that is stored.
Authenticated(u) == \E a \in access : a.user = u /\ clock < a.expires

\* Every session of the user is to go.
SessionsOf_Expired(u) == {t \in sessions : owner[t] = u /\ expires[t] < clock}
SessionsOf(u) == {t \in sessions : owner[t] = u}

\* The handler answers "ok" whatever becomes of the delete: when it fails, it
\* has ended nothing.  A login that is being refreshed gets its next token
\* after the delete, and is not ended either.
Logout(w, u) ==
    /\ At(w, "idle")
    /\ Authenticated(u)
    /\ \/ /\ sessions' = sessions \ SessionsOf(u)
          /\ ended' = [r \in Token |->
                IF /\ owner[r] = u /\ root[r] = r /\ ended[r] = 0
                   /\ \A x \in Worker : Refreshing(x) => LoginOf(x) # r
                THEN clock ELSE ended[r]]
       \/ Faults /\ UNCHANGED <<sessions, ended>>
    /\ UNCHANGED <<accounts, clock, call, owner, expires, access, root, disturbed>>

-----------------------------------------------------------------------------
Tick ==
    /\ clock < MaxTime
    /\ clock' = clock + 1
    /\ UNCHANGED <<accounts, call, tokens>>

\* A statement whose error is looked at fails; the handler returns it, and
\* what has been written stays.
StatementFails(w) ==
    /\ Faults
    /\ call[w].stage \in {"register", "create"}
    /\ Return(w)
    /\ UNCHANGED <<accounts, clock, tokens>>

Next ==
    \/ \E w \in Worker :
          \/ \E u \in User : RegisterCheck(w, u) \/ Login(w, u) \/ Logout(w, u)
          \/ \E t \in Token : RefreshRead(w, t) \/ CreateSession(w, t)
          \/ RegisterInsert(w) \/ RegisterSave(w) \/ RefreshDelete(w) \/ StatementFails(w)
    \/ Tick

Spec == Init /\ [][Next]_vars

-----------------------------------------------------------------------------
\* "Rotate access/refresh tokens" (README.md:59): refreshing replaces, so
\* that of all the tokens that descend from one login at most one is good,
\* and none while its successor is being made, unless two refreshes of the
\* login overlapped or the error of a delete was ignored.
Rotation ==
    \A t \in sessions :
        \/ root[t] \in disturbed
        \/ /\ \A s \in sessions : root[s] = root[t] => s = t
           /\ \A w \in Worker : At(w, "create") /\ Refreshing(w) => LoginOf(w) # root[t]

\* "Revoke current session" (README.md:60): a login that a logout has ended
\* stays ended.  No handler, however late, stores a refresh token of it, and
\* no access token made for it is good longer than AccessTTL after the logout;
\* other logins of the user, earlier or later, do not matter.  What a logout
\* that is answered "ok" does not end is said in Logout: the logins that are
\* being refreshed, and all of them when its delete fails.
LogoutRevokes ==
    \A r \in Token : ended[r] > 0 =>
        /\ \A t \in sessions : root[t] # r
        /\ \A a \in access : a.login = r => a.expires <= ended[r] + AccessTTL

\* A login is held by a refresh token that has a row, or carried by a refresh
\* that has deleted its token and is to make the next one.
Held(r)       == \E t \in sessions : root[t] = r
Carries(w, r) == At(w, "create") /\ Refreshing(w) /\ LoginOf(w) = r
Carried(r)    == \E w \in Worker : Carries(w, r)

\* A login is not lost between its tokens.  While a refresh carries it, it is
\* lost only by the failure of a refresh that carries it (the token it had is
\* gone by then): no logout, no other login and no other refresh takes it
\* away.  While it is held, it ends only by a logout of its user or because
\* all of its tokens have expired: a refresh, whatever its delete removes,
\* keeps or carries it on.
LoginContinues ==
    [][\A r \in Token :
         /\ Carried(r) => \/ Carried(r)' \/ Held(r)'
                          \/ \E w \in Worker : Carries(w, r) /\ StatementFails(w)
         /\ Held(r) => \/ Held(r)' \/ Carried(r)'
                       \/ \E w \in Worker : Logout(w, owner[r])
                       \/ \A t \in sessions : root[t] = r => clock > expires[t]]_vars

\* The check of the name is repeated by the index: of registrations of one
\* name that overlap, at most one makes an account.
OneAccountPerName ==
    \A u, v \in accounts : NameOf[u] = NameOf[v] => u = v
=============================================================================
