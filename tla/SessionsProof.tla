---------------------------- MODULE SessionsProof ----------------------------
(***************************************************************************)
(* Theorems about Sessions, however its handlers interleave and fail.      *)
(* Rotation rests on what a refresh knows of its login as long as no other *)
(* refresh of it is under way: nobody else can have replaced the token.    *)
(***************************************************************************)
EXTENDS Sessions, TLAPS

\* A handler that goes on is one for a stored account.
KnownUsers ==
    \A w \in Worker :
        call[w].stage \in {"save", "refresh", "expired", "create"} => call[w].user \in accounts

\* What a call carries.
CallSound ==
    \A w \in Worker :
        /\ At(w, "idle") => call[w] = Idle
        /\ ~At(w, "idle") => call[w].user \in User
        /\ call[w].stage \in {"refresh", "expired"} => call[w].token \in Token
        /\ call[w].stage \in {"register", "save"} => call[w].token = NoToken
        /\ call[w].token # NoToken => owner[call[w].token] # NoUser

\* A token that has been made is one of a stored account, and descends from
\* one that has been made.
TokensSound ==
    /\ \A t \in sessions : owner[t] # NoUser
    /\ \A t \in Token : owner[t] # NoUser => owner[t] \in accounts
    /\ \A t \in Token : owner[t] # NoUser => root[t] \in Token /\ owner[root[t]] # NoUser

TypeInv == TypeOK /\ CallSound /\ TokensSound

-----------------------------------------------------------------------------
LEMMA IdleFields == Idle \in Call /\ Idle.stage = "idle" /\ Idle.token = NoToken /\ Idle.user = NoUser
BY DEF Idle, Entered, Call, Stage

LEMMA EnteredFields ==
    ASSUME NEW s \in Stage, NEW u \in User, NEW t \in Token \cup {NoToken}
    PROVE  /\ Entered(s, u, t) \in Call
           /\ Entered(s, u, t).stage = s
           /\ Entered(s, u, t).user = u
           /\ Entered(s, u, t).token = t
BY DEF Entered, Call

\* Entering, going on and returning change one call and keep the others.
LEMMA EnterCall ==
    ASSUME call \in [Worker -> Call], NEW w \in Worker,
           NEW s \in Stage, NEW u \in User, NEW t \in Token \cup {NoToken}, Enter(w, s, u, t)
    PROVE  /\ call' \in [Worker -> Call]
           /\ call'[w].stage = s /\ call'[w].user = u /\ call'[w].token = t
           /\ \A v \in Worker \ {w} : call'[v] = call[v]
<1>1. call' = [call EXCEPT ![w] = Entered(s, u, t)]
  BY DEF Enter
<1> QED
  BY <1>1, EnteredFields

LEMMA GotoCall ==
    ASSUME call \in [Worker -> Call], NEW w \in Worker, NEW s \in Stage, Goto(w, s)
    PROVE  /\ call' \in [Worker -> Call]
           /\ call'[w].stage = s /\ call'[w].user = call[w].user /\ call'[w].token = call[w].token
           /\ \A v \in Worker \ {w} : call'[v] = call[v]
BY DEF Goto, Call

LEMMA ReturnCall ==
    ASSUME call \in [Worker -> Call], NEW w \in Worker, Return(w)
    PROVE  /\ call' \in [Worker -> Call]
           /\ call'[w] = Idle
           /\ \A v \in Worker \ {w} : call'[v] = call[v]
BY IdleFields DEF Return

-----------------------------------------------------------------------------
LEMMA InitTypeInv == Init => TypeInv
BY IdleFields DEF Init, TypeInv, TypeOK, CallSound, TokensSound, At

LEMMA NextTypeInv == TypeInv /\ [Next]_vars => TypeInv'
<1> SUFFICES ASSUME TypeInv, [Next]_vars PROVE TypeInv'
  OBVIOUS
<1> USE DEF TypeInv
<1>0. TypeOK /\ CallSound /\ TokensSound /\ call \in [Worker -> Call]
  BY DEF TypeOK
<1>1. ASSUME NEW w \in Worker, NEW u \in User, RegisterCheck(w, u) PROVE TypeInv'
  <2>1. Enter(w, "register", u, NoToken)
    BY <1>1 DEF RegisterCheck
  <2>2. /\ call' \in [Worker -> Call]
        /\ call'[w].stage = "register" /\ call'[w].user = u /\ call'[w].token = NoToken
        /\ \A v \in Worker \ {w} : call'[v] = call[v]
    BY <1>0, <2>1, EnterCall DEF Stage
  <2> QED
    BY <1>0, <1>1, <2>2 DEF RegisterCheck, tokens, TypeOK, CallSound, TokensSound, At
<1>2. ASSUME NEW w \in Worker, NEW u \in User, Login(w, u) PROVE TypeInv'
  <2>1. Enter(w, "create", u, NoToken)
    BY <1>2 DEF Login
  <2>2. /\ call' \in [Worker -> Call]
        /\ call'[w].stage = "create" /\ call'[w].user = u /\ call'[w].token = NoToken
        /\ \A v \in Worker \ {w} : call'[v] = call[v]
    BY <1>0, <2>1, EnterCall DEF Stage
  <2> QED
    BY <1>0, <1>2, <2>2 DEF Login, tokens, TypeOK, CallSound, TokensSound, At
<1>3. ASSUME NEW w \in Worker, NEW u \in User, Logout(w, u) PROVE TypeInv'
  BY <1>0, <1>3 DEF Logout, SessionsOf, TypeOK, CallSound, TokensSound, At
<1>4. ASSUME NEW w \in Worker, NEW t \in Token, RefreshRead(w, t) PROVE TypeInv'
  <2> DEFINE s == IF clock > expires[t] THEN "expired" ELSE "refresh"
  <2>1. Enter(w, s, owner[t], t) /\ s \in {"refresh", "expired"}
    BY <1>4 DEF RefreshRead
  <2>2. owner[t] \in User /\ owner[t] # NoUser /\ owner[t] \in accounts
    BY <1>0, <1>4 DEF RefreshRead, TokensSound, TypeOK
  <2>3. /\ call' \in [Worker -> Call]
        /\ call'[w].stage = s /\ call'[w].user = owner[t] /\ call'[w].token = t
        /\ \A v \in Worker \ {w} : call'[v] = call[v]
    BY <1>0, <2>1, <2>2, EnterCall DEF Stage
  <2>4. root[t] \in Token
    BY <1>0, <1>4, <2>2 DEF RefreshRead, TokensSound, TypeOK
  <2>5. TypeOK' /\ TokensSound'
    BY <1>0, <1>4, <2>3, <2>4 DEF RefreshRead, TypeOK, TokensSound
  <2>6. CallSound'
    BY <1>0, <1>4, <2>1, <2>2, <2>3 DEF RefreshRead, CallSound, At
  <2> QED
    BY <2>5, <2>6
<1>5. ASSUME NEW w \in Worker, NEW t \in Token, CreateSession(w, t) PROVE TypeInv'
  <2>0. /\ call[w].user \in User
        /\ call[w].token \in Token \cup {NoToken}
        /\ owner[t] = NoUser
        /\ call[w].token # t
    <3>1. At(w, "create") /\ owner[t] = NoUser
      BY <1>5 DEF CreateSession
    <3>2. call[w].user \in User /\ (call[w].token # NoToken => owner[call[w].token] # NoUser)
      BY <1>0, <3>1 DEF CallSound, At
    <3>3. call[w].token \in Token \cup {NoToken}
      BY <1>0 DEF Call
    <3> QED
      BY <3>1, <3>2, <3>3, SessionsAssumption
  <2>1. Return(w)
    BY <1>5 DEF CreateSession
  <2>2. /\ call' \in [Worker -> Call]
        /\ call'[w] = Idle
        /\ \A v \in Worker \ {w} : call'[v] = call[v]
    BY <1>0, <2>1, ReturnCall
  <2>3. owner' = [owner EXCEPT ![t] = call[w].user]
    BY <1>5 DEF CreateSession
  <2>4. \A s \in Token : owner[s] # NoUser => s # t /\ owner'[s] # NoUser
    BY <1>0, <2>0, <2>3 DEF TypeOK
  <2>5. owner' \in [Token -> User \cup {NoUser}] /\ owner'[t] # NoUser
    BY <1>0, <2>0, <2>3, SessionsAssumption DEF TypeOK
  <2>6. TypeOK'
    <3>1. root' \in [Token -> Token \cup {NoToken}]
      BY <1>0, <1>5, <2>0 DEF CreateSession, TypeOK
    <3>2. expires' \in [Token -> Nat]
      BY <1>0, <1>5, <2>0, SessionsAssumption DEF CreateSession, TypeOK
    <3>3. access' \in SUBSET [user : User, login : Token, expires : Nat]
      <4> DEFINE login == IF call[w].token = NoToken THEN t ELSE root[call[w].token]
      <4>1. login \in Token
        BY <1>0, <2>0 DEF TokensSound, CallSound
      <4>2. access' = access \cup {[user |-> call[w].user, login |-> login, expires |-> clock + AccessTTL]}
        BY <1>5 DEF CreateSession
      <4> HIDE DEF login
      <4> QED
        BY <1>0, <2>0, <4>1, <4>2, SessionsAssumption DEF TypeOK
    <3>4. KnownUsers'
      BY <1>0, <1>5, <2>2, IdleFields DEF CreateSession, TypeOK, KnownUsers
    <3> QED
      BY <1>0, <1>5, <2>2, <2>5, <3>1, <3>2, <3>3, <3>4 DEF CreateSession, TypeOK, KnownUsers
  <2>7. CallSound'
    BY <1>0, <2>2, <2>4, IdleFields DEF CallSound, At, Call
  <2>8. root'[t] \in Token /\ owner'[root'[t]] # NoUser
    <3>1. root'[t] = IF call[w].token = NoToken THEN t ELSE root[call[w].token]
      BY <1>0, <1>5 DEF CreateSession, TypeOK
    <3>2. CASE call[w].token = NoToken
      BY <2>5, <3>1, <3>2
    <3>3. CASE call[w].token # NoToken
      <4>1. owner[call[w].token] # NoUser /\ call[w].token \in Token
        BY <1>0, <2>0, <3>3 DEF CallSound
      <4> QED
        BY <1>0, <2>4, <3>1, <3>3, <4>1 DEF TokensSound
    <3> QED
      BY <3>2, <3>3
  <2>9. TokensSound'
    <3>1. \A s \in Token \ {t} : owner'[s] = owner[s] /\ root'[s] = root[s]
      BY <1>0, <1>5 DEF CreateSession, TypeOK
    <3>2. sessions' = sessions \cup {t} /\ sessions \subseteq Token
      BY <1>0, <1>5 DEF CreateSession, TypeOK
    <3>3. owner'[t] \in accounts /\ UNCHANGED accounts
      <4>1. call[w].user \in accounts /\ owner'[t] = call[w].user
        BY <1>0, <1>5, <2>3 DEF CreateSession, At, TypeOK
      <4> QED
        BY <1>5, <4>1 DEF CreateSession
    <3> QED
      BY <1>0, <2>4, <2>5, <2>8, <3>1, <3>2, <3>3 DEF TokensSound
  <2> QED
    BY <2>6, <2>7, <2>9
<1>6. ASSUME NEW w \in Worker, RegisterInsert(w) PROVE TypeInv'
  <2>1. Return(w) \/ Goto(w, "save")
    BY <1>6 DEF RegisterInsert
  <2>2. call[w].stage = "register" /\ call[w].user \in User
    BY <1>0, <1>6 DEF RegisterInsert, CallSound, At
  <2>3. call' \in [Worker -> Call] /\ CallSound'
    <3>1. UNCHANGED owner
      BY <1>6 DEF RegisterInsert, tokens
    <3>2. CASE Return(w)
      BY <1>0, <3>1, <3>2, ReturnCall, IdleFields DEF CallSound, At
    <3>3. CASE Goto(w, "save")
      BY <1>0, <2>2, <3>1, <3>3, GotoCall DEF CallSound, At, Stage
    <3> QED
      BY <2>1, <3>2, <3>3
  <2>4. accounts \subseteq accounts' /\ accounts' \subseteq User
    BY <1>0, <1>6, <2>2 DEF RegisterInsert, TypeOK
  <2>5. KnownUsers'
    <3>1. KnownUsers
      BY <1>0 DEF TypeOK, KnownUsers
    <3>2. CASE Return(w)
      BY <1>0, <2>4, <3>1, <3>2, ReturnCall, IdleFields DEF KnownUsers
    <3>3. CASE Goto(w, "save") /\ call[w].user \in accounts'
      BY <1>0, <2>4, <3>1, <3>3, GotoCall DEF KnownUsers, Stage
    <3> QED
      BY <1>6, <3>2, <3>3 DEF RegisterInsert
  <2> QED
    BY <1>0, <1>6, <2>3, <2>4, <2>5 DEF RegisterInsert, tokens, TypeOK, TokensSound, KnownUsers
<1>7. ASSUME NEW w \in Worker, RegisterSave(w) PROVE TypeInv'
  <2>1. Goto(w, "create") /\ call[w].stage = "save" /\ call[w].user \in User /\ UNCHANGED tokens
    BY <1>0, <1>7 DEF RegisterSave, CallSound, At
  <2>2. call' \in [Worker -> Call] /\ CallSound'
    BY <1>0, <2>1, GotoCall DEF CallSound, At, Stage, tokens
  <2>3. KnownUsers'
    BY <1>0, <1>7, <2>1, GotoCall DEF RegisterSave, TypeOK, KnownUsers, Stage
  <2> QED
    BY <1>0, <1>7, <2>1, <2>2, <2>3 DEF RegisterSave, tokens, TypeOK, TokensSound, KnownUsers
<1>8. ASSUME NEW w \in Worker, RefreshDelete(w) PROVE TypeInv'
  <2>1. /\ Return(w) \/ Goto(w, "create")
        /\ call[w].stage \in {"refresh", "expired"} /\ call[w].user \in User
        /\ UNCHANGED owner
        /\ sessions' \subseteq sessions
    BY <1>0, <1>8 DEF RefreshDelete, CallSound, At
  <2>2. call' \in [Worker -> Call] /\ CallSound'
    <3>1. CASE Return(w)
      BY <1>0, <2>1, <3>1, ReturnCall, IdleFields DEF CallSound, At
    <3>2. CASE Goto(w, "create")
      BY <1>0, <2>1, <3>2, GotoCall DEF CallSound, At, Stage
    <3> QED
      BY <2>1, <3>1, <3>2
  <2>3. LoginOf(w) \in Token
    BY <1>0, <2>1 DEF LoginOf, CallSound, TokensSound, TypeOK, Call
  <2>4. KnownUsers'
    <3>1. KnownUsers /\ UNCHANGED accounts
      BY <1>0, <1>8 DEF RefreshDelete, TypeOK, KnownUsers
    <3>2. CASE Return(w)
      BY <1>0, <3>1, <3>2, ReturnCall, IdleFields DEF KnownUsers
    <3>3. CASE Goto(w, "create")
      BY <1>0, <2>1, <3>1, <3>3, GotoCall DEF KnownUsers, Stage
    <3> QED
      BY <2>1, <3>2, <3>3
  <2> QED
    BY <1>0, <1>8, <2>1, <2>2, <2>3, <2>4 DEF RefreshDelete, TypeOK, TokensSound, KnownUsers
<1>9. ASSUME NEW w \in Worker, StatementFails(w) PROVE TypeInv'
  <2>1. Return(w) /\ UNCHANGED tokens
    BY <1>9 DEF StatementFails
  <2>2. call' \in [Worker -> Call] /\ CallSound'
    BY <1>0, <2>1, ReturnCall, IdleFields DEF CallSound, At, tokens
  <2>3. KnownUsers'
    BY <1>0, <1>9, <2>1, ReturnCall, IdleFields DEF StatementFails, TypeOK, KnownUsers
  <2> QED
    BY <1>0, <1>9, <2>2, <2>3 DEF StatementFails, tokens, TypeOK, TokensSound, KnownUsers
<1>10. ASSUME Tick PROVE TypeInv'
  BY <1>0, <1>10 DEF Tick, tokens, TypeOK, CallSound, TokensSound, At
<1>11. CASE UNCHANGED vars
  BY <1>0, <1>11 DEF vars, tokens, TypeOK, CallSound, TokensSound, At
<1> QED
  BY <1>1, <1>2, <1>3, <1>4, <1>5, <1>6, <1>7, <1>8, <1>9, <1>10, <1>11 DEF Next

\* The tables, the tokens and the calls of the auth service keep their type.
THEOREM TypeCorrect == Spec => []TypeOK
<1>1. Spec => []TypeInv
  BY InitTypeInv, NextTypeInv, PTL DEF Spec
<1> QED
  BY <1>1, PTL DEF TypeInv

-----------------------------------------------------------------------------
\* Two registrations of one name never both make an account: the index on
\* the name decides, whatever the checks before it saw.
THEOREM NamesAreUnique == Spec => []OneAccountPerName
<1>1. Init => OneAccountPerName
  BY DEF Init, OneAccountPerName
<1>2. OneAccountPerName /\ [Next]_vars => OneAccountPerName'
  <2> SUFFICES ASSUME OneAccountPerName, [Next]_vars PROVE OneAccountPerName'
    OBVIOUS
  <2>1. CASE UNCHANGED accounts
    BY <2>1 DEF OneAccountPerName
  <2>2. ASSUME NEW w \in Worker, RegisterInsert(w), ~UNCHANGED accounts PROVE OneAccountPerName'
    <3>1. ~Taken(call[w].user) /\ accounts' = accounts \cup {call[w].user}
      BY <2>2 DEF RegisterInsert
    <3> QED
      BY <3>1 DEF OneAccountPerName, Taken
  <2> QED
    BY <2>1, <2>2 DEF Next, vars, RegisterCheck, Login, Logout, RefreshRead, CreateSession,
       RegisterSave, RefreshDelete, StatementFails, Tick
<1> QED
  BY <1>1, <1>2, PTL DEF Spec

-----------------------------------------------------------------------------
\* A login and the tokens that descend from it are of one user, and a refresh
\* that found its token expired still finds it so.
LineSound ==
    /\ \A t \in Token : owner[t] # NoUser => owner[root[t]] = owner[t]
    /\ \A w \in Worker :
          /\ call[w].token # NoToken => call[w].user = owner[call[w].token]
          /\ At(w, "expired") => clock > expires[call[w].token]

LEMMA InitLineSound == Init => LineSound
BY IdleFields DEF Init, LineSound, At

\* No step takes the owner, the expiry or the login from a token.
LEMMA TokenHistory ==
    ASSUME TypeInv, [Next]_vars, NEW t \in Token, owner[t] # NoUser
    PROVE  owner'[t] = owner[t] /\ expires'[t] = expires[t] /\ root'[t] = root[t]
<1>1. ASSUME NEW w \in Worker, NEW s \in Token, CreateSession(w, s)
      PROVE  owner'[t] = owner[t] /\ expires'[t] = expires[t] /\ root'[t] = root[t]
  <2>1. s # t
    BY <1>1 DEF CreateSession
  <2> QED
    BY <1>1, <2>1 DEF CreateSession, TypeInv, TypeOK
<1> QED
  BY <1>1 DEF Next, vars, tokens, RegisterCheck, Login, Logout, RefreshRead, RegisterInsert,
              RegisterSave, RefreshDelete, StatementFails, Tick

LEMMA NextLineSound ==
    ASSUME TypeInv, LineSound, [Next]_vars
    PROVE  LineSound'
<1>0. /\ TypeOK /\ CallSound /\ TokensSound /\ call \in [Worker -> Call] /\ clock \in Nat
      /\ clock' \in Nat /\ clock <= clock'
  <2>1. clock \in Nat /\ clock' \in {clock, clock + 1}
    BY DEF TypeInv, TypeOK, Next, vars, tokens, RegisterCheck, Login, Logout, RefreshRead,
           CreateSession, RegisterInsert, RegisterSave, RefreshDelete, StatementFails, Tick
  <2> QED
    BY <2>1 DEF TypeInv, TypeOK
\* A call that keeps its token keeps what is known of it.
<1>1. ASSUME NEW w \in Worker,
             \/ call'[w].token = NoToken
             \/ /\ call'[w].token = call[w].token /\ call'[w].user = call[w].user
                /\ At(w, "expired")' => At(w, "expired")
      PROVE  /\ call'[w].token # NoToken => call'[w].user = owner'[call'[w].token]
             /\ At(w, "expired")' => clock' > expires'[call'[w].token]
  <2>1. CASE call'[w].token = NoToken
    <3>1. TypeInv'
      BY NextTypeInv
    <3>2. ~At(w, "expired")'
      BY <2>1, <3>1, SessionsAssumption DEF TypeInv, CallSound, At
    <3> QED
      BY <2>1, <3>2
  <2>2. CASE call'[w].token # NoToken
    <3>1. call'[w].token = call[w].token /\ call[w].token \in Token /\ owner[call[w].token] # NoUser
      BY <1>0, <1>1, <2>2 DEF CallSound, Call
    <3>2. /\ owner'[call[w].token] = owner[call[w].token]
          /\ expires'[call[w].token] = expires[call[w].token]
      BY <3>1, TokenHistory
    <3>3. expires[call[w].token] \in Nat
      BY <1>0, <3>1 DEF TypeOK
    <3> QED
      BY <1>0, <1>1, <2>2, <3>1, <3>2, <3>3 DEF LineSound
  <2> QED
    BY <2>1, <2>2
<1>2. ASSUME NEW w \in Worker
      PROVE  /\ call'[w].token # NoToken => call'[w].user = owner'[call'[w].token]
             /\ At(w, "expired")' => clock' > expires'[call'[w].token]
  <2>1. ASSUME NEW t \in Token, RefreshRead(w, t)
        PROVE  /\ call'[w].token # NoToken => call'[w].user = owner'[call'[w].token]
               /\ At(w, "expired")' => clock' > expires'[call'[w].token]
    BY <1>0, <2>1 DEF RefreshRead, Enter, Entered, At
  <2>2. CASE \A t \in Token : ~RefreshRead(w, t)
    <3>1. \/ call'[w].token = NoToken
          \/ /\ call'[w].token = call[w].token /\ call'[w].user = call[w].user
             /\ At(w, "expired")' => At(w, "expired")
      <4>1. CASE call'[w] = call[w]
        BY <4>1 DEF At
      <4>2. CASE Return(w)
        BY <1>0, <4>2, ReturnCall, IdleFields
      <4>3. ASSUME NEW s \in Stage \ {"expired"}, Goto(w, s)
            PROVE  /\ call'[w].token = call[w].token /\ call'[w].user = call[w].user
                   /\ At(w, "expired")' => At(w, "expired")
        BY <1>0, <4>3, GotoCall DEF At
      <4>4. ASSUME NEW s \in {"register", "create"}, NEW u \in User, Enter(w, s, u, NoToken)
            PROVE  call'[w].token = NoToken
        BY <1>0, <4>4, EnterCall DEF Stage
      <4>5. ASSUME NEW x \in Worker, x # w, \/ Return(x) \/ \E s \in Stage : Goto(x, s)
                                          \/ \E s, u, t : Enter(x, s, u, t)
            PROVE  call'[w] = call[w]
        BY <1>0, <4>5 DEF Return, Goto, Enter
      <4>6. "save" \in Stage \ {"expired"} /\ "create" \in Stage \ {"expired"}
        BY DEF Stage
      <4>7. ASSUME NEW x \in Worker, RegisterInsert(x) \/ RegisterSave(x) \/ RefreshDelete(x)
            PROVE  Return(x) \/ Goto(x, "save") \/ Goto(x, "create")
        BY <4>7 DEF RegisterInsert, RegisterSave, RefreshDelete
      <4>8. ASSUME NEW x \in Worker, NEW t \in Token, CreateSession(x, t) PROVE Return(x)
        BY <4>8 DEF CreateSession
      <4> QED
        BY <2>2, <4>1, <4>2, <4>3, <4>4, <4>5, <4>6, <4>7, <4>8
        DEF Next, vars, RegisterCheck, Login, Logout, RefreshRead, StatementFails, Tick
    <3> QED
      BY <1>1, <3>1
  <2> QED
    BY <2>1, <2>2
<1>3. ASSUME NEW t \in Token, owner'[t] # NoUser PROVE owner'[root'[t]] = owner'[t]
  <2>1. CASE owner[t] # NoUser
    <3>1. root[t] \in Token /\ owner[root[t]] # NoUser /\ owner[root[t]] = owner[t]
      BY <1>0, <2>1 DEF TokensSound, LineSound
    <3> QED
      BY <2>1, <3>1, TokenHistory
  <2>2. ASSUME NEW w \in Worker, NEW s \in Token, CreateSession(w, s), owner[t] = NoUser
        PROVE  owner'[root'[t]] = owner'[t]
    <3>1. s = t /\ owner'[t] = call[w].user
      BY <1>0, <1>3, <2>2 DEF CreateSession, TypeOK
    <3>2. CASE call[w].token = NoToken
      BY <1>0, <2>2, <3>1, <3>2 DEF CreateSession, TypeOK
    <3>3. CASE call[w].token # NoToken
      <4> DEFINE k == call[w].token
      <4>1. k \in Token /\ owner[k] # NoUser /\ call[w].user = owner[k]
        BY <1>0, <3>3 DEF CallSound, Call, LineSound
      <4>2. root'[t] = root[k]
        BY <1>0, <2>2, <3>1, <3>3 DEF CreateSession, TypeOK
      <4>3. root[k] \in Token /\ owner[root[k]] = owner[k]
        BY <1>0, <4>1 DEF TokensSound, LineSound
      <4> HIDE DEF k
      <4>4. owner'[root[k]] = owner[root[k]]
        BY <4>1, <4>3, TokenHistory
      <4> QED
        BY <3>1, <4>1, <4>2, <4>3, <4>4
    <3> QED
      BY <3>2, <3>3
  <2>3. CASE UNCHANGED owner
    BY <1>3, <2>1, <2>3
  <2> QED
    BY <2>1, <2>2, <2>3 DEF Next, vars, tokens, RegisterCheck, Login, Logout, RefreshRead,
       RegisterInsert, RegisterSave, RefreshDelete, StatementFails, Tick
<1> QED
  BY <1>2, <1>3 DEF LineSound

\* No access token lasts longer than AccessTTL from now, and a login that is
\* being refreshed, or has not been made, has not been ended.
RevokeInv ==
    /\ LogoutRevokes
    /\ \A a \in access : a.expires <= clock + AccessTTL
    /\ \A w \in Worker : Refreshing(w) => ended[LoginOf(w)] = 0
    /\ \A r \in Token : ended[r] > 0 => owner[r] # NoUser

LEMMA InitRevokeInv == Init => RevokeInv
BY IdleFields DEF Init, RevokeInv, LogoutRevokes, Refreshing

LEMMA RefreshToken ==
    ASSUME TypeInv, NEW w \in Worker
    PROVE  /\ At(w, "refresh") => Refreshing(w)
           /\ Refreshing(w) => /\ call[w].token \in Token
                               /\ owner[call[w].token] # NoUser
                               /\ LoginOf(w) \in Token
                               /\ owner[LoginOf(w)] # NoUser
<1>1. call[w].token \in Token \cup {NoToken}
  BY DEF TypeInv, TypeOK, Call
<1> QED
  BY <1>1, SessionsAssumption DEF TypeInv, CallSound, TokensSound, Refreshing, LoginOf, At

LEMMA NextRevokeInv ==
    ASSUME TypeInv, LineSound, RevokeInv, [Next]_vars
    PROVE  RevokeInv'
<1>0. TypeOK /\ CallSound /\ TokensSound /\ call \in [Worker -> Call] /\ clock \in Nat
  BY DEF TypeInv, TypeOK
\* Steps after which no more is going on than before.
<1>1. ASSUME sessions' \subseteq sessions, UNCHANGED <<owner, access, root, ended>>,
             clock' \in Nat, clock' >= clock,
             \A w \in Worker : Refreshing(w)' => Refreshing(w) /\ call'[w].token = call[w].token
      PROVE  RevokeInv'
  <2>1. LogoutRevokes'
    BY <1>1 DEF LogoutRevokes, RevokeInv
  <2>2. ASSUME NEW a \in access' PROVE a.expires <= clock' + AccessTTL
    <3>1. a.expires \in Nat /\ a.expires <= clock + AccessTTL
      BY <1>0, <1>1, <2>2 DEF TypeOK, RevokeInv
    <3> QED
      BY <1>0, <1>1, <3>1, SessionsAssumption
  <2>3. \A w \in Worker : Refreshing(w)' => ended'[LoginOf(w)'] = 0
    BY <1>1 DEF RevokeInv, LoginOf
  <2>4. \A r \in Token : ended'[r] > 0 => owner'[r] # NoUser
    BY <1>1 DEF RevokeInv
  <2> QED
    BY <2>1, <2>2, <2>3, <2>4 DEF RevokeInv
<1>2. ASSUME NEW w \in Worker, \A v \in Worker \ {w} : call'[v] = call[v],
             Refreshing(w)' => Refreshing(w) /\ call'[w].token = call[w].token
      PROVE  \A v \in Worker : Refreshing(v)' => Refreshing(v) /\ call'[v].token = call[v].token
  BY <1>2 DEF Refreshing
<1>3. ASSUME NEW w \in Worker, NEW u \in User, RegisterCheck(w, u) \/ Login(w, u) PROVE RevokeInv'
  <2>1. /\ Enter(w, "register", u, NoToken) \/ Enter(w, "create", u, NoToken)
        /\ UNCHANGED <<tokens, clock>>
    BY <1>3 DEF RegisterCheck, Login
  <2>2. call'[w].token = NoToken /\ \A v \in Worker \ {w} : call'[v] = call[v]
    BY <1>0, <2>1, EnterCall DEF Stage
  <2> QED
    BY <1>0, <1>1, <1>2, <2>1, <2>2 DEF Refreshing, tokens
<1>4. ASSUME NEW w \in Worker, RegisterInsert(w) \/ RegisterSave(w) \/ StatementFails(w)
      PROVE  RevokeInv'
  <2>1. /\ Return(w) \/ ((Goto(w, "save") \/ Goto(w, "create")) /\ call[w].stage \in {"register", "save"})
        /\ UNCHANGED <<tokens, clock>>
    BY <1>4 DEF RegisterInsert, RegisterSave, StatementFails, At
  <2>2. call'[w].token = NoToken /\ \A v \in Worker \ {w} : call'[v] = call[v]
    BY <1>0, <2>1, ReturnCall, IdleFields, GotoCall DEF CallSound, Stage
  <2> QED
    BY <1>0, <1>1, <1>2, <2>1, <2>2 DEF Refreshing, tokens
<1>5. ASSUME Tick \/ UNCHANGED vars PROVE RevokeInv'
  BY <1>0, <1>1, <1>5 DEF Tick, vars, tokens, Refreshing
<1>6. ASSUME NEW w \in Worker, NEW t \in Token, RefreshRead(w, t) PROVE RevokeInv'
  <2> DEFINE s == IF clock > expires[t] THEN "expired" ELSE "refresh"
  <2>1. /\ Enter(w, s, owner[t], t) /\ s \in {"refresh", "expired"}
        /\ t \in sessions
        /\ UNCHANGED <<sessions, owner, access, root, ended, clock>>
    BY <1>6 DEF RefreshRead
  <2>2. owner[t] \in User
    BY <1>0, <2>1 DEF TokensSound, TypeOK
  <2>3. call'[w].token = t /\ \A v \in Worker \ {w} : call'[v] = call[v]
    BY <1>0, <2>1, <2>2, EnterCall DEF Stage
  <2>4. ended[root[t]] = 0
    <3>1. root[t] \in Token /\ ended[root[t]] \in Nat
      BY <1>0, <2>1 DEF TokensSound, TypeOK
    <3> QED
      BY <2>1, <3>1 DEF RevokeInv, LogoutRevokes
  <2>5. \A v \in Worker : Refreshing(v)' => ended'[LoginOf(v)'] = 0
    BY <2>1, <2>3, <2>4 DEF RevokeInv, Refreshing, LoginOf
  <2> QED
    BY <2>1, <2>5 DEF RevokeInv, LogoutRevokes
<1>7. ASSUME NEW w \in Worker, RefreshDelete(w) PROVE RevokeInv'
  <2>1. /\ Return(w) \/ (Goto(w, "create") /\ At(w, "refresh"))
        /\ sessions' \subseteq sessions
        /\ UNCHANGED <<owner, access, root, ended, clock>>
    BY <1>7 DEF RefreshDelete
  <2>2. CASE Return(w)
    <3>1. call'[w].token = NoToken /\ \A v \in Worker \ {w} : call'[v] = call[v]
      BY <1>0, <2>2, ReturnCall, IdleFields
    <3> QED
      BY <1>0, <1>1, <1>2, <2>1, <3>1 DEF Refreshing
  <2>3. CASE Goto(w, "create") /\ At(w, "refresh")
    <3>1. /\ call'[w].token = call[w].token
          /\ \A v \in Worker \ {w} : call'[v] = call[v]
      BY <1>0, <2>3, GotoCall DEF Stage
    <3>2. Refreshing(w)
      BY <2>3, RefreshToken
    <3> QED
      BY <1>0, <1>1, <1>2, <2>1, <3>1, <3>2
  <2> QED
    BY <2>1, <2>2, <2>3
<1>8. ASSUME NEW w \in Worker, NEW u \in User, Logout(w, u) PROVE RevokeInv'
  <2> DEFINE Ends(r) == /\ owner[r] = u /\ root[r] = r /\ ended[r] = 0
                        /\ \A x \in Worker : Refreshing(x) => LoginOf(x) # r
  <2>1. UNCHANGED <<owner, access, root, clock, call>>
    BY <1>8 DEF Logout
  <2>2. CASE UNCHANGED <<sessions, ended>>
    BY <1>0, <1>1, <2>1, <2>2 DEF Refreshing
  <2>3. CASE /\ sessions' = sessions \ SessionsOf(u)
             /\ ended' = [r \in Token |-> IF Ends(r) THEN clock ELSE ended[r]]
    <3>1. \A r \in Token : IF Ends(r) THEN ended'[r] = clock ELSE ended'[r] = ended[r]
      BY <2>3
    <3>2. ASSUME NEW r \in Token, Ends(r) PROVE \A t \in sessions' : root[t] # r
      <4> SUFFICES ASSUME NEW t \in sessions', root[t] = r PROVE FALSE
        OBVIOUS
      <4>1. t \in sessions /\ owner[t] # u
        BY <2>3 DEF SessionsOf
      <4>2. t \in Token /\ owner[t] # NoUser
        BY <1>0, <4>1 DEF TokensSound, TypeOK
      <4>3. owner[root[t]] = owner[t]
        BY <4>2 DEF LineSound
      <4> QED
        BY <3>2, <4>1, <4>3
    <3>3. LogoutRevokes'
      <4> SUFFICES ASSUME NEW r \in Token, ended'[r] > 0
                   PROVE  /\ \A t \in sessions' : root[t] # r
                          /\ \A a \in access : a.login = r => a.expires <= ended'[r] + AccessTTL
        BY <2>1 DEF LogoutRevokes
      <4>1. CASE Ends(r)
        BY <3>1, <3>2, <4>1 DEF RevokeInv
      <4>2. CASE ~Ends(r)
        <5>1. ended'[r] = ended[r]
          BY <3>1, <4>2
        <5> QED
          BY <2>3, <5>1 DEF RevokeInv, LogoutRevokes
      <4> QED
        BY <4>1, <4>2
    <3>4. ASSUME NEW x \in Worker, Refreshing(x)' PROVE ended'[LoginOf(x)'] = 0
      <4>1. Refreshing(x) /\ LoginOf(x)' = LoginOf(x)
        BY <2>1, <3>4 DEF Refreshing, LoginOf
      <4>2. LoginOf(x) \in Token
        BY <4>1, RefreshToken
      <4>3. ~Ends(LoginOf(x))
        BY <4>1
      <4> HIDE DEF Ends
      <4> QED
        BY <3>1, <4>1, <4>2, <4>3 DEF RevokeInv
    <3>5. ASSUME NEW r \in Token, ended'[r] > 0 PROVE owner'[r] # NoUser
      <4>1. CASE Ends(r)
        BY <2>1, <4>1, SessionsAssumption
      <4>2. CASE ~Ends(r)
        <5>1. ended'[r] = ended[r]
          BY <3>1, <4>2
        <5> QED
          BY <2>1, <3>5, <5>1 DEF RevokeInv
      <4> QED
        BY <4>1, <4>2
    <3> QED
      BY <2>1, <3>3, <3>4, <3>5 DEF RevokeInv
  <2> QED
    BY <1>8, <2>2, <2>3 DEF Logout
<1>9. ASSUME NEW w \in Worker, NEW t \in Token, CreateSession(w, t) PROVE RevokeInv'
  <2> DEFINE old == call[w].token
             r == IF old = NoToken THEN t ELSE root[old]
             new == [user |-> call[w].user, login |-> r, expires |-> clock + AccessTTL]
  <2>1. /\ At(w, "create") /\ owner[t] = NoUser
        /\ sessions' = sessions \cup {t}
        /\ owner' = [owner EXCEPT ![t] = call[w].user]
        /\ access' = access \cup {new}
        /\ root' = [root EXCEPT ![t] = r]
        /\ Return(w)
        /\ UNCHANGED <<clock, ended>>
    BY <1>9 DEF CreateSession
  <2>2. call'[w].token = NoToken /\ \A v \in Worker \ {w} : call'[v] = call[v]
    BY <1>0, <2>1, ReturnCall, IdleFields
  <2>3. r \in Token /\ ended[r] = 0
    <3>1. CASE old = NoToken
      BY <1>0, <2>1, <3>1 DEF RevokeInv, TypeOK
    <3>2. CASE old # NoToken
      <4>1. Refreshing(w) /\ LoginOf(w) = r
        BY <2>1, <3>2 DEF Refreshing, LoginOf, At
      <4> QED
        BY <4>1, RefreshToken DEF RevokeInv
    <3> QED
      BY <3>1, <3>2
  <2> HIDE DEF r
  <2>4. \A s \in Token \ {t} : root'[s] = root[s] /\ owner'[s] = owner[s]
    BY <1>0, <2>1 DEF TypeOK
  <2>5. root'[t] = r /\ sessions \subseteq Token
    BY <1>0, <2>1 DEF TypeOK
  <2>6. LogoutRevokes'
    <3> SUFFICES ASSUME NEW k \in Token, ended[k] > 0
                 PROVE  /\ \A s \in sessions' : root'[s] # k
                        /\ \A a \in access' : a.login = k => a.expires <= ended[k] + AccessTTL
      BY <2>1 DEF LogoutRevokes
    <3>1. k # r
      BY <2>3
    <3>2. \A s \in sessions : root[s] # k
      BY DEF LogoutRevokes, RevokeInv
    <3>3. \A a \in access : a.login = k => a.expires <= ended[k] + AccessTTL
      BY DEF LogoutRevokes, RevokeInv
    <3> QED
      BY <2>1, <2>4, <2>5, <3>1, <3>2, <3>3
  <2>7. \A a \in access' : a.expires <= clock' + AccessTTL
    BY <1>0, <2>1, SessionsAssumption DEF RevokeInv
  <2>8. \A v \in Worker : Refreshing(v)' => ended'[LoginOf(v)'] = 0
    <3> SUFFICES ASSUME NEW v \in Worker, Refreshing(v)' PROVE ended'[LoginOf(v)'] = 0
      OBVIOUS
    <3>1. v # w /\ Refreshing(v) /\ call'[v] = call[v]
      BY <2>2 DEF Refreshing
    <3>2. call[v].token \in Token \ {t}
      BY <2>1, <3>1, RefreshToken
    <3> QED
      BY <2>1, <2>4, <3>1, <3>2 DEF RevokeInv, LoginOf
  <2>9. \A k \in Token : ended'[k] > 0 => owner'[k] # NoUser
    BY <2>1, <2>4 DEF RevokeInv
  <2> QED
    BY <2>6, <2>7, <2>8, <2>9 DEF RevokeInv
<1> QED
  BY <1>3, <1>4, <1>5, <1>6, <1>7, <1>8, <1>9 DEF Next

\* A login that a logout has ended, because its delete worked and no refresh
\* of the login was under way, is ended for good: however the handlers
\* interleave, no refresh token of it comes back, and its access tokens are
\* good for no longer than AccessTTL.
THEOREM LogoutIsFinal == Spec => []LogoutRevokes
<1>1. Init => TypeInv /\ LineSound /\ RevokeInv
  BY InitTypeInv, InitLineSound, InitRevokeInv
<1>2. TypeInv /\ LineSound /\ RevokeInv /\ [Next]_vars => TypeInv' /\ LineSound' /\ RevokeInv'
  BY NextTypeInv, NextLineSound, NextRevokeInv
<1>3. RevokeInv => LogoutRevokes
  BY DEF RevokeInv
<1> QED
  BY <1>1, <1>2, <1>3, PTL DEF Spec

-----------------------------------------------------------------------------
\* A refresh that has no other next to it knows of every token of its login.
RefreshAlone ==
    /\ \A v, w \in Worker :
          Refreshing(v) /\ Refreshing(w) /\ LoginOf(v) = LoginOf(w)
              => v = w \/ LoginOf(v) \in disturbed
    /\ \A w \in Worker, s \in sessions :
          At(w, "refresh") /\ root[s] = LoginOf(w) => s = call[w].token \/ LoginOf(w) \in disturbed

RotationInv == Rotation /\ RefreshAlone

LEMMA NextRotationInv ==
    ASSUME TypeInv, RotationInv, [Next]_vars
    PROVE  RotationInv'
<1>0. TypeOK /\ CallSound /\ TokensSound /\ call \in [Worker -> Call] /\ Rotation /\ RefreshAlone
  BY DEF TypeInv, TypeOK, RotationInv
\* Steps that start no refresh, take none further and make no token.
<1>1. ASSUME sessions' \subseteq sessions, UNCHANGED root, disturbed \subseteq disturbed',
             \A w \in Worker : Refreshing(w)' => call'[w] = call[w]
      PROVE  RotationInv'
  <2>1. \A w \in Worker : /\ At(w, "refresh")' => Refreshing(w)'
                          /\ Refreshing(w)' => Refreshing(w) /\ LoginOf(w)' = LoginOf(w)
    <3>1. TypeInv'
      BY NextTypeInv
    <3> QED
      BY <1>1, <3>1, RefreshToken, SessionsAssumption
      DEF TypeInv, CallSound, TypeOK, Call, Refreshing, LoginOf, At
  <2>2. Rotation'
    BY <1>0, <1>1, <2>1 DEF Rotation, At
  <2>3. RefreshAlone'
    BY <1>0, <1>1, <2>1 DEF RefreshAlone, At
  <2> QED
    BY <2>2, <2>3 DEF RotationInv
<1>2. ASSUME NEW w \in Worker, \A v \in Worker \ {w} : call'[v] = call[v], ~Refreshing(w)'
      PROVE  \A v \in Worker : Refreshing(v)' => call'[v] = call[v]
  BY <1>2
<1>3. ASSUME NEW w \in Worker, NEW u \in User, RegisterCheck(w, u) \/ Login(w, u) PROVE RotationInv'
  <2>1. /\ Enter(w, "register", u, NoToken) \/ Enter(w, "create", u, NoToken)
        /\ UNCHANGED tokens
    BY <1>3 DEF RegisterCheck, Login
  <2>2. call'[w].token = NoToken /\ \A v \in Worker \ {w} : call'[v] = call[v]
    BY <1>0, <2>1, EnterCall DEF Stage
  <2> QED
    BY <1>1, <1>2, <2>1, <2>2 DEF Refreshing, tokens
<1>4. ASSUME NEW w \in Worker, RegisterInsert(w) \/ RegisterSave(w) \/ StatementFails(w)
      PROVE  RotationInv'
  <2>1. /\ Return(w) \/ ((Goto(w, "save") \/ Goto(w, "create")) /\ call[w].stage \in {"register", "save"})
        /\ UNCHANGED tokens
    BY <1>4 DEF RegisterInsert, RegisterSave, StatementFails, At
  <2>2. call'[w].token = NoToken /\ \A v \in Worker \ {w} : call'[v] = call[v]
    BY <1>0, <2>1, ReturnCall, IdleFields, GotoCall DEF CallSound, Stage
  <2> QED
    BY <1>1, <1>2, <2>1, <2>2 DEF Refreshing, tokens
<1>5. ASSUME Tick \/ UNCHANGED vars \/ \E w \in Worker, u \in User : Logout(w, u) PROVE RotationInv'
  <2>1. sessions' \subseteq sessions /\ UNCHANGED <<root, disturbed, call>>
    BY <1>5 DEF Tick, vars, tokens, Logout
  <2> QED
    BY <1>1, <2>1
<1>6. ASSUME NEW w \in Worker, NEW t \in Token, RefreshRead(w, t) PROVE RotationInv'
  <2> DEFINE s == IF clock > expires[t] THEN "expired" ELSE "refresh"
             met == \E x \in Worker : Refreshing(x) /\ LoginOf(x) = root[t]
  <2>1. /\ Enter(w, s, owner[t], t) /\ s \in {"refresh", "expired"}
        /\ t \in sessions
        /\ disturbed' = IF met THEN disturbed \cup {root[t]} ELSE disturbed
        /\ UNCHANGED <<sessions, root>>
    BY <1>6 DEF RefreshRead
  <2>2. owner[t] \in User
    BY <1>0, <2>1 DEF TokensSound, TypeOK
  <2>3. /\ call'[w].stage = s /\ call'[w].token = t
        /\ \A v \in Worker \ {w} : call'[v] = call[v]
    BY <1>0, <2>1, <2>2, EnterCall DEF Stage
  <2>4. /\ \A v \in Worker \ {w} : /\ Refreshing(v)' <=> Refreshing(v)
                                   /\ LoginOf(v)' = LoginOf(v)
                                   /\ \A c \in Stage : At(v, c)' <=> At(v, c)
        /\ LoginOf(w)' = root[t]
        /\ ~At(w, "create")'
        /\ disturbed \subseteq disturbed'
    BY <2>1, <2>3 DEF Refreshing, LoginOf, At
  <2>5. Rotation'
    BY <1>0, <2>1, <2>4 DEF Rotation, Stage
  <2>6. met => root[t] \in disturbed'
    BY <2>1
  <2>7. ASSUME NEW v \in Worker \ {w}, Refreshing(v)', LoginOf(v)' = root[t] PROVE root[t] \in disturbed'
    BY <2>4, <2>6, <2>7
  <2>8. ASSUME NEW x \in Worker, NEW v \in Worker,
               Refreshing(x)', Refreshing(v)', LoginOf(x)' = LoginOf(v)', x # v
        PROVE  LoginOf(x)' \in disturbed'
    <3>1. CASE x = w \/ v = w
      BY <2>4, <2>7, <2>8, <3>1
    <3>2. CASE x # w /\ v # w
      BY <1>0, <2>4, <2>8, <3>2 DEF RefreshAlone
    <3> QED
      BY <3>1, <3>2
  <2>9. ASSUME NEW x \in Worker, NEW k \in sessions, At(x, "refresh")', root[k] = LoginOf(x)'
        PROVE  k = call'[x].token \/ LoginOf(x)' \in disturbed'
    <3>1. CASE x = w
      BY <1>0, <2>1, <2>3, <2>4, <2>9, <3>1 DEF Rotation
    <3>2. CASE x # w
      BY <1>0, <2>3, <2>4, <2>9, <3>2 DEF RefreshAlone, Stage
    <3> QED
      BY <3>1, <3>2
  <2> QED
    BY <2>1, <2>5, <2>8, <2>9 DEF RotationInv, RefreshAlone
<1>7. ASSUME NEW w \in Worker, RefreshDelete(w), ~At(w, "refresh") PROVE RotationInv'
  <2>1. Return(w) /\ sessions' \subseteq sessions /\ UNCHANGED root /\ disturbed \subseteq disturbed'
    BY <1>7 DEF RefreshDelete
  <2>2. call'[w].token = NoToken /\ \A v \in Worker \ {w} : call'[v] = call[v]
    BY <1>0, <2>1, ReturnCall, IdleFields
  <2> QED
    BY <1>1, <1>2, <2>1, <2>2 DEF Refreshing
<1>8. ASSUME NEW w \in Worker, RefreshDelete(w), At(w, "refresh") PROVE RotationInv'
  <2> DEFINE old == call[w].token
             r == LoginOf(w)
  <2>1. /\ Goto(w, "create")
        /\ UNCHANGED root
        /\ \/ sessions' = sessions \ {old} /\ UNCHANGED disturbed
           \/ UNCHANGED sessions /\ disturbed' = disturbed \cup {r}
    BY <1>8 DEF RefreshDelete
  <2>2. /\ call'[w].stage = "create" /\ call'[w].token = old
        /\ \A v \in Worker \ {w} : call'[v] = call[v]
    BY <1>0, <2>1, GotoCall DEF Stage
  <2>3. /\ \A v \in Worker : LoginOf(v)' = LoginOf(v) /\ (Refreshing(v)' <=> Refreshing(v))
        /\ \A v \in Worker \ {w} : \A c \in Stage : At(v, c)' <=> At(v, c)
        /\ ~At(w, "refresh")'
        /\ sessions' \subseteq sessions /\ disturbed \subseteq disturbed'
    BY <1>8, <2>1, <2>2 DEF Refreshing, LoginOf, At
  <2>4. r \in disturbed' \/ \A s \in sessions' : root[s] # r
    BY <1>0, <1>8, <2>1 DEF RefreshAlone
  <2>5. Rotation'
    <3> SUFFICES ASSUME NEW t \in sessions', root'[t] \notin disturbed'
                 PROVE  /\ \A s \in sessions' : root'[s] = root'[t] => s = t
                        /\ \A v \in Worker : At(v, "create")' /\ Refreshing(v)' => LoginOf(v)' # root'[t]
      BY DEF Rotation
    <3>1. t \in sessions /\ root'[t] = root[t] /\ root[t] \notin disturbed
      BY <2>1, <2>3
    <3>2. \A s \in sessions' : root'[s] = root'[t] => s = t
      BY <1>0, <2>1, <2>3, <3>1 DEF Rotation
    <3>3. ASSUME NEW v \in Worker, At(v, "create")', Refreshing(v)' PROVE LoginOf(v)' # root'[t]
      <4>1. CASE v = w
        BY <2>1, <2>3, <2>4, <3>1, <4>1
      <4>2. CASE v # w
        BY <1>0, <2>3, <3>1, <3>3, <4>2 DEF Rotation, Stage
      <4> QED
        BY <4>1, <4>2
    <3> QED
      BY <3>2, <3>3
  <2>6. RefreshAlone'
    BY <1>0, <2>1, <2>2, <2>3 DEF RefreshAlone, Stage
  <2> QED
    BY <2>5, <2>6 DEF RotationInv
<1>9. ASSUME NEW w \in Worker, NEW t \in Token, CreateSession(w, t) PROVE RotationInv'
  <2> DEFINE old == call[w].token
             r == IF old = NoToken THEN t ELSE root[old]
  <2>1. /\ At(w, "create") /\ owner[t] = NoUser
        /\ sessions' = sessions \cup {t}
        /\ root' = [root EXCEPT ![t] = r]
        /\ Return(w)
        /\ UNCHANGED disturbed
    BY <1>9 DEF CreateSession
  <2>2. call'[w].token = NoToken /\ \A v \in Worker \ {w} : call'[v] = call[v]
    BY <1>0, <2>1, ReturnCall, IdleFields
  <2>3. \A s \in sessions : s # t /\ root'[s] = root[s] /\ root[s] # t
    BY <1>0, <2>1 DEF TokensSound, TypeOK
  <2>4. root'[t] = r
    BY <1>0, <2>1 DEF TypeOK
  <2>5. ASSUME NEW v \in Worker, Refreshing(v)'
        PROVE  /\ v # w /\ Refreshing(v)
               /\ call'[v] = call[v]
               /\ LoginOf(v)' = LoginOf(v) /\ LoginOf(v) # t
    <3>1. v # w /\ Refreshing(v) /\ call'[v] = call[v]
      BY <2>2, <2>5 DEF Refreshing
    <3>2. call[v].token \in Token /\ owner[call[v].token] # NoUser /\ owner[LoginOf(v)] # NoUser
      BY <3>1, RefreshToken
    <3>3. call[v].token # t /\ LoginOf(v) # t
      BY <2>1, <3>2
    <3> QED
      BY <1>0, <2>1, <3>1, <3>2, <3>3 DEF LoginOf, TypeOK
  <2>6. r \in disturbed \/ \A s \in sessions : root[s] # r
    <3>1. CASE old = NoToken
      BY <2>3, <3>1
    <3>2. CASE old # NoToken
      BY <1>0, <2>1, <3>2 DEF Rotation, Refreshing, LoginOf, At
    <3> QED
      BY <3>1, <3>2
  <2>7. ASSUME NEW v \in Worker, Refreshing(v)', LoginOf(v)' = r PROVE r \in disturbed
    <3>1. CASE old = NoToken
      BY <2>5, <2>7, <3>1
    <3>2. CASE old # NoToken
      BY <1>0, <2>1, <2>5, <2>7, <3>2 DEF RefreshAlone, Refreshing, LoginOf, At
    <3> QED
      BY <3>1, <3>2
  <2>8. Rotation'
    <3> SUFFICES ASSUME NEW k \in sessions', root'[k] \notin disturbed
                 PROVE  /\ \A s \in sessions' : root'[s] = root'[k] => s = k
                        /\ \A v \in Worker : At(v, "create")' /\ Refreshing(v)' => LoginOf(v)' # root'[k]
      BY <2>1 DEF Rotation
    <3>1. CASE k = t
      BY <2>1, <2>3, <2>4, <2>6, <2>7, <3>1
    <3>2. CASE k # t
      <4>1. k \in sessions /\ root'[k] = root[k] /\ root[k] \notin disturbed
        BY <2>1, <2>3, <3>2
      <4>2. \A s \in sessions : root[s] = root[k] => s = k
        BY <1>0, <4>1 DEF Rotation
      <4>3. root'[t] # root'[k]
        BY <2>4, <2>6, <4>1
      <4>4. ASSUME NEW v \in Worker, At(v, "create")', Refreshing(v)' PROVE LoginOf(v)' # root'[k]
        BY <1>0, <2>5, <4>1, <4>4 DEF Rotation, At
      <4> QED
        BY <2>1, <2>3, <4>1, <4>2, <4>3, <4>4
    <3> QED
      BY <3>1, <3>2
  <2>9. RefreshAlone'
    <3>1. \A v, x \in Worker : Refreshing(v)' /\ Refreshing(x)' /\ LoginOf(v)' = LoginOf(x)'
              => v = x \/ LoginOf(v)' \in disturbed'
      BY <1>0, <2>1, <2>5 DEF RefreshAlone
    <3>2. ASSUME NEW v \in Worker, NEW s \in sessions', At(v, "refresh")', root'[s] = LoginOf(v)'
          PROVE  s = call'[v].token \/ LoginOf(v)' \in disturbed'
      <4>1. Refreshing(v)'
        <5>1. TypeInv'
          BY NextTypeInv
        <5>2. call'[v].token # NoToken
          BY <3>2, <5>1, SessionsAssumption DEF TypeInv, CallSound, At
        <5> QED
          BY <3>2, <5>2 DEF Refreshing, At
      <4>2. CASE s = t
        BY <2>1, <2>4, <2>7, <3>2, <4>1, <4>2
      <4>3. CASE s # t
        BY <1>0, <2>1, <2>3, <2>5, <3>2, <4>1, <4>3 DEF RefreshAlone, At
      <4> QED
        BY <4>2, <4>3
    <3> QED
      BY <3>1, <3>2 DEF RefreshAlone
  <2> QED
    BY <2>8, <2>9 DEF RotationInv
<1> QED
  BY <1>3, <1>4, <1>5, <1>6, <1>7, <1>8, <1>9 DEF Next

\* Refreshing replaces, whatever else happens: a login gets a second good
\* refresh token only when two of its refreshes overlap or a delete fails.
THEOREM RefreshRotates == Spec => []Rotation
<1>1. Init => TypeInv /\ RotationInv
  <2>1. Init => RotationInv
    BY IdleFields DEF Init, RotationInv, Rotation, RefreshAlone, Refreshing, At
  <2> QED
    BY <2>1, InitTypeInv
<1>2. TypeInv /\ RotationInv /\ [Next]_vars => TypeInv' /\ RotationInv'
  BY NextTypeInv, NextRotationInv
<1>3. RotationInv => Rotation
  BY DEF RotationInv
<1> QED
  BY <1>1, <1>2, <1>3, PTL DEF Spec

-----------------------------------------------------------------------------
\* A step that keeps the tokens of a login keeps it held.
LEMMA HeldKept ==
    ASSUME TypeInv, [Next]_vars, NEW r \in Token, Held(r),
           \A t \in sessions : root[t] = r => t \in sessions'
    PROVE  Held(r)'
<1>1. PICK t \in sessions : root[t] = r
  BY DEF Held
<1>2. t \in Token /\ owner[t] # NoUser
  BY DEF TypeInv, TypeOK, TokensSound
<1> QED
  BY <1>1, <1>2, TokenHistory DEF Held

\* A refresh that carries a login goes on carrying it until it has stored the
\* next token, or fails: nobody else's step touches it.
LEMMA CarriedStep ==
    ASSUME TypeInv, [Next]_vars, NEW r \in Token, NEW w \in Worker, Carries(w, r)
    PROVE  Carries(w, r)' \/ Held(r)' \/ StatementFails(w)
<1>0. TypeOK /\ call \in [Worker -> Call]
  BY DEF TypeInv, TypeOK
<1>1. /\ At(w, "create") /\ Refreshing(w) /\ root[call[w].token] = r
      /\ call[w].token \in Token /\ owner[call[w].token] # NoUser /\ call[w].token # NoToken
  BY RefreshToken DEF Carries, LoginOf, Refreshing
<1>2. CASE call'[w] = call[w]
  <2>1. root'[call[w].token] = root[call[w].token]
    BY <1>1, TokenHistory
  <2> QED
    BY <1>1, <1>2, <2>1 DEF Carries, At, Refreshing, LoginOf
<1>3. ASSUME NEW t \in Token, CreateSession(w, t) PROVE Held(r)'
  <2>1. root'[t] = r /\ t \in sessions'
    BY <1>0, <1>1, <1>3 DEF CreateSession, TypeOK
  <2> QED
    BY <2>1 DEF Held
<1>4. ASSUME NEW v \in Worker, v # w, \/ Return(v) \/ \E s : Goto(v, s)
                                    \/ \E s, u, t : Enter(v, s, u, t)
      PROVE  call'[w] = call[w]
  BY <1>0, <1>4 DEF Return, Goto, Enter
<1>5. ASSUME NEW v \in Worker, NEW u \in User, RegisterCheck(v, u) \/ Login(v, u) \/ Logout(v, u)
      PROVE  call'[w] = call[w]
  BY <1>1, <1>4, <1>5 DEF RegisterCheck, Login, Logout, At
<1>6. ASSUME NEW v \in Worker, NEW t \in Token, RefreshRead(v, t) PROVE call'[w] = call[w]
  BY <1>1, <1>4, <1>6 DEF RefreshRead, At
<1>7. ASSUME NEW v \in Worker, NEW t \in Token, CreateSession(v, t) PROVE call'[w] = call[w] \/ Held(r)'
  BY <1>3, <1>4, <1>7 DEF CreateSession
<1>8. ASSUME NEW v \in Worker, RegisterInsert(v) \/ RegisterSave(v) \/ RefreshDelete(v)
      PROVE  call'[w] = call[w]
  <2>1. v # w /\ (Return(v) \/ Goto(v, "save") \/ Goto(v, "create"))
    BY <1>1, <1>8 DEF RegisterInsert, RegisterSave, RefreshDelete, At
  <2> QED
    BY <1>4, <2>1
<1>9. ASSUME NEW v \in Worker, StatementFails(v) PROVE call'[w] = call[w] \/ StatementFails(w)
  BY <1>4, <1>9 DEF StatementFails
<1>10. CASE Tick \/ UNCHANGED vars
  BY <1>2, <1>10 DEF Tick, vars
<1> QED
  BY <1>2, <1>5, <1>6, <1>7, <1>8, <1>9, <1>10 DEF Next

\* A login that is held is held after a step, or carried, or has ended.
LEMMA HeldStep ==
    ASSUME TypeInv, LineSound, [Next]_vars, NEW r \in Token, Held(r)
    PROVE  \/ Held(r)' \/ Carried(r)'
           \/ \E w \in Worker : Logout(w, owner[r])
           \/ \A t \in sessions : root[t] = r => clock > expires[t]
<1>0. /\ TypeOK /\ CallSound /\ TokensSound /\ call \in [Worker -> Call]
      /\ sessions \subseteq Token
  BY DEF TypeInv, TypeOK
<1>1. ASSUME UNCHANGED sessions PROVE Held(r)'
  BY <1>1, HeldKept
<1>2. ASSUME NEW w \in Worker, NEW u \in User, Logout(w, u), u # owner[r] PROVE Held(r)'
  <2>1. \A t \in sessions : root[t] = r => t \in sessions'
    <3> SUFFICES ASSUME NEW t \in sessions, root[t] = r PROVE owner[t] # u
      BY <1>2 DEF Logout, SessionsOf
    <3>1. owner[t] = owner[r]
      BY <1>0 DEF TokensSound, LineSound
    <3> QED
      BY <1>2, <3>1
  <2> QED
    BY <2>1, HeldKept
<1>3. ASSUME NEW w \in Worker, NEW t \in Token, CreateSession(w, t) PROVE Held(r)'
  BY <1>3, HeldKept DEF CreateSession
<1>4. ASSUME NEW w \in Worker, RefreshDelete(w)
      PROVE  Held(r)' \/ Carried(r)' \/ \A t \in sessions : root[t] = r => clock > expires[t]
  <2> DEFINE k == call[w].token
  <2>1. /\ call[w].stage \in {"refresh", "expired"}
        /\ sessions \ {k} \subseteq sessions'
        /\ UNCHANGED <<root, owner>>
    BY <1>4 DEF RefreshDelete
  <2>2. CASE k \in sessions => root[k] # r
    BY <2>1, <2>2, HeldKept
  <2>3. CASE k \in sessions /\ root[k] = r /\ At(w, "refresh")
    <3>1. Goto(w, "create")
      BY <1>4, <2>3 DEF RefreshDelete
    <3>2. call'[w].stage = "create" /\ call'[w].token = k
      BY <1>0, <3>1, GotoCall DEF Stage
    <3>3. k # NoToken
      BY <1>0, <2>3, SessionsAssumption
    <3> HIDE DEF k
    <3> QED
      BY <2>1, <2>3, <3>2, <3>3 DEF Carried, Carries, At, Refreshing, LoginOf
  <2>4. CASE k \in sessions /\ root[k] = r /\ At(w, "expired")
    <3>1. clock > expires[k]
      BY <2>4 DEF LineSound
    <3>2. CASE \E t \in sessions : t # k /\ root[t] = r
      BY <2>1, <3>2 DEF Held
    <3>3. CASE ~ \E t \in sessions : t # k /\ root[t] = r
      BY <3>1, <3>3
    <3> QED
      BY <3>2, <3>3
  <2> QED
    BY <2>1, <2>2, <2>3, <2>4 DEF At
<1>5. ASSUME NEW w \in Worker, NEW u \in User, RegisterCheck(w, u) \/ Login(w, u) \/ Logout(w, u)
      PROVE  Held(r)' \/ \E v \in Worker : Logout(v, owner[r])
  BY <1>1, <1>2, <1>5 DEF RegisterCheck, Login, tokens
<1>6. ASSUME NEW w \in Worker, NEW t \in Token, RefreshRead(w, t) PROVE Held(r)'
  BY <1>1, <1>6 DEF RefreshRead
<1>7. ASSUME NEW w \in Worker, RegisterInsert(w) \/ RegisterSave(w) \/ StatementFails(w)
      PROVE  Held(r)'
  BY <1>1, <1>7 DEF RegisterInsert, RegisterSave, StatementFails, tokens
<1>8. CASE Tick \/ UNCHANGED vars
  BY <1>1, <1>8 DEF Tick, vars, tokens
<1> QED
  BY <1>3, <1>4, <1>5, <1>6, <1>7, <1>8 DEF Next

\* No login is lost between its tokens: while a refresh carries it, only the
\* failure of such a refresh loses it, and while it is held it goes over to a
\* refresh, is logged out or has expired, however the handlers interleave.
THEOREM LoginsContinue == Spec => LoginContinues
<1>1. Init => TypeInv /\ LineSound
  BY InitTypeInv, InitLineSound
<1>2. TypeInv /\ LineSound /\ [Next]_vars => TypeInv' /\ LineSound'
  BY NextTypeInv, NextLineSound
<1>3. TypeInv /\ LineSound /\ [Next]_vars =>
        [\A r \in Token :
           /\ Carried(r) => \/ Carried(r)' \/ Held(r)'
                            \/ \E w \in Worker : Carries(w, r) /\ StatementFails(w)
           /\ Held(r) => \/ Held(r)' \/ Carried(r)'
                         \/ \E w \in Worker : Logout(w, owner[r])
                         \/ \A t \in sessions : root[t] = r => clock > expires[t]]_vars
  <2> SUFFICES ASSUME TypeInv, LineSound, [Next]_vars, NEW r \in Token
               PROVE  /\ Carried(r) => \/ Carried(r)' \/ Held(r)'
                                       \/ \E w \in Worker : Carries(w, r) /\ StatementFails(w)
                      /\ Held(r) => \/ Held(r)' \/ Carried(r)'
                                    \/ \E w \in Worker : Logout(w, owner[r])
                                    \/ \A t \in sessions : root[t] = r => clock > expires[t]
    OBVIOUS
  <2>1. ASSUME NEW w \in Worker, Carries(w, r)
        PROVE  Carried(r)' \/ Held(r)' \/ (Carries(w, r) /\ StatementFails(w))
    BY <2>1, CarriedStep DEF Carried
  <2> QED
    BY <2>1, HeldStep DEF Carried
<1> QED
  BY <1>1, <1>2, <1>3, PTL DEF Spec, LoginContinues
=============================================================================
