--------------------------- MODULE MembershipProof ---------------------------
(***************************************************************************)
(* Theorems about Membership.  RolesSound says what the roles of a chat    *)
(* may be given its type, CallSound what a handler still knows of the      *)
(* tables when it comes to write.                                          *)
(***************************************************************************)
EXTENDS Membership, TLAPS

RolesSound ==
    \A c \in Chat, u \in User :
        /\ kind[c] = "none" => role[c][u] = "none"
        /\ kind[c] = "direct" => role[c][u] \in {"none", "member"}
        /\ role[c][u] # "admin"

CallSound ==
    \A w \in Worker :
        /\ At(w, "add.insert") => call[w].chat \in Chat /\ kind[call[w].chat] = "group"
        /\ At(w, "request.upsert") => Sent(w) \in Pair
        /\ At(w, "accept.commit") => Received(w) \in Pair
        /\ At(w, "decline.commit") => Received(w) \in Pair

USE TablesAssumption, PairAssumption

-----------------------------------------------------------------------------
LEMMA IdleType == Idle \in Call
BY DEF Idle, Entered, Call, Stage

LEMMA ReturnType ==
    ASSUME NEW w \in Worker, call \in [Worker -> Call], Return(w)
    PROVE  call' \in [Worker -> Call]
BY IdleType DEF Return

LEMMA EnterType ==
    ASSUME NEW w \in Worker, NEW s \in Stage, NEW c \in Chat \cup {NoChat},
           NEW u \in User, NEW b \in BOOLEAN, call \in [Worker -> Call], Enter(w, s, c, u, b)
    PROVE  call' \in [Worker -> Call]
<1>1. Entered(s, c, u, b) \in Call
  BY DEF Entered, Call
<1> QED
  BY <1>1 DEF Enter

LEMMA InsertChatType ==
    ASSUME NEW c \in Chat, NEW k \in Kind, NEW f \in [User -> Role], TablesTypeOK, InsertChat(c, k, f)
    PROVE  kind' \in [Chat -> Kind] /\ role' \in [Chat -> [User -> Role]]
BY DEF InsertChat, TablesTypeOK

LEMMA InitType == Init => TypeOK
<1> SUFFICES ASSUME Init PROVE TypeOK
  OBVIOUS
<1>1. TablesTypeOK
  BY IdleType DEF Init, TablesInit, TablesTypeOK, Kind, Role
<1>2. RequestsTypeOK
  BY DEF Init, RequestsInit, RequestsTypeOK, Status
<1> QED
  BY <1>1, <1>2 DEF TypeOK

LEMMA NextType == TypeOK /\ CallSound /\ [Next]_vars => TypeOK'
<1> SUFFICES ASSUME TypeOK, CallSound, [Next]_vars PROVE TypeOK'
  OBVIOUS
<1> USE DEF TypeOK, TablesTypeOK, RequestsTypeOK
<1>1. ASSUME NEW w \in Worker, RequestsNext(w) PROVE TypeOK'
  <2>1. ASSUME NEW u \in User, CreateRequestCheck(w, u) \/ AcceptRead(w, u) PROVE TypeOK'
    BY <2>1, EnterType DEF CreateRequestCheck, AcceptRead, Stage
  <2>2. ASSUME NEW u \in User, NEW b \in BOOLEAN, DeclineRead(w, u, b) PROVE TypeOK'
    BY <2>2, EnterType DEF DeclineRead, Stage
  <2>3. CASE CreateRequestUpsert(w)
    BY <2>3, ReturnType DEF CreateRequestUpsert, Status
  <2>4. ASSUME NEW c \in Chat, AcceptCommit(w, c) PROVE TypeOK'
    <3>1. DirectRoles(call[w].user, UserOf[w]) \in [User -> Role]
      BY DEF DirectRoles, Role
    <3>2. "direct" \in Kind /\ "accepted" \in Status
      BY DEF Kind, Status
    <3> QED
      BY <2>4, <3>1, <3>2, InsertChatType, ReturnType DEF AcceptCommit
  <2>5. CASE DeclineCommit(w)
    <3>1. status' \in [Pair -> Status]
      BY <2>5 DEF DeclineCommit, DeclinedStatus, Status
    <3>2. NewBlock(w) \in User \X User
      BY <2>5 DEF DeclineCommit, CallSound, Received, NewBlock
    <3> QED
      BY <2>5, <3>1, <3>2, ReturnType DEF DeclineCommit
  <2> QED
    BY <1>1, <2>1, <2>2, <2>3, <2>4, <2>5 DEF RequestsNext
<1>2. ASSUME NEW w \in Worker, GroupsNext(w), UNCHANGED <<status, blocks, missed>> PROVE TypeOK'
  <2>1. ASSUME NEW c \in Chat, CreateGroup(w, c) PROVE TypeOK'
    <3>1. [u \in User |-> IF u = UserOf[w] THEN "owner" ELSE "none"] \in [User -> Role]
      BY DEF Role
    <3>2. "group" \in Kind
      BY DEF Kind
    <3> QED
      BY <1>2, <2>1, <3>1, <3>2, InsertChatType DEF CreateGroup
  <2>2. ASSUME NEW c \in Chat, Leave(w, c) PROVE TypeOK'
    BY <1>2, <2>2 DEF Leave, Role
  <2>3. ASSUME NEW c \in Chat, NEW u \in User, AddMemberCheck(w, c, u) \/ RemoveMemberCheck(w, c, u)
        PROVE  TypeOK'
    BY <1>2, <2>3, EnterType DEF AddMemberCheck, RemoveMemberCheck, Stage
  <2>4. CASE AddMemberInsert(w)
    <3>1. role' \in [Chat -> [User -> Role]]
      BY <2>4 DEF AddMemberInsert, Role
    <3> QED
      BY <1>2, <2>4, <3>1, ReturnType DEF AddMemberInsert
  <2>5. CASE RemoveMemberDelete(w)
    <3>1. role' \in [Chat -> [User -> Role]]
      BY <2>5 DEF RemoveMemberDelete, Role
    <3> QED
      BY <1>2, <2>5, <3>1, ReturnType DEF RemoveMemberDelete
  <2> QED
    BY <1>2, <2>1, <2>2, <2>3, <2>4, <2>5 DEF GroupsNext
<1>3. ASSUME NEW w \in Worker, Abort(w) PROVE TypeOK'
  BY <1>3, ReturnType DEF Abort
<1>4. CASE UNCHANGED vars
  BY <1>4 DEF vars
<1> QED
  BY <1>1, <1>2, <1>3, <1>4 DEF Next

-----------------------------------------------------------------------------
\* A handler step changes the call of its own worker only.
LEMMA OneCall ==
    ASSUME TypeOK, NEW w \in Worker, NEW v \in Worker, v # w,
           RequestsNext(w) \/ GroupsNext(w) \/ Abort(w)
    PROVE  call'[v] = call[v]
<1>1. ASSUME Return(w) PROVE call'[v] = call[v]
  BY <1>1 DEF Return, TypeOK, TablesTypeOK
<1>2. ASSUME NEW s, NEW c, NEW u, NEW b, Enter(w, s, c, u, b) PROVE call'[v] = call[v]
  BY <1>2 DEF Enter, TypeOK, TablesTypeOK
<1> QED
  BY <1>1, <1>2
  DEF RequestsNext, GroupsNext, Abort, CreateRequestCheck, CreateRequestUpsert, AcceptRead,
      AcceptCommit, DeclineRead, DeclineCommit, CreateGroup, AddMemberCheck, AddMemberInsert,
      RemoveMemberCheck, RemoveMemberDelete, Leave

\* A chat never changes its type.
LEMMA KindStays ==
    ASSUME TypeOK, [Next]_vars, NEW c \in Chat, kind[c] # "none"
    PROVE  kind'[c] = kind[c]
<1>1. ASSUME NEW d \in Chat, NEW k, NEW f, InsertChat(d, k, f) PROVE kind'[c] = kind[c]
  BY <1>1 DEF InsertChat, TypeOK, TablesTypeOK
<1> QED
  BY <1>1
  DEF Next, vars, RequestsNext, GroupsNext, Abort, CreateRequestCheck, CreateRequestUpsert,
      AcceptRead, AcceptCommit, DeclineRead, DeclineCommit, CreateGroup, AddMemberCheck,
      AddMemberInsert, RemoveMemberCheck, RemoveMemberDelete, Leave

LEMMA NextCallSound == TypeOK /\ CallSound /\ RolesSound /\ [Next]_vars => CallSound'
<1> SUFFICES ASSUME TypeOK, CallSound, RolesSound, [Next]_vars, NEW w \in Worker
             PROVE  /\ At(w, "add.insert")' => call'[w].chat \in Chat /\ kind'[call'[w].chat] = "group"
                    /\ At(w, "request.upsert")' => Sent(w)' \in Pair
                    /\ At(w, "accept.commit")' => Received(w)' \in Pair
                    /\ At(w, "decline.commit")' => Received(w)' \in Pair
  BY DEF CallSound
<1> USE DEF At, Sent, Received
<1>1. CASE call'[w] = call[w]
  BY <1>1, KindStays DEF CallSound
<1>2. ASSUME NEW c \in Chat, NEW u \in User, AddMemberCheck(w, c, u)
      PROVE  call'[w].stage = "add.insert" /\ call'[w].chat = c /\ kind'[c] = "group"
  <2>1. kind[c] = "group"
    BY <1>2 DEF AddMemberCheck, MayManage, RolesSound, TypeOK, TablesTypeOK, Kind
  <2> QED
    BY <1>2, <2>1 DEF AddMemberCheck, Enter, Entered, TypeOK, TablesTypeOK
<1>3. CASE RequestsNext(w)
  <2>1. ASSUME NEW u \in User, CreateRequestCheck(w, u)
        PROVE  call'[w].stage = "request.upsert" /\ <<UserOf[w], call'[w].user>> \in Pair
    BY <2>1 DEF CreateRequestCheck, Enter, Entered, TypeOK, TablesTypeOK
  <2>2. ASSUME NEW u \in User, AcceptRead(w, u)
        PROVE  call'[w].stage = "accept.commit" /\ <<call'[w].user, UserOf[w]>> \in Pair
    BY <2>2 DEF AcceptRead, Enter, Entered, TypeOK, TablesTypeOK
  <2>3. ASSUME NEW u \in User, NEW b \in BOOLEAN, DeclineRead(w, u, b)
        PROVE  call'[w].stage = "decline.commit" /\ <<call'[w].user, UserOf[w]>> \in Pair
    BY <2>3 DEF DeclineRead, Enter, Entered, TypeOK, TablesTypeOK
  <2>4. CASE Return(w)
    BY <2>4 DEF Return, Idle, Entered, TypeOK, TablesTypeOK
  <2> QED
    BY <1>3, <2>1, <2>2, <2>3, <2>4 DEF RequestsNext, CreateRequestUpsert, AcceptCommit, DeclineCommit
<1>4. ASSUME NEW c \in Chat, NEW u \in User, RemoveMemberCheck(w, c, u)
      PROVE  call'[w].stage = "remove.delete"
  BY <1>4 DEF RemoveMemberCheck, Enter, Entered, TypeOK, TablesTypeOK
<1>5. CASE Return(w)
  BY <1>5 DEF Return, Idle, Entered, TypeOK, TablesTypeOK
<1>6. CASE GroupsNext(w)
  BY <1>1, <1>2, <1>4, <1>5, <1>6
  DEF GroupsNext, CreateGroup, AddMemberInsert, RemoveMemberDelete, Leave
<1>7. CASE Abort(w)
  BY <1>5, <1>7 DEF Abort
<1>8. CASE \E v \in Worker : v # w /\ (RequestsNext(v) \/ GroupsNext(v) \/ Abort(v))
  BY <1>1, <1>8, OneCall
<1>9. CASE UNCHANGED vars
  BY <1>1, <1>9 DEF vars
<1> QED
  BY <1>3, <1>6, <1>7, <1>8, <1>9 DEF Next

LEMMA NextRolesSound == TypeOK /\ CallSound /\ RolesSound /\ [Next]_vars => RolesSound'
<1> SUFFICES ASSUME TypeOK, CallSound, RolesSound, [Next]_vars, NEW c \in Chat, NEW u \in User
             PROVE  /\ kind'[c] = "none" => role'[c][u] = "none"
                    /\ kind'[c] = "direct" => role'[c][u] \in {"none", "member"}
                    /\ role'[c][u] # "admin"
  BY DEF RolesSound
<1> USE DEF TypeOK, TablesTypeOK
<1>1. CASE UNCHANGED <<kind, role>>
  BY <1>1 DEF RolesSound
<1>2. ASSUME NEW w \in Worker, NEW d \in Chat, AcceptCommit(w, d)
      PROVE  \/ kind'[c] = kind[c] /\ role'[c][u] = role[c][u]
             \/ kind'[c] = "direct" /\ role'[c][u] \in {"none", "member"}
  BY <1>2 DEF AcceptCommit, InsertChat, DirectRoles
<1>3. ASSUME NEW w \in Worker, NEW d \in Chat, CreateGroup(w, d)
      PROVE  \/ kind'[c] = kind[c] /\ role'[c][u] = role[c][u]
             \/ kind'[c] = "group" /\ role'[c][u] \in {"none", "owner"}
  BY <1>3 DEF CreateGroup, InsertChat
<1>4. ASSUME NEW w \in Worker, AddMemberInsert(w)
      PROVE  /\ kind'[c] = kind[c]
             /\ role'[c][u] # role[c][u] => kind[c] = "group" /\ role'[c][u] = "member"
  BY <1>4 DEF AddMemberInsert, CallSound
<1>5. ASSUME NEW w \in Worker, RemoveMemberDelete(w) \/ \E d \in Chat : Leave(w, d)
      PROVE  kind'[c] = kind[c] /\ role'[c][u] \in {role[c][u], "none"}
  BY <1>5 DEF RemoveMemberDelete, Leave
<1>6. ASSUME NEW w \in Worker, RequestsNext(w)
      PROVE  UNCHANGED <<kind, role>> \/ \E d \in Chat : AcceptCommit(w, d)
  BY <1>6 DEF RequestsNext, CreateRequestCheck, CreateRequestUpsert, AcceptRead, DeclineRead,
              DeclineCommit
<1>7. ASSUME NEW w \in Worker, GroupsNext(w)
      PROVE  \/ UNCHANGED <<kind, role>>
             \/ \E d \in Chat : CreateGroup(w, d) \/ Leave(w, d)
             \/ AddMemberInsert(w) \/ RemoveMemberDelete(w)
  BY <1>7 DEF GroupsNext, AddMemberCheck, RemoveMemberCheck
<1> QED
  BY <1>1, <1>2, <1>3, <1>4, <1>5, <1>6, <1>7 DEF Next, Abort, vars, RolesSound

Sound == TypeOK /\ CallSound /\ RolesSound

LEMMA InitSound == Init => Sound
<1>1. Init => CallSound /\ RolesSound
  BY DEF Init, TablesInit, CallSound, RolesSound, At, Idle, Entered
<1> QED
  BY <1>1, InitType DEF Sound

LEMMA NextSound == Sound /\ [Next]_vars => Sound'
BY NextType, NextCallSound, NextRolesSound DEF Sound

\* The tables stay well-formed under every interleaving of the two services.
THEOREM TypeCorrect == Spec => []TypeOK
<1>1. Sound => TypeOK
  BY DEF Sound
<1> QED
  BY <1>1, InitSound, NextSound, PTL DEF Spec

-----------------------------------------------------------------------------
\* What a step may do to the members of a chat: none, a chat is born, a call
\* adds the member it was checked for, or members leave.
LEMMA MembersStep ==
    ASSUME Sound, [Next]_vars, NEW c \in Chat
    PROVE  \/ Members(c)' \subseteq Members(c) /\ \A u \in User : role'[c][u] \in {role[c][u], "none"}
           \/ kind[c] = "none"
           \/ \E w \in Worker : AddMemberInsert(w) /\ call[w].chat = c
<1> USE DEF Sound, TypeOK, TablesTypeOK
<1>1. CASE role'[c] = role[c]
  BY <1>1 DEF Members
<1>2. ASSUME NEW d \in Chat, NEW k, NEW f, InsertChat(d, k, f), d # c PROVE role'[c] = role[c]
  BY <1>2 DEF InsertChat
<1>3. ASSUME NEW d \in Chat, NEW k, NEW f, InsertChat(d, k, f), d = c PROVE kind[c] = "none"
  BY <1>3 DEF InsertChat
<1>4. ASSUME NEW w \in Worker, AddMemberInsert(w), call[w].chat # c PROVE role'[c] = role[c]
  BY <1>4 DEF AddMemberInsert
<1>5. ASSUME NEW w \in Worker, RemoveMemberDelete(w) \/ \E d \in Chat : Leave(w, d)
      PROVE  \A u \in User : role'[c][u] \in {role[c][u], "none"}
  <2>1. ASSUME NEW d, NEW v, role' = [role EXCEPT ![d][v] = "none"], NEW u \in User
        PROVE  role'[c][u] \in {role[c][u], "none"}
    <3>1. CASE c = d
      BY <2>1, <3>1
    <3>2. CASE c # d
      BY <2>1, <3>2
    <3> QED
      BY <3>1, <3>2
  <2> QED
    BY <1>5, <2>1 DEF RemoveMemberDelete, Leave
<1>6. ASSUME \A u \in User : role'[c][u] \in {role[c][u], "none"}
      PROVE  Members(c)' \subseteq Members(c)
  BY <1>6 DEF Members
<1>7. CASE UNCHANGED role
  BY <1>1, <1>7
<1>8. ASSUME NEW w \in Worker, RequestsNext(w)
      PROVE  UNCHANGED role \/ \E d \in Chat : \E k, f : InsertChat(d, k, f)
  BY <1>8 DEF RequestsNext, CreateRequestCheck, CreateRequestUpsert, AcceptRead, DeclineRead,
              DeclineCommit, AcceptCommit
<1>9. ASSUME NEW w \in Worker, GroupsNext(w)
      PROVE  \/ UNCHANGED role
             \/ \E d \in Chat : \E k, f : InsertChat(d, k, f)
             \/ \E d \in Chat : Leave(w, d)
             \/ AddMemberInsert(w) \/ RemoveMemberDelete(w)
  BY <1>9 DEF GroupsNext, AddMemberCheck, RemoveMemberCheck, CreateGroup
<1> QED
  BY <1>1, <1>2, <1>3, <1>4, <1>5, <1>6, <1>7, <1>8, <1>9 DEF Next, Abort, vars

LEMMA DirectStep ==
    ASSUME Sound, [Next]_vars, NEW c \in Chat
    PROVE  /\ kind[c] = "direct" => Members(c)' \subseteq Members(c)
           /\ kind[c] = "none" /\ kind'[c] = "direct" => \E p \in Pair : Members(c)' = {p[1], p[2]}
<1> USE DEF Sound, TypeOK, TablesTypeOK
<1>1. ASSUME kind[c] = "direct" PROVE Members(c)' \subseteq Members(c)
  <2>1. ASSUME NEW w \in Worker, AddMemberInsert(w) PROVE call[w].chat # c
    BY <1>1, <2>1 DEF AddMemberInsert, CallSound
  <2> QED
    BY <1>1, <2>1, MembersStep
<1>2. ASSUME kind[c] = "none", kind'[c] = "direct"
      PROVE  \E p \in Pair : Members(c)' = {p[1], p[2]}
  <2>1. PICK w \in Worker, d \in Chat : AcceptCommit(w, d)
    BY <1>2
    DEF Next, vars, RequestsNext, GroupsNext, Abort, CreateRequestCheck, CreateRequestUpsert,
        AcceptRead, DeclineRead, DeclineCommit, CreateGroup, InsertChat, AddMemberCheck,
        AddMemberInsert, RemoveMemberCheck, RemoveMemberDelete, Leave
  <2>2. d = c
    BY <1>2, <2>1 DEF AcceptCommit, InsertChat
  <2>3. Received(w) \in Pair
    BY <2>1 DEF AcceptCommit, CallSound
  <2>4. role'[c] = DirectRoles(call[w].user, UserOf[w])
    BY <2>1, <2>2 DEF AcceptCommit, InsertChat
  <2>5. Members(c)' = {call[w].user, UserOf[w]}
    BY <2>3, <2>4 DEF Members, DirectRoles, Received
  <2> QED
    BY <2>3, <2>5 DEF Received
<1> QED
  BY <1>1, <1>2

\* Nobody ever joins a direct chat, however the calls of the two services
\* interleave: no direct chat ever has an owner, who alone may add.
THEOREM DirectChatsAreClosed == Spec => DirectChatClosed
<1>1. Sound /\ [Next]_vars =>
        [\A c \in Chat :
            /\ kind[c] = "direct" => Members(c)' \subseteq Members(c)
            /\ kind[c] = "none" /\ kind'[c] = "direct" =>
                  \E p \in Pair : Members(c)' = {p[1], p[2]}]_vars
  BY DirectStep
<1> QED
  BY <1>1, InitSound, NextSound, PTL DEF Spec, DirectChatClosed

-----------------------------------------------------------------------------
LEMMA OwnerlessStep ==
    ASSUME Sound, [Next]_vars, NEW c \in Chat, Ownerless(c), NoAddInFlight(c)
    PROVE  Ownerless(c)' /\ NoAddInFlight(c)' /\ Members(c)' \subseteq Members(c)
<1> USE DEF Sound, TypeOK, TablesTypeOK
<1>1. Members(c)' \subseteq Members(c) /\ \A u \in User : role'[c][u] \in {role[c][u], "none"}
  BY MembersStep DEF Ownerless, NoAddInFlight, AddMemberInsert
<1>2. Ownerless(c)'
  BY <1>1, KindStays DEF Ownerless
<1>3. ASSUME NEW w \in Worker, call'[w].stage = "add.insert", call'[w].chat = c PROVE FALSE
  <2>1. CASE call'[w] = call[w]
    BY <1>3, <2>1 DEF NoAddInFlight, At
  <2>2. ASSUME NEW d \in Chat, NEW u \in User, AddMemberCheck(w, d, u) PROVE call'[w].chat = d /\ d # c
    BY <2>2 DEF AddMemberCheck, MayManage, Enter, Entered, Ownerless, RolesSound
  <2>3. ASSUME NEW s, NEW d, NEW u, NEW b, Enter(w, s, d, u, b), s # "add.insert" PROVE FALSE
    BY <1>3, <2>3 DEF Enter, Entered
  <2>4. CASE Return(w)
    BY <1>3, <2>4 DEF Return, Idle, Entered
  <2>5. CASE RequestsNext(w)
    BY <2>3, <2>4, <2>5 DEF RequestsNext, CreateRequestCheck, CreateRequestUpsert, AcceptRead,
                            AcceptCommit, DeclineRead, DeclineCommit
  <2>6. CASE GroupsNext(w)
    BY <1>3, <2>1, <2>2, <2>3, <2>4, <2>6
    DEF GroupsNext, CreateGroup, AddMemberInsert, RemoveMemberCheck, RemoveMemberDelete, Leave
  <2>7. CASE \E v \in Worker : v # w /\ (RequestsNext(v) \/ GroupsNext(v) \/ Abort(v))
    BY <2>1, <2>7, OneCall
  <2> QED
    BY <2>1, <2>4, <2>5, <2>6, <2>7 DEF Next, Abort, vars
<1> QED
  BY <1>1, <1>2, <1>3 DEF NoAddInFlight, At

\* A group whose owner has left can never be managed again.
THEOREM OwnerlessGroupsAreFinal == Spec => OwnerlessIsFinal
<1>1. Sound /\ [Next]_vars =>
        [\A c \in Chat : Ownerless(c) /\ NoAddInFlight(c) =>
            /\ Ownerless(c)'
            /\ NoAddInFlight(c)'
            /\ Members(c)' \subseteq Members(c)]_vars
  BY OwnerlessStep
<1> QED
  BY <1>1, InitSound, NextSound, PTL DEF Spec, OwnerlessIsFinal

-----------------------------------------------------------------------------
LEMMA BlocksGrow == [Next]_vars => blocks \subseteq blocks' /\ missed \subseteq missed'
BY DEF Next, vars, RequestsNext, GroupsNext, Abort, CreateRequestCheck, CreateRequestUpsert,
       AcceptRead, AcceptCommit, DeclineRead, DeclineCommit

LEMMA BlockStep ==
    ASSUME Sound, [Next]_vars, NEW p \in Pair, Blocked(p), NoRequestInFlight(p),
           p \notin missed'
    PROVE  Blocked(p)' /\ NoRequestInFlight(p)' /\ (status'[p] = "pending" => status[p] = "pending")
<1> USE DEF Sound, TypeOK, TablesTypeOK, RequestsTypeOK
<1>1. blocks \subseteq blocks'
  BY BlocksGrow
<1>2. ASSUME NEW w \in Worker, CreateRequestUpsert(w) PROVE status'[p] = status[p]
  <2>1. Sent(w) # p
    BY <1>2 DEF CreateRequestUpsert, NoRequestInFlight
  <2> QED
    BY <1>2, <2>1 DEF CreateRequestUpsert
<1>3. ASSUME NEW w \in Worker, NEW c \in Chat, AcceptCommit(w, c)
      PROVE  status'[p] \in {status[p], "accepted"}
  BY <1>3 DEF AcceptCommit
<1>4. ASSUME NEW w \in Worker, DeclineCommit(w)
      PROVE  status'[p] \in {status[p], "declined", "blocked"}
  BY <1>4 DEF DeclineCommit, DeclinedStatus
<1>5. status'[p] = "pending" => status[p] = "pending"
  BY <1>2, <1>3, <1>4
  DEF Next, vars, RequestsNext, Abort, CreateRequestCheck, AcceptRead, DeclineRead
<1>6. ASSUME NEW w \in Worker, call'[w].stage = "request.upsert", <<UserOf[w], call'[w].user>> = p
      PROVE  FALSE
  <2>1. CASE call'[w] = call[w]
    BY <1>6, <2>1 DEF NoRequestInFlight, At, Sent
  <2>2. ASSUME NEW u \in User, CreateRequestCheck(w, u) PROVE FALSE
    BY <1>6, <2>2 DEF CreateRequestCheck, Enter, Entered
  <2>3. ASSUME NEW s, NEW d, NEW u, NEW b, Enter(w, s, d, u, b), s # "request.upsert" PROVE FALSE
    BY <1>6, <2>3 DEF Enter, Entered
  <2>4. CASE Return(w)
    BY <1>6, <2>4 DEF Return, Idle, Entered
  <2>5. CASE RequestsNext(w)
    BY <2>2, <2>3, <2>4, <2>5 DEF RequestsNext, CreateRequestUpsert, AcceptRead, AcceptCommit,
                                  DeclineRead, DeclineCommit
  <2>6. CASE GroupsNext(w)
    BY <2>1, <2>3, <2>4, <2>6
    DEF GroupsNext, CreateGroup, AddMemberCheck, AddMemberInsert, RemoveMemberCheck,
        RemoveMemberDelete, Leave
  <2>7. CASE \E v \in Worker : v # w /\ (RequestsNext(v) \/ GroupsNext(v) \/ Abort(v))
    BY <2>1, <2>7, OneCall
  <2> QED
    BY <2>1, <2>4, <2>5, <2>6, <2>7 DEF Next, Abort, vars
<1> QED
  BY <1>1, <1>5, <1>6 DEF Blocked, NoRequestInFlight, At, Sent

\* Once a block is in and the calls checked before it are over, the pair gets
\* no new pending request, unless a lookup of its blocks fails.
THEOREM BlocksStopRequests == Spec => BlockStopsRequests
<1>1. Sound /\ [Next]_vars =>
        [\A p \in Pair : Blocked(p) /\ NoRequestInFlight(p) =>
            \/ p \in missed'
            \/ /\ Blocked(p)'
               /\ NoRequestInFlight(p)'
               /\ status'[p] = "pending" => status[p] = "pending"]_vars
  BY BlockStep
<1> QED
  BY <1>1, InitSound, NextSound, PTL DEF Spec, BlockStopsRequests

-----------------------------------------------------------------------------
LEMMA NextBlocked == Sound /\ BlockedHasBlock /\ [Next]_vars => BlockedHasBlock'
<1> SUFFICES ASSUME Sound, BlockedHasBlock, [Next]_vars, NEW p \in Pair, status'[p] = "blocked"
             PROVE  <<p[2], p[1]>> \in blocks' \/ p \in missed'
  BY DEF BlockedHasBlock
<1> USE DEF Sound, TypeOK, RequestsTypeOK
<1>1. CASE status[p] = "blocked"
  BY <1>1, BlocksGrow DEF BlockedHasBlock
<1>2. ASSUME NEW w \in Worker, DeclineCommit(w), status[p] # "blocked"
      PROVE  <<p[2], p[1]>> \in blocks' \/ p \in missed'
  <2>1. p = Received(w) /\ call[w].block
    BY <1>2 DEF DeclineCommit, DeclinedStatus
  <2>2. p[1] = call[w].user /\ p[2] = UserOf[w]
    BY <2>1 DEF Received
  <2> QED
    BY <1>2, <2>1, <2>2 DEF DeclineCommit, NewBlock
<1>3. ASSUME NEW w \in Worker, RequestsNext(w), ~DeclineCommit(w) PROVE status[p] = "blocked"
  BY <1>3 DEF RequestsNext, CreateRequestCheck, CreateRequestUpsert, AcceptRead, AcceptCommit,
              DeclineRead
<1> QED
  BY <1>1, <1>2, <1>3 DEF Next, Abort, vars

\* A request that says "blocked" has its block, unless the insert failed.
THEOREM BlockedRequestsHaveBlocks == Spec => []BlockedHasBlock
<1>1. Init => BlockedHasBlock
  BY DEF Init, RequestsInit, BlockedHasBlock
<1>2. Sound /\ BlockedHasBlock /\ [Next]_vars => BlockedHasBlock'
  BY NextBlocked
<1> QED
  BY <1>1, <1>2, InitSound, NextSound, PTL DEF Spec

-----------------------------------------------------------------------------
\* Nobody comes to accept a request that has been answered.
LEMMA AnsweredStep ==
    ASSUME Sound, [Next]_vars, NEW p \in Pair, status[p] # "pending", NoAcceptInFlight(p)
    PROVE  NoAcceptInFlight(p)'
<1> USE DEF Sound, TypeOK, TablesTypeOK, RequestsTypeOK
<1>1. ASSUME NEW w \in Worker, call'[w].stage = "accept.commit", <<call'[w].user, UserOf[w]>> = p
      PROVE  FALSE
  <2>1. CASE call'[w] = call[w]
    BY <1>1, <2>1 DEF NoAcceptInFlight, At, Received
  <2>2. ASSUME NEW u \in User, AcceptRead(w, u) PROVE FALSE
    BY <1>1, <2>2 DEF AcceptRead, Enter, Entered
  <2>3. ASSUME NEW s, NEW d, NEW u, NEW b, Enter(w, s, d, u, b), s # "accept.commit" PROVE FALSE
    BY <1>1, <2>3 DEF Enter, Entered
  <2>4. CASE Return(w)
    BY <1>1, <2>4 DEF Return, Idle, Entered
  <2>5. CASE RequestsNext(w)
    BY <2>2, <2>3, <2>4, <2>5 DEF RequestsNext, CreateRequestUpsert, CreateRequestCheck,
                                  AcceptCommit, DeclineRead, DeclineCommit
  <2>6. CASE GroupsNext(w)
    BY <2>1, <2>3, <2>4, <2>6
    DEF GroupsNext, CreateGroup, AddMemberCheck, AddMemberInsert, RemoveMemberCheck,
        RemoveMemberDelete, Leave
  <2>7. CASE \E v \in Worker : v # w /\ (RequestsNext(v) \/ GroupsNext(v) \/ Abort(v))
    BY <2>1, <2>7, OneCall
  <2> QED
    BY <2>1, <2>4, <2>5, <2>6, <2>7 DEF Next, Abort, vars
<1> QED
  BY <1>1 DEF NoAcceptInFlight, At, Received

\* A direct chat is made by the transaction of an accept.
LEMMA DirectChatFrom ==
    ASSUME Sound, [Next]_vars, NEW c \in Chat, kind[c] = "none", kind'[c] = "direct"
    PROVE  \E w \in Worker : /\ AcceptCommit(w, c)
                             /\ Received(w) \in Pair
                             /\ Members(c)' = {call[w].user, UserOf[w]}
<1> USE DEF Sound, TypeOK, TablesTypeOK, RequestsTypeOK
<1>1. PICK w \in Worker, d \in Chat : AcceptCommit(w, d)
  BY DEF Next, vars, RequestsNext, GroupsNext, Abort, CreateRequestCheck, CreateRequestUpsert,
         AcceptRead, DeclineRead, DeclineCommit, CreateGroup, InsertChat, AddMemberCheck,
         AddMemberInsert, RemoveMemberCheck, RemoveMemberDelete, Leave
<1>2. d = c
  BY <1>1 DEF AcceptCommit, InsertChat
<1>3. Received(w) \in Pair
  BY <1>1 DEF AcceptCommit, CallSound
<1>4. role'[c] = DirectRoles(call[w].user, UserOf[w])
  BY <1>1, <1>2 DEF AcceptCommit, InsertChat
<1>5. Members(c)' = {call[w].user, UserOf[w]}
  BY <1>3, <1>4 DEF Members, DirectRoles, Received
<1> QED
  BY <1>1, <1>2, <1>3, <1>5

LEMMA NewChatStep ==
    ASSUME Sound, [Next]_vars, NEW p \in Pair, NewDirectChat(p)
    PROVE  \E q \in {p, <<p[2], p[1]>>} : ~NoAcceptInFlight(q)
<1>1. PICK c \in Chat : kind[c] = "none" /\ kind'[c] = "direct" /\ Members(c)' = {p[1], p[2]}
  BY DEF NewDirectChat
<1>2. PICK w \in Worker : /\ AcceptCommit(w, c)
                          /\ Received(w) \in Pair
                          /\ Members(c)' = {call[w].user, UserOf[w]}
  BY <1>1, DirectChatFrom
<1>3. At(w, "accept.commit")
  BY <1>2 DEF AcceptCommit
<1>4. p = <<p[1], p[2]>> /\ call[w].user # UserOf[w]
  BY <1>2 DEF Received
<1>5. Received(w) = p \/ Received(w) = <<p[2], p[1]>>
  BY <1>1, <1>2, <1>4 DEF Received
<1> QED
  BY <1>3, <1>5 DEF NoAcceptInFlight

\* From an answered request, once the calls that read it before are over,
\* comes no chat, however the calls of the two services interleave.
THEOREM AnswersAreFinal == Spec => AnsweredIsFinal
<1>1. Sound /\ [Next]_vars =>
        [\A p \in Pair :
            /\ status[p] # "pending" /\ NoAcceptInFlight(p) => NoAcceptInFlight(p)'
            /\ NewDirectChat(p) => \E q \in {p, <<p[2], p[1]>>} : ~NoAcceptInFlight(q)]_vars
  BY AnsweredStep, NewChatStep
<1> QED
  BY <1>1, InitSound, NextSound, PTL DEF Spec, AnsweredIsFinal

-----------------------------------------------------------------------------
\* Every user runs one call at a time.
Sequential == \A v, w \in Worker : UserOf[v] = UserOf[w] => v = w

\* What a recipient has read of a request is then still so when it commits.
AcceptsSound ==
    \A w \in Worker : At(w, "accept.commit") => status[Received(w)] = "pending"

LEMMA NextAcceptsSound ==
    ASSUME Sequential
    PROVE  Sound /\ AcceptsSound /\ [Next]_vars => AcceptsSound'
<1> SUFFICES ASSUME Sound, AcceptsSound, [Next]_vars, NEW w \in Worker,
                    call'[w].stage = "accept.commit"
             PROVE  status'[<<call'[w].user, UserOf[w]>>] = "pending"
  BY DEF AcceptsSound, At, Received
<1> USE DEF Sound, TypeOK, TablesTypeOK, RequestsTypeOK
<1>1. CASE RequestsNext(w)
  <2>1. ASSUME NEW u \in User, AcceptRead(w, u)
        PROVE  call'[w].user = u /\ status'[<<u, UserOf[w]>>] = "pending"
    BY <2>1 DEF AcceptRead, Enter, Entered
  <2>2. ASSUME NEW s, NEW d, NEW u, NEW b, Enter(w, s, d, u, b), s # "accept.commit" PROVE FALSE
    BY <1>1, <2>2 DEF Enter, Entered
  <2>3. CASE Return(w)
    BY <2>3 DEF Return, Idle, Entered
  <2> QED
    BY <1>1, <2>1, <2>2, <2>3 DEF RequestsNext, CreateRequestCheck, CreateRequestUpsert,
                                  AcceptCommit, DeclineRead, DeclineCommit
<1>2. CASE call'[w] = call[w] /\ UNCHANGED status
  BY <1>2 DEF AcceptsSound, At, Received
<1>3. CASE GroupsNext(w) /\ UNCHANGED status
  <2>1. ASSUME NEW s, NEW d, NEW u, NEW b, Enter(w, s, d, u, b), s # "accept.commit" PROVE FALSE
    BY <1>3, <2>1 DEF Enter, Entered
  <2>2. CASE Return(w)
    BY <2>2 DEF Return, Idle, Entered
  <2> QED
    BY <1>2, <1>3, <2>1, <2>2
    DEF GroupsNext, CreateGroup, AddMemberCheck, AddMemberInsert, RemoveMemberCheck,
        RemoveMemberDelete, Leave
<1>4. CASE Abort(w)
  BY <1>4 DEF Abort, Return, Idle, Entered
<1>5. ASSUME NEW v \in Worker, v # w, RequestsNext(v)
      PROVE  status'[<<call'[w].user, UserOf[w]>>] = "pending"
  <2>1. call'[w] = call[w]
    BY <1>5, OneCall
  <2>2. Received(w) \in Pair /\ status[Received(w)] = "pending"
    BY <2>1 DEF AcceptsSound, CallSound, At
  <2>3. Received(v) # Received(w)
    BY <1>5, <2>2 DEF Received, Sequential
  <2>4. ASSUME CreateRequestUpsert(v) PROVE status'[Received(w)] = "pending"
    BY <2>2, <2>4 DEF CreateRequestUpsert
  <2>5. ASSUME DeclineCommit(v) \/ \E c \in Chat : AcceptCommit(v, c)
        PROVE  status'[Received(w)] = "pending"
    BY <2>2, <2>3, <2>5 DEF AcceptCommit, DeclineCommit
  <2>6. CASE UNCHANGED status
    BY <2>2, <2>6, <2>1 DEF Received
  <2> QED
    BY <1>5, <2>1, <2>4, <2>5, <2>6
    DEF RequestsNext, CreateRequestCheck, AcceptRead, DeclineRead, Received
<1>6. ASSUME NEW v \in Worker, v # w, GroupsNext(v) \/ Abort(v), UNCHANGED status
      PROVE  call'[w] = call[w] /\ UNCHANGED status
  BY <1>6, OneCall
<1>7. CASE UNCHANGED vars
  BY <1>2, <1>7 DEF vars
<1> QED
  BY <1>1, <1>2, <1>3, <1>4, <1>5, <1>6, <1>7 DEF Next, Abort

LEMMA AcceptStep ==
    ASSUME Sound, AcceptsSound, [Next]_vars, NEW c \in Chat, kind[c] = "none", kind'[c] = "direct"
    PROVE  \E p \in Pair :
              /\ Members(c)' = {p[1], p[2]}
              /\ status[p] = "pending"
              /\ status'[p] = "accepted"
<1>1. PICK w \in Worker : /\ AcceptCommit(w, c)
                          /\ Received(w) \in Pair
                          /\ Members(c)' = {call[w].user, UserOf[w]}
  BY DirectChatFrom
<1>2. status[Received(w)] = "pending" /\ status'[Received(w)] = "accepted"
  BY <1>1 DEF AcceptCommit, AcceptsSound, Sound, TypeOK, RequestsTypeOK
<1>3. Received(w)[1] = call[w].user /\ Received(w)[2] = UserOf[w]
  BY DEF Received
<1> QED
  BY <1>1, <1>2, <1>3

\* With sequential users a chat is created only for a request that is pending
\* when the transaction commits, although the status is read before it.
THEOREM ChatsComeFromPending == ASSUME Sequential PROVE Spec => AcceptsPending
<1>1. Init => AcceptsSound
  BY DEF Init, TablesInit, AcceptsSound, At, Idle, Entered
<1>2. Sound /\ AcceptsSound /\ [Next]_vars => AcceptsSound'
  BY NextAcceptsSound
<1>3. Sound /\ AcceptsSound /\ [Next]_vars =>
        [\A c \in Chat : kind[c] = "none" /\ kind'[c] = "direct" =>
            \E p \in Pair :
                /\ Members(c)' = {p[1], p[2]}
                /\ status[p] = "pending"
                /\ status'[p] = "accepted"]_vars
  BY AcceptStep
<1> QED
  BY <1>1, <1>2, <1>3, InitSound, NextSound, PTL DEF Spec, AcceptsPending
=============================================================================
