------------------------------ MODULE Requests ------------------------------
(***************************************************************************)
(* The message-request service (internal/request/service.go): a user asks  *)
(* another to talk; accepting creates a direct chat, declining may block.  *)
(* Every handler reads and decides first and writes later, in a statement  *)
(* or a transaction of its own; between the two anything may happen.  A    *)
(* request is identified by its pair <<sender, recipient>>: the table has  *)
(* one row per pair, whose id never changes.                               *)
(***************************************************************************)
EXTENDS ChatTables

CONSTANTS Pair,       \* the <<sender, recipient>> pairs that use requests
          Faults      \* TRUE: the statements on blocks, whose errors are ignored, may fail

ASSUME PairAssumption ==
    /\ Pair \subseteq User \X User
    /\ \A p \in Pair : p[1] # p[2]
    /\ Faults \in BOOLEAN

VARIABLES status,     \* table message_requests: status per pair
          blocks,     \* table blocks: <<blocker, blocked>>
          missed      \* history: pairs of which a statement on blocks failed

Status == {"none", "pending", "accepted", "declined", "blocked"}

RequestsTypeOK ==
    /\ status \in [Pair -> Status]
    /\ blocks \in SUBSET (User \X User)
    /\ missed \in SUBSET Pair

RequestsInit ==
    /\ status = [p \in Pair |-> "none"]
    /\ blocks = {}
    /\ missed = {}

Blocked(p) == <<p[1], p[2]>> \in blocks \/ <<p[2], p[1]>> \in blocks

\* The request that worker w is accepting or declining, or sending.
Received(w) == <<call[w].user, UserOf[w]>>
Sent(w)     == <<UserOf[w], call[w].user>>

-----------------------------------------------------------------------------
\* CreateRequest refuses across a block, unless the lookup fails ...
CreateRequestCheck_OneWay(w, r) ==
    /\ At(w, "idle")
    /\ <<UserOf[w], r>> \in Pair
    /\ <<UserOf[w], r>> \notin blocks
    /\ Enter(w, "request.upsert", NoChat, r, FALSE)
    /\ UNCHANGED <<kind, role, status, blocks, missed>>
CreateRequestCheck(w, r) ==
    /\ At(w, "idle")
    /\ <<UserOf[w], r>> \in Pair
    /\ \/ ~Blocked(<<UserOf[w], r>>) /\ UNCHANGED missed
       \/ Faults /\ missed' = missed \cup {<<UserOf[w], r>>}
    /\ Enter(w, "request.upsert", NoChat, r, FALSE)
    /\ UNCHANGED <<kind, role, status, blocks>>

\* ... and then writes "pending" over whatever the row has become.
CreateRequestUpsert(w) ==
    /\ At(w, "request.upsert")
    /\ status' = [status EXCEPT ![Sent(w)] = "pending"]
    /\ Return(w)
    /\ UNCHANGED <<kind, role, blocks, missed>>

\* AcceptRequest reads the status outside of its transaction; blocks are
\* not looked at.
AcceptRead_AnyStatus(w, s) ==
    /\ At(w, "idle")
    /\ <<s, UserOf[w]>> \in Pair
    /\ status[<<s, UserOf[w]>>] # "none"
    /\ Enter(w, "accept.commit", NoChat, s, FALSE)
    /\ UNCHANGED <<kind, role, status, blocks, missed>>
AcceptRead(w, s) ==
    /\ At(w, "idle")
    /\ <<s, UserOf[w]>> \in Pair
    /\ status[<<s, UserOf[w]>>] = "pending"
    /\ Enter(w, "accept.commit", NoChat, s, FALSE)
    /\ UNCHANGED <<kind, role, status, blocks, missed>>

\* The roles in a direct chat of sender s and recipient r.
DirectRoles_Owner(s, r) == [u \in User |-> IF u = r THEN "owner" ELSE IF u = s THEN "member" ELSE "none"]
DirectRoles(s, r) == [u \in User |-> IF u \in {s, r} THEN "member" ELSE "none"]

AcceptCommit(w, c) ==
    /\ At(w, "accept.commit")
    /\ status' = [status EXCEPT ![Received(w)] = "accepted"]
    /\ InsertChat(c, "direct", DirectRoles(call[w].user, UserOf[w]))
    /\ Return(w)
    /\ UNCHANGED <<blocks, missed>>

\* DeclineRequest looks for the row only, whatever its status.
DeclineRead(w, s, block) ==
    /\ At(w, "idle")
    /\ <<s, UserOf[w]>> \in Pair
    /\ status[<<s, UserOf[w]>>] # "none"
    /\ Enter(w, "decline.commit", NoChat, s, block)
    /\ UNCHANGED <<kind, role, status, blocks, missed>>

DeclinedStatus_Unknown(block) == IF block THEN "block" ELSE "declined"
DeclinedStatus(block) == IF block THEN "blocked" ELSE "declined"

\* The row <<blocker, blocked>> of a declining worker.
NewBlock_Reversed(w) == <<call[w].user, UserOf[w]>>
NewBlock(w) == <<UserOf[w], call[w].user>>

\* The error of the insert into blocks is ignored.
DeclineCommit(w) ==
    /\ At(w, "decline.commit")
    /\ status' = [status EXCEPT ![Received(w)] = DeclinedStatus(call[w].block)]
    /\ \/ /\ blocks' = IF call[w].block THEN blocks \cup {NewBlock(w)} ELSE blocks
          /\ UNCHANGED missed
       \/ /\ Faults /\ call[w].block
          /\ missed' = missed \cup {Received(w)}
          /\ UNCHANGED blocks
    /\ Return(w)
    /\ UNCHANGED <<kind, role>>

RequestsNext(w) ==
    \/ \E u \in User : CreateRequestCheck(w, u) \/ AcceptRead(w, u)
    \/ \E u \in User, b \in BOOLEAN : DeclineRead(w, u, b)
    \/ CreateRequestUpsert(w)
    \/ \E c \in Chat : AcceptCommit(w, c)
    \/ DeclineCommit(w)
=============================================================================
