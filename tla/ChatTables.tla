----------------------------- MODULE ChatTables -----------------------------
(***************************************************************************)
(* What the request service and the group service share: the tables chats  *)
(* and chat_members, and the goroutines that run their HTTP handlers.      *)
(***************************************************************************)
EXTENDS Naturals

CONSTANTS User,
          Chat,       \* chat ids (uuids are fresh: an id is used once)
          Worker,     \* goroutines that run handlers, one call at a time
          UserOf,     \* the authenticated user of a worker
          NoChat, NoUser

ASSUME TablesAssumption ==
    /\ UserOf \in [Worker -> User]
    /\ NoChat \notin Chat
    /\ NoUser \notin User

VARIABLES kind,       \* table chats: the type of each chat, "none" if absent
          role,       \* table chat_members: role of a user, "none" if absent
          call        \* where each worker is in its handler

\* A channel is a group to both services.
Kind == {"none", "direct", "group"}
Role == {"none", "member", "admin", "owner"}

Stage == {"idle", "request.upsert", "accept.commit", "decline.commit",
          "add.insert", "remove.delete"}

\* chat is for the group calls, user is the sender of a request or the
\* target of a group call, block is the flag of a decline.
Call == [stage : Stage, chat : Chat \cup {NoChat}, user : User \cup {NoUser}, block : BOOLEAN]

Entered(stage, c, u, b) == [stage |-> stage, chat |-> c, user |-> u, block |-> b]
Idle == Entered("idle", NoChat, NoUser, FALSE)

At(w, stage) == call[w].stage = stage
Enter(w, stage, c, u, b) == call' = [call EXCEPT ![w] = Entered(stage, c, u, b)]
Return(w) == call' = [call EXCEPT ![w] = Idle]

TablesTypeOK ==
    /\ kind \in [Chat -> Kind]
    /\ role \in [Chat -> [User -> Role]]
    /\ call \in [Worker -> Call]

TablesInit ==
    /\ kind = [c \in Chat |-> "none"]
    /\ role = [c \in Chat |-> [u \in User |-> "none"]]
    /\ call = [w \in Worker |-> Idle]

\* A transaction that inserts a chat and its first members.
InsertChat(c, k, roles) ==
    /\ kind[c] = "none"
    /\ kind' = [kind EXCEPT ![c] = k]
    /\ role' = [role EXCEPT ![c] = roles]

Members(c) == {u \in User : role[c][u] # "none"}
=============================================================================
