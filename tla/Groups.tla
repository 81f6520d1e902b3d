------------------------------- MODULE Groups -------------------------------
(***************************************************************************)
(* The group service (internal/group/service.go): creation, and adding and *)
(* removing members.  The role of the requester is read in one statement   *)
(* and the row is written in another; neither looks at the type of chat.   *)
(***************************************************************************)
EXTENDS ChatTables

MayManage_AnyMember(w, c) == role[c][UserOf[w]] # "none"
MayManage(w, c) == role[c][UserOf[w]] \in {"owner", "admin"}

\* One transaction; the creator is the owner.
CreateGroup(w, c) ==
    /\ At(w, "idle")
    /\ InsertChat(c, "group", [u \in User |-> IF u = UserOf[w] THEN "owner" ELSE "none"])
    /\ UNCHANGED call

AddMemberCheck(w, c, u) ==
    /\ At(w, "idle")
    /\ MayManage(w, c)
    /\ Enter(w, "add.insert", c, u, FALSE)
    /\ UNCHANGED <<kind, role>>

\* INSERT OR IGNORE: a member keeps the role it has.
AddMemberInsert(w) ==
    /\ At(w, "add.insert")
    /\ role' = [role EXCEPT ![call[w].chat][call[w].user] = IF @ = "none" THEN "member" ELSE @]
    /\ Return(w)
    /\ UNCHANGED kind

RemoveMemberCheck(w, c, u) ==
    /\ At(w, "idle")
    /\ u # UserOf[w]
    /\ MayManage(w, c)
    /\ Enter(w, "remove.delete", c, u, FALSE)
    /\ UNCHANGED <<kind, role>>

RemoveMemberDelete(w) ==
    /\ At(w, "remove.delete")
    /\ role' = [role EXCEPT ![call[w].chat][call[w].user] = "none"]
    /\ Return(w)
    /\ UNCHANGED kind

\* Removing oneself needs no role: whoever wants may leave, the owner too.
Leave(w, c) ==
    /\ At(w, "idle")
    /\ role' = [role EXCEPT ![c][UserOf[w]] = "none"]
    /\ UNCHANGED <<kind, call>>

GroupsNext(w) ==
    \/ \E c \in Chat : CreateGroup(w, c) \/ Leave(w, c)
    \/ \E c \in Chat, u \in User : AddMemberCheck(w, c, u) \/ RemoveMemberCheck(w, c, u)
    \/ AddMemberInsert(w)
    \/ RemoveMemberDelete(w)
=============================================================================
