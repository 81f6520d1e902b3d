---------------------------- MODULE MC_Settings -----------------------------
(***************************************************************************)
(* A small instance of Settings: two goroutines of one user and one of     *)
(* another, two chats with a message each.                                 *)
(***************************************************************************)
EXTENDS Settings

CONSTANTS alice, bob, c1, c2, m1, m2, f1, f2, i1, i2, i3

MCUserOf    == [w \in Worker |-> IF w = 3 THEN bob ELSE alice]
MCChatOf    == [m \in Message |-> IF m = m1 THEN c1 ELSE c2]
MCMembersOf == [c \in Chat |-> IF c = c1 THEN User ELSE {alice}]

\* Chat pins, mutes, pinned messages, folders and contacts share no row: one
\* of them at a time, with bob among the callers for pinned messages only.
MCUsed == {part \in 1 .. 5 :
    CASE part = 1 -> \/ pins # [u \in User |-> [c \in Chat |-> NoPlace]]
                     \/ \E w \in Worker : At(w, "pin chat")
      [] part = 2 -> muted # {}
      [] part = 3 -> \/ strayed # {} \/ refused # {}
                     \/ \E c \in Chat : pinned[c] # Nothing \/ shown[c] # Nothing \/ Pinning(c) # {}
      [] part = 4 -> \/ arranged # {}
                     \/ \E f \in Folder : owner[f] # Nothing
                     \/ \E w \in Worker : At(w, "create folder")
      [] part = 5 -> \/ answered # {} \/ void # {}
                     \/ \E o, u \in User : contact[o][u] # Nothing}
MCAlone ==
    /\ At(3, "idle")
    /\ \A c \in Chat : pins[bob][c] = NoPlace
    /\ \A f \in Folder : owner[f] # bob
    /\ \A u \in User : contact[bob][u] = Nothing
    /\ bob \notin arranged
MCOnePart == MCUsed \in SUBSET {3} \/ (\E part \in 1 .. 5 : MCUsed = {part} /\ MCAlone)
=============================================================================
