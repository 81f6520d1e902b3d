------------------------------ MODULE Settings ------------------------------
(***************************************************************************)
(* The handlers by which users arrange what they see: pins and mutes,      *)
(* folders, contacts.  They share the goroutines, and no table.            *)
(***************************************************************************)
EXTENDS Pins, Folders, Contacts

vars == <<call, pinTables, folderTables, contactTables>>

Stage == {"idle", "create folder", "contact.answer"} \cup PinStage

Call  == [stage : Stage, on : Chat \cup User \cup {Nothing}, arg : Message \cup Id \cup {Nothing},
          place : 0 .. MaxPlace, read : {"good", "stale"}]

TypeOK ==
    /\ call \in [Worker -> Call]
    /\ PinsTypeOK
    /\ FoldersTypeOK
    /\ ContactsTypeOK

Init == HandlersInit /\ PinsInit /\ FoldersInit /\ ContactsInit

\* The process dies: the tables survive, the calls do not.
Crash ==
    /\ Faults
    /\ call' = [w \in Worker |-> Idle]
    /\ PinsCrash
    /\ UNCHANGED <<folderTables, contactTables>>

Next ==
    \/ \E w \in Worker :
          \/ PinsNext(w) /\ UNCHANGED <<folderTables, contactTables>>
          \/ FoldersNext(w) /\ UNCHANGED <<pinTables, contactTables>>
          \/ ContactsNext(w) /\ UNCHANGED <<pinTables, folderTables>>
    \/ Crash

Spec == Init /\ [][Next]_vars

-----------------------------------------------------------------------------
\* No two pinned chats and no two folders of a user have one place
\* (chat/service.go:231, folder/service.go:76), unless two calls of the user
\* overlapped between the lookup and the write, a lookup failed, or the user
\* gave a folder a place.
PlacesDistinct ==
    \A u \in User :
        /\ u \notin doubled =>
              \A c, d \in Pinned(u) : pins[u][c] = pins[u][d] => c = d
        /\ u \notin arranged =>
              \A f, g \in FoldersOf(u) : placeOf[f] = placeOf[g] => f = g

\* When no call is about the pin of a chat, the members see the message that
\* is pinned, unless the last write of it overlapped another or was never
\* announced (chat/handler.go:125, 159).
PinConverges ==
    \A c \in Chat \ strayed : Pinning(c) = {} => shown[c] = Listed(c)

\* PinMessage writes the pin before it looks whether the message is of the
\* chat (chat/service.go:256, 265), and the list shows the content of whatever
\* is written (chat/service.go:57), to members of the chat who may be none of
\* the message's.  This is all that keeps it in bounds: no event tells of such
\* a pin, and as long as the list shows one, the call that wrote it last is
\* yet to find out, or got an error or no answer.  A call that was answered
\* with success has pinned a message of the chat.
ForeignPinsRefused ==
    \A c \in Chat, m \in Message : ChatOf[m] # c =>
        /\ shown[c] # m
        /\ Listed(c) = m => c \in refused \/ Reading(c) # {}

\* Chats are in folders that are there, and only those have a place.
NoOrphans ==
    \A f \in Folder : owner[f] = Nothing => chatsIn[f] = {} /\ placeOf[f] = NoPlace

\* An id that AddContact answered is the id of the row until the row is
\* removed, unless the pair was there before the call.
AnsweredIdHolds ==
    \A a \in answered : contact[a[1]][a[2]] = a[3] \/ a[3] \in void
=============================================================================
