------------------------------ MODULE Folders -------------------------------
(***************************************************************************)
(* Folders of chats (internal/folder/service.go).  A transaction is one    *)
(* step: it writes before it reads.  Names, icons and flags are left out;  *)
(* GetFolders only reads.                                                  *)
(***************************************************************************)
EXTENDS Handlers

CONSTANT Folder       \* folder ids; a deleted one stands for the next fresh one

VARIABLES owner,      \* table chat_folders: the user of each folder
          placeOf,    \* chat_folders.folder_order
          chatsIn,    \* table chat_folder_chats
          arranged    \* history: users who chose a place, or took one that may be taken

folderTables == <<owner, placeOf, chatsIn, arranged>>

FoldersTypeOK ==
    /\ owner \in [Folder -> User \cup {Nothing}]
    /\ placeOf \in [Folder -> Place]
    /\ chatsIn \in [Folder -> SUBSET Chat]
    /\ arranged \in SUBSET User

FoldersInit ==
    /\ owner = [f \in Folder |-> Nothing]
    /\ placeOf = [f \in Folder |-> NoPlace]
    /\ chatsIn = [f \in Folder |-> {}]
    /\ arranged = {}

FoldersOf(u) == {f \in Folder : owner[f] = u}

-----------------------------------------------------------------------------
CreateFolderRead(w) ==
    /\ At(w, "idle")
    /\ ReadPlace(w, "create folder", Nothing, Nothing, {placeOf[f] : f \in FoldersOf(UserOf[w])})
    /\ UNCHANGED folderTables

\* S are the chats asked for whose inserts did not fail: errors are ignored.
CreateFolderCommit(w, f, S) ==
    LET u == UserOf[w] IN
    /\ At(w, "create folder")
    /\ owner[f] = Nothing
    /\ owner' = [owner EXCEPT ![f] = u]
    /\ placeOf' = [placeOf EXCEPT ![f] = call[w].place]
    /\ chatsIn' = [chatsIn EXCEPT ![f] = S]
    /\ arranged' = IF call[w].read = "stale" THEN arranged \cup {u} ELSE arranged
    /\ TakePlace(w)

\* Transactions are rolled back as a whole.
CreateFolderFails(w) ==
    /\ Faults
    /\ At(w, "create folder")
    /\ Return(w)
    /\ UNCHANGED folderTables

UpdatePlace(w, f, place) ==
    IF owner[f] = UserOf[w]
    THEN /\ placeOf' = [placeOf EXCEPT ![f] = place]
         /\ arranged' = arranged \cup {UserOf[w]}
    ELSE UNCHANGED <<placeOf, arranged>>

\* The statements on the chats go by the id of the folder alone; the foreign
\* key refuses chats for a folder that is not there.  The old chats stay if
\* their DELETE fails.
ReplaceChats(f, S) ==
    \/ chatsIn' = [chatsIn EXCEPT ![f] = IF owner[f] = Nothing THEN {} ELSE S]
    \/ Faults /\ chatsIn' = [chatsIn EXCEPT ![f] = IF owner[f] = Nothing THEN @ ELSE @ \cup S]

\* An update has a place, a list of chats, or both.  Errors of its statements
\* are ignored, and it commits.
UpdateFolder(w, f) ==
    /\ At(w, "idle")
    /\ \/ \E place \in 0 .. MaxPlace : UpdatePlace(w, f, place)
       \/ UNCHANGED <<placeOf, arranged>>
    /\ \/ \E S \in SUBSET Chat : ReplaceChats(f, S)
       \/ UNCHANGED chatsIn
    /\ UNCHANGED <<call, owner>>

\* The rows of its chats go with it (ON DELETE CASCADE).
DeleteFolder(w, f) ==
    /\ At(w, "idle")
    /\ owner[f] = UserOf[w]
    /\ owner' = [owner EXCEPT ![f] = Nothing]
    /\ placeOf' = [placeOf EXCEPT ![f] = NoPlace]
    /\ chatsIn' = [chatsIn EXCEPT ![f] = {}]
    /\ UNCHANGED <<call, arranged>>

FoldersNext(w) ==
    \/ CreateFolderRead(w) \/ CreateFolderFails(w)
    \/ \E f \in Folder : \/ \E S \in SUBSET Chat : CreateFolderCommit(w, f, S)
                         \/ UpdateFolder(w, f) \/ DeleteFolder(w, f)
=============================================================================
