--------------------------- MODULE SettingsProof ---------------------------
(***************************************************************************)
(* What is proved of pins, folders and contacts: places are distinct,      *)
(* members see the pin the table has, folders leave nothing behind, and an *)
(* answered id is one of a row, each with the exceptions of its property.  *)
(***************************************************************************)
EXTENDS Settings, WellFoundedInduction, TLAPS

USE HandlersAssumption, PinsAssumption, ContactsAssumption

LEMMA Places ==
    /\ Place \subseteq Int
    /\ \A n \in 0 .. MaxPlace : n # NoPlace /\ n \in Int
    /\ \A i, n \in Int : i < n => i # n
BY DEF Place, NoPlace

\* There is a next place, and it is behind all that are taken.
LEMMA NextPlaceIsBehind ==
    ASSUME NEW taken, taken \subseteq Place
    PROVE  /\ NextPlace(taken) \in 0 .. MaxPlace + 1
           /\ \A i \in taken : i < NextPlace(taken)
<1> DEFINE T == {n \in 0 .. MaxPlace + 1 : \A i \in taken : i < n}
           R == OpToRel(<, Nat)
<1>1. MaxPlace + 1 \in T
  BY DEF Place, NoPlace
<1>2. T \subseteq Nat /\ T # {}
  BY <1>1
<1>3. PICK n \in T : \A m \in T : <<m, n>> \notin R
  <2> HIDE DEF T, R
  <2>1. IsWellFoundedOn(R, Nat)
    BY NatLessThanWellFounded DEF R
  <2> QED
    BY <1>2, <2>1, WFMin
<1>4. \A m \in T : ~ (m < n)
  <2> SUFFICES ASSUME NEW m \in T, m < n PROVE FALSE
    OBVIOUS
  <2>1. <<m, n>> \in R
    BY <1>2 DEF OpToRel
  <2> QED
    BY <1>3, <2>1
<1>5. ASSUME n # 0 PROVE n - 1 \in taken
  <2>1. n - 1 \in 0 .. MaxPlace + 1 /\ n - 1 \notin T
    BY <1>4, <1>5
  <2>2. PICK i \in taken : ~ (i < n - 1)
    BY <2>1
  <2>3. i \in Int /\ i < n
    BY DEF Place, NoPlace
  <2>4. i = n - 1
    BY <2>2, <2>3
  <2> QED
    BY <2>4
<1> QED
  BY <1>5 DEF NextPlace

-----------------------------------------------------------------------------
FolderStage  == {"create folder"}
ContactStage == {"contact.answer"}

\* What a call carries at each stage, from its earlier statements.
SoundCall == {k \in Call :
    /\ k.stage \in PinStage => k.on \in Chat
    /\ k.stage \in {"pin.write", "pin.read", "pin.publish"} => k.arg \in Message
    /\ k.stage = "pin.publish" => ChatOf[k.arg] = k.on
    /\ k.stage \in {"unpin.write", "unpin.publish"} => k.arg = Nothing
    /\ k.stage \in ContactStage => k.on \in User /\ k.arg \in Id}

CallSound == \A w \in Worker : call[w] \in SoundCall

Sound == TypeOK /\ CallSound

\* A step of w with stages S: others of S may find what they read stale.
Moved(w, S) ==
    /\ \/ call'[w] = call[w]
       \/ {call[w].stage, call'[w].stage} \subseteq S \cup {"idle"}
    /\ \A v \in Worker \ {w} :
          \/ call'[v] = call[v]
          \/ call[v].stage \in S /\ call'[v] = [call[v] EXCEPT !.read = "stale"]

\* A step leaves the calls alone that are at one of the stages S, and brings
\* none there.
Kept(S) == \A v \in Worker :
              call[v].stage \in S \/ call'[v].stage \in S => call'[v] = call[v]

LEMMA PlaceRead ==
    ASSUME NEW w \in Worker, NEW stage, NEW on, NEW arg,
           NEW taken, taken \subseteq Place, ReadPlace(w, stage, on, arg, taken)
    PROVE  \E place \in 0 .. MaxPlace, read \in {"good", "stale"} :
              /\ call' = [call EXCEPT ![w] = [stage |-> stage, on |-> on, arg |-> arg,
                                              place |-> place, read |-> read]]
              /\ read = "good" => \A i \in taken : i < place
<1>1. NextPlace(taken) \in 0 .. MaxPlace /\ \A i \in taken : i < NextPlace(taken)
  BY NextPlaceIsBehind DEF ReadPlace
<1>2. CASE call' = [call EXCEPT ![w] = [Entered(stage, on, arg) EXCEPT !.place = NextPlace(taken)]]
  <2>1. [Entered(stage, on, arg) EXCEPT !.place = NextPlace(taken)]
          = [stage |-> stage, on |-> on, arg |-> arg, place |-> NextPlace(taken), read |-> "good"]
    BY DEF Entered
  <2> QED
    BY <1>1, <1>2, <2>1
<1>3. CASE call' = [call EXCEPT ![w] = [Entered(stage, on, arg) EXCEPT !.read = "stale"]]
  <2>1. [Entered(stage, on, arg) EXCEPT !.read = "stale"]
          = [stage |-> stage, on |-> on, arg |-> arg, place |-> 0, read |-> "stale"]
    BY DEF Entered
  <2>2. 0 \in 0 .. MaxPlace
    OBVIOUS
  <2> QED
    BY <1>3, <2>1, <2>2
<1> QED
  BY <1>2, <1>3 DEF ReadPlace

-----------------------------------------------------------------------------
LEMMA EnteredType ==
    ASSUME NEW stage \in Stage, NEW on \in Chat \cup User \cup {Nothing},
           NEW arg \in Message \cup Id \cup {Nothing}
    PROVE  Entered(stage, on, arg) \in Call
BY DEF Entered, Call

LEMMA IdleType == Idle \in Call
BY EnteredType DEF Idle, Stage

LEMMA CallType ==
    ASSUME call \in [Worker -> Call], NEW w \in Worker
    PROVE  /\ \A stage \in Stage, on \in Chat \cup User \cup {Nothing},
                 arg \in Message \cup Id \cup {Nothing} :
                    Begin(w, stage, on, arg) => call' \in [Worker -> Call]
           /\ \A stage \in Stage : Goto(w, stage) => call' \in [Worker -> Call]
           /\ Return(w) \/ TakePlace(w) => call' \in [Worker -> Call]
<1>1. ASSUME NEW stage \in Stage, NEW on \in Chat \cup User \cup {Nothing},
             NEW arg \in Message \cup Id \cup {Nothing}, Begin(w, stage, on, arg)
      PROVE  call' \in [Worker -> Call]
  BY <1>1, EnteredType DEF Begin
<1>2. ASSUME NEW stage \in Stage, Goto(w, stage) PROVE call' \in [Worker -> Call]
  BY <1>2 DEF Goto, Call
<1>3. CASE Return(w)
  BY <1>3, IdleType DEF Return
<1>4. CASE TakePlace(w)
  <2>1. ASSUME NEW v \in Worker PROVE [call[v] EXCEPT !.read = "stale"] \in Call
    BY DEF Call
  <2> QED
    BY <1>4, <2>1, IdleType DEF TakePlace
<1> QED
  BY <1>1, <1>2, <1>3, <1>4

LEMMA ReadType ==
    ASSUME call \in [Worker -> Call], NEW w \in Worker, NEW stage \in Stage,
           NEW on \in Chat \cup {Nothing}, NEW taken, taken \subseteq Place,
           ReadPlace(w, stage, on, Nothing, taken)
    PROVE  call' \in [Worker -> Call]
<1>1. PICK place \in 0 .. MaxPlace, read \in {"good", "stale"} :
         call' = [call EXCEPT ![w] = [stage |-> stage, on |-> on, arg |-> Nothing,
                                      place |-> place, read |-> read]]
  BY PlaceRead
<1>2. [stage |-> stage, on |-> on, arg |-> Nothing, place |-> place, read |-> read] \in Call
  BY DEF Call
<1> QED
  BY <1>1, <1>2

LEMMA InitType == Init => TypeOK
<1> SUFFICES ASSUME Init PROVE TypeOK
  OBVIOUS
<1> USE DEF Init, HandlersInit, PinsInit, FoldersInit, ContactsInit
<1>1. call \in [Worker -> Call]
  BY IdleType
<1>2. PinsTypeOK
  BY DEF PinsTypeOK, Pin, Place, NoPlace
<1>3. FoldersTypeOK
  BY DEF FoldersTypeOK, Place, NoPlace
<1>4. ContactsTypeOK
  BY DEF ContactsTypeOK
<1> QED
  BY <1>1, <1>2, <1>3, <1>4 DEF TypeOK

\* Calls keep their type, whoever moves.
LEMMA PinCallType ==
    ASSUME Sound, NEW w \in Worker, PinsNext(w)
    PROVE  call' \in [Worker -> Call]
<1> USE DEF Sound, TypeOK, Stage, PinStage
<1>1. ASSUME NEW c \in Chat, PinChatRead(w, c) PROVE call' \in [Worker -> Call]
  <2>1. {pins[UserOf[w]][d] : d \in Pinned(UserOf[w])} \subseteq Place
    BY DEF Pinned, PinsTypeOK
  <2> QED
    BY <1>1, <2>1, ReadType DEF PinChatRead
<1>2. ASSUME NEW c \in Chat, UnpinChat(w, c) \/ MuteChat(w, c) \/ UnmuteChat(w, c)
      PROVE  call' \in [Worker -> Call]
  BY <1>2 DEF UnpinChat, MuteChat, UnmuteChat
<1>3. ASSUME NEW c \in Chat, UnpinMessageCheck(w, c) \/ \E m \in Message : PinMessageCheck(w, c, m)
      PROVE  call' \in [Worker -> Call]
  BY <1>3, CallType DEF UnpinMessageCheck, PinMessageCheck
<1>4. CASE PinChatWrite(w) \/ PinMessageRefused(w) \/ PublishPinned(w) \/ PublishUnpinned(w)
             \/ PinStatementFails(w)
  BY <1>4, CallType DEF PinChatWrite, PinMessageRefused, PublishPinned, PublishUnpinned,
     PinStatementFails
<1>5. CASE PinMessageWrite(w) \/ PinMessageRead(w) \/ UnpinMessageWrite(w)
  BY <1>5, CallType DEF PinMessageWrite, PinMessageRead, UnpinMessageWrite
<1> QED
  BY <1>1, <1>2, <1>3, <1>4, <1>5 DEF PinsNext

LEMMA FolderCallType ==
    ASSUME Sound, NEW w \in Worker, FoldersNext(w)
    PROVE  call' \in [Worker -> Call]
<1> USE DEF Sound, TypeOK, Stage
<1>1. CASE CreateFolderRead(w)
  <2>1. {placeOf[f] : f \in FoldersOf(UserOf[w])} \subseteq Place
    BY DEF FoldersOf, FoldersTypeOK
  <2> QED
    BY <1>1, <2>1, ReadType DEF CreateFolderRead
<1>2. ASSUME NEW f \in Folder, \E S \in SUBSET Chat : CreateFolderCommit(w, f, S)
      PROVE  call' \in [Worker -> Call]
  BY <1>2, CallType DEF CreateFolderCommit
<1>3. CASE CreateFolderFails(w)
  BY <1>3, CallType DEF CreateFolderFails
<1>4. ASSUME NEW f \in Folder, UpdateFolder(w, f) \/ DeleteFolder(w, f)
      PROVE  call' \in [Worker -> Call]
  BY <1>4 DEF UpdateFolder, DeleteFolder
<1> QED
  BY <1>1, <1>2, <1>3, <1>4 DEF FoldersNext

LEMMA ContactCallType ==
    ASSUME Sound, NEW w \in Worker, ContactsNext(w)
    PROVE  call' \in [Worker -> Call]
<1> USE DEF Sound, TypeOK, Stage
<1>1. ASSUME NEW u \in User, NEW id \in Id, AddContactInsert(w, u, id) PROVE call' \in [Worker -> Call]
  BY <1>1, CallType DEF AddContactInsert
<1>2. CASE AddContactAnswer(w)
  BY <1>2, CallType DEF AddContactAnswer
<1>3. ASSUME NEW key \in User \cup Id, RemoveContact(w, key) PROVE call' \in [Worker -> Call]
  BY <1>3 DEF RemoveContact
<1> QED
  BY <1>1, <1>2, <1>3 DEF ContactsNext

\* The tables keep their types.
LEMMA PinsType ==
    ASSUME Sound, NEW w \in Worker, PinsNext(w)
    PROVE  PinsTypeOK'
<1> USE DEF Sound, TypeOK, PinsTypeOK, Pin
<1>1. ASSUME NEW c \in Chat, PinChatRead(w, c) PROVE PinsTypeOK'
  BY <1>1 DEF PinChatRead, pinTables
<1>2. CASE PinChatWrite(w)
  <2>1. call[w].on \in Chat
    BY <1>2 DEF PinChatWrite, At, CallSound, SoundCall, PinStage
  <2>2. call[w].place \in Place
    BY DEF Call, Place, NoPlace
  <2> QED
    BY <1>2, <2>1, <2>2 DEF PinChatWrite
<1>3. ASSUME NEW c \in Chat, UnpinChat(w, c) \/ MuteChat(w, c) \/ UnmuteChat(w, c)
      PROVE  PinsTypeOK'
  <2>1. CASE UnpinChat(w, c)
    BY <2>1 DEF UnpinChat, Place, NoPlace
  <2>2. CASE MuteChat(w, c)
    BY <2>2 DEF MuteChat
  <2>3. CASE UnmuteChat(w, c)
    BY <2>3 DEF UnmuteChat
  <2> QED
    BY <1>3, <2>1, <2>2, <2>3
<1>4. ASSUME NEW c \in Chat, UnpinMessageCheck(w, c) \/ \E m \in Message : PinMessageCheck(w, c, m)
      PROVE  PinsTypeOK'
  BY <1>4 DEF UnpinMessageCheck, PinMessageCheck, pinTables
<1>5. CASE PinMessageWrite(w)
  <2>1. call[w].on \in Chat /\ call[w].arg \in Message
    BY <1>5 DEF PinMessageWrite, At, CallSound, SoundCall, PinStage
  <2> QED
    BY <1>5, <2>1 DEF PinMessageWrite, WritePin
<1>6. CASE UnpinMessageWrite(w)
  <2>1. call[w].on \in Chat
    BY <1>6 DEF UnpinMessageWrite, At, CallSound, SoundCall, PinStage
  <2> QED
    BY <1>6, <2>1 DEF UnpinMessageWrite, WritePin
<1>7. CASE PinMessageRead(w)
  BY <1>7 DEF PinMessageRead, pinTables
<1>8. CASE PinMessageRefused(w) \/ PinStatementFails(w)
  <2>1. call[w].on \in Chat
    BY <1>8 DEF PinMessageRefused, PinStatementFails, At, CallSound, SoundCall, PinStage
  <2> QED
    BY <1>8, <2>1 DEF PinMessageRefused, PinStatementFails
<1>9. CASE PublishPinned(w)
  <2>1. call[w].on \in Chat /\ call[w].arg \in Message
    BY <1>9 DEF PublishPinned, At, CallSound, SoundCall, PinStage
  <2> QED
    BY <1>9, <2>1 DEF PublishPinned
<1>10. CASE PublishUnpinned(w)
  BY <1>10 DEF PublishUnpinned
<1> QED
  BY <1>1, <1>2, <1>3, <1>4, <1>5, <1>6, <1>7, <1>8, <1>9, <1>10 DEF PinsNext

LEMMA FoldersType ==
    ASSUME Sound, NEW w \in Worker, FoldersNext(w)
    PROVE  FoldersTypeOK'
<1> USE DEF Sound, TypeOK, FoldersTypeOK
<1>1. CASE CreateFolderRead(w) \/ CreateFolderFails(w)
  BY <1>1 DEF CreateFolderRead, CreateFolderFails, folderTables
<1>2. ASSUME NEW f \in Folder, NEW S \in SUBSET Chat, CreateFolderCommit(w, f, S)
      PROVE  FoldersTypeOK'
  <2>1. call[w].place \in Place
    BY DEF Call, Place, NoPlace
  <2> QED
    BY <1>2, <2>1 DEF CreateFolderCommit
<1>3. ASSUME NEW f \in Folder, UpdateFolder(w, f) PROVE FoldersTypeOK'
  <2>1. 0 .. MaxPlace \subseteq Place
    BY DEF Place, NoPlace
  <2>2. (placeOf \in [Folder -> Place] /\ arranged \in SUBSET User)'
    BY <1>3, <2>1 DEF UpdateFolder, UpdatePlace
  <2>3. (chatsIn \in [Folder -> SUBSET Chat])'
    BY <1>3 DEF UpdateFolder, ReplaceChats
  <2> QED
    BY <1>3, <2>2, <2>3 DEF UpdateFolder
<1>4. ASSUME NEW f \in Folder, DeleteFolder(w, f) PROVE FoldersTypeOK'
  BY <1>4 DEF DeleteFolder, Place, NoPlace
<1> QED
  BY <1>1, <1>2, <1>3, <1>4 DEF FoldersNext

LEMMA ContactsType ==
    ASSUME Sound, NEW w \in Worker, ContactsNext(w)
    PROVE  ContactsTypeOK'
<1> USE DEF Sound, TypeOK, ContactsTypeOK
<1>1. ASSUME NEW u \in User, NEW id \in Id, AddContactInsert(w, u, id) PROVE ContactsTypeOK'
  BY <1>1 DEF AddContactInsert
<1>2. CASE AddContactAnswer(w)
  <2>1. call[w].on \in User /\ call[w].arg \in Id
    BY <1>2 DEF AddContactAnswer, At, CallSound, SoundCall, ContactStage
  <2> QED
    BY <1>2, <2>1 DEF AddContactAnswer
<1>3. ASSUME NEW key \in User \cup Id, RemoveContact(w, key) PROVE ContactsTypeOK'
  BY <1>3 DEF RemoveContact
<1> QED
  BY <1>1, <1>2, <1>3 DEF ContactsNext

-----------------------------------------------------------------------------
\* How the operators of Handlers move calls.
LEMMA Moves ==
    ASSUME call \in [Worker -> Call], NEW w \in Worker, NEW S,
           call[w].stage \in S \cup {"idle"}
    PROVE  /\ UNCHANGED call => Moved(w, S)
           /\ \A on, arg : \A stage \in S : Begin(w, stage, on, arg) => Moved(w, S)
           /\ \A stage \in S : Goto(w, stage) => Moved(w, S)
           /\ Return(w) => Moved(w, S)
           /\ call[w].stage \in S /\ TakePlace(w) => Moved(w, S)
<1> USE DEF Moved
<1>1. UNCHANGED call => Moved(w, S)
  OBVIOUS
<1>2. ASSUME NEW stage \in S, NEW on, NEW arg, Begin(w, stage, on, arg) PROVE Moved(w, S)
  BY <1>2 DEF Begin, Entered
<1>3. ASSUME NEW stage \in S, Goto(w, stage) PROVE Moved(w, S)
  BY <1>3 DEF Goto, Call
<1>4. CASE Return(w)
  BY <1>4 DEF Return, Idle, Entered
<1>5. CASE call[w].stage \in S /\ TakePlace(w)
  BY <1>5 DEF TakePlace, Idle, Entered
<1> QED
  BY <1>1, <1>2, <1>3, <1>4, <1>5

LEMMA PinnedPlaces ==
    ASSUME TypeOK, NEW u \in User
    PROVE  \A c \in Pinned(u) : pins[u][c] \in Place
BY DEF TypeOK, PinsTypeOK, Pinned

LEMMA PlacesOf ==
    ASSUME TypeOK, NEW u \in User
    PROVE  /\ {pins[u][d] : d \in Pinned(u)} \subseteq Place
           /\ {placeOf[f] : f \in FoldersOf(u)} \subseteq Place
BY DEF TypeOK, PinsTypeOK, FoldersTypeOK, Pinned, FoldersOf

LEMMA ChatPlaceRead ==
    ASSUME TypeOK, NEW w \in Worker, NEW c \in Chat, PinChatRead(w, c)
    PROVE  /\ Moved(w, PinStage)
           /\ call'[w].stage = "pin chat" /\ call'[w].on = c
           /\ \A v \in Worker \ {w} : call'[v] = call[v]
           /\ call'[w].read = "good" =>
                 \A d \in Pinned(UserOf[w]) : pins[UserOf[w]][d] < call'[w].place
<1> DEFINE taken == {pins[UserOf[w]][d] : d \in Pinned(UserOf[w])}
           stage == "pin chat"
<1>1. taken \subseteq Place
  BY PlacesOf
<1>2. call[w].stage = "idle" /\ ReadPlace(w, stage, c, Nothing, taken)
  BY DEF PinChatRead, At
<1>3. stage = "pin chat" /\ stage \in PinStage /\ call \in [Worker -> Call]
  BY DEF PinStage, TypeOK
<1>4. \A d \in Pinned(UserOf[w]) : pins[UserOf[w]][d] \in taken
  OBVIOUS
<1> HIDE DEF taken, stage
<1>5. PICK place \in 0 .. MaxPlace, read \in {"good", "stale"} :
         /\ call' = [call EXCEPT ![w] = [stage |-> stage, on |-> c, arg |-> Nothing,
                                         place |-> place, read |-> read]]
         /\ read = "good" => \A i \in taken : i < place
  BY <1>1, <1>2, PlaceRead
<1>6. /\ call'[w] = [stage |-> stage, on |-> c, arg |-> Nothing,
                     place |-> place, read |-> read]
      /\ \A v \in Worker \ {w} : call'[v] = call[v]
  BY <1>3, <1>5
<1>7. call[w].stage = "idle" /\ call'[w].stage = stage
  BY <1>2, <1>6
<1>8. Moved(w, PinStage)
  BY <1>3, <1>6, <1>7 DEF Moved
<1> QED
  BY <1>3, <1>4, <1>5, <1>6, <1>8

LEMMA FolderPlaceRead ==
    ASSUME TypeOK, NEW w \in Worker, CreateFolderRead(w)
    PROVE  /\ Moved(w, FolderStage)
           /\ call'[w].stage = "create folder"
           /\ \A v \in Worker \ {w} : call'[v] = call[v]
           /\ call'[w].read = "good" =>
                 \A f \in FoldersOf(UserOf[w]) : placeOf[f] < call'[w].place
<1> DEFINE taken == {placeOf[f] : f \in FoldersOf(UserOf[w])}
           stage == "create folder"
<1>1. taken \subseteq Place
  BY PlacesOf
<1>2. call[w].stage = "idle" /\ ReadPlace(w, stage, Nothing, Nothing, taken)
  BY DEF CreateFolderRead, At
<1>3. stage = "create folder" /\ stage \in FolderStage /\ call \in [Worker -> Call]
  BY DEF FolderStage, TypeOK
<1>4. \A f \in FoldersOf(UserOf[w]) : placeOf[f] \in taken
  OBVIOUS
<1> HIDE DEF taken, stage
<1>5. PICK place \in 0 .. MaxPlace, read \in {"good", "stale"} :
         /\ call' = [call EXCEPT ![w] = [stage |-> stage, on |-> Nothing, arg |-> Nothing,
                                         place |-> place, read |-> read]]
         /\ read = "good" => \A i \in taken : i < place
  BY <1>1, <1>2, PlaceRead
<1>6. /\ call'[w] = [stage |-> stage, on |-> Nothing, arg |-> Nothing,
                     place |-> place, read |-> read]
      /\ \A v \in Worker \ {w} : call'[v] = call[v]
  BY <1>3, <1>5
<1>7. call[w].stage = "idle" /\ call'[w].stage = stage
  BY <1>2, <1>6
<1>8. Moved(w, FolderStage)
  BY <1>3, <1>6, <1>7 DEF Moved
<1> QED
  BY <1>3, <1>4, <1>5, <1>6, <1>8

LEMMA PinsMove ==
    ASSUME Sound, NEW w \in Worker, PinsNext(w)
    PROVE  Moved(w, PinStage)
<1> USE DEF Sound, TypeOK, PinStage, At
<1>1. ASSUME NEW c \in Chat, PinChatRead(w, c) PROVE Moved(w, PinStage)
  BY <1>1, ChatPlaceRead
<1>2. ASSUME NEW c \in Chat, UnpinChat(w, c) \/ MuteChat(w, c) \/ UnmuteChat(w, c)
      PROVE  Moved(w, PinStage)
  BY <1>2, Moves DEF UnpinChat, MuteChat, UnmuteChat
<1>3. ASSUME NEW c \in Chat, UnpinMessageCheck(w, c) \/ \E m \in Message : PinMessageCheck(w, c, m)
      PROVE  Moved(w, PinStage)
  BY <1>3, Moves DEF UnpinMessageCheck, PinMessageCheck
<1>4. CASE PinChatWrite(w) \/ PinMessageRefused(w) \/ PublishPinned(w) \/ PublishUnpinned(w)
             \/ PinStatementFails(w)
  BY <1>4, Moves DEF PinChatWrite, PinMessageRefused, PublishPinned, PublishUnpinned,
     PinStatementFails
<1>5. CASE PinMessageWrite(w) \/ PinMessageRead(w) \/ UnpinMessageWrite(w)
  BY <1>5, Moves DEF PinMessageWrite, PinMessageRead, UnpinMessageWrite
<1> QED
  BY <1>1, <1>2, <1>3, <1>4, <1>5 DEF PinsNext

LEMMA FoldersMove ==
    ASSUME Sound, NEW w \in Worker, FoldersNext(w)
    PROVE  Moved(w, FolderStage)
<1> USE DEF Sound, TypeOK, FolderStage, At
<1>1. CASE CreateFolderRead(w)
  BY <1>1, FolderPlaceRead
<1>2. ASSUME NEW f \in Folder, \E S \in SUBSET Chat : CreateFolderCommit(w, f, S)
      PROVE  Moved(w, FolderStage)
  BY <1>2, Moves DEF CreateFolderCommit
<1>3. CASE CreateFolderFails(w)
  BY <1>3, Moves DEF CreateFolderFails
<1>4. ASSUME NEW f \in Folder, UpdateFolder(w, f) \/ DeleteFolder(w, f)
      PROVE  Moved(w, FolderStage)
  BY <1>4, Moves DEF UpdateFolder, DeleteFolder
<1> QED
  BY <1>1, <1>2, <1>3, <1>4 DEF FoldersNext

LEMMA ContactsMove ==
    ASSUME Sound, NEW w \in Worker, ContactsNext(w)
    PROVE  Moved(w, ContactStage)
<1> USE DEF Sound, TypeOK, ContactStage, At
<1>1. ASSUME NEW u \in User, NEW id \in Id, AddContactInsert(w, u, id) PROVE Moved(w, ContactStage)
  BY <1>1, Moves DEF AddContactInsert
<1>2. CASE AddContactAnswer(w)
  BY <1>2, Moves DEF AddContactAnswer
<1>3. ASSUME NEW key \in User \cup Id, RemoveContact(w, key) PROVE Moved(w, ContactStage)
  BY <1>3, Moves DEF RemoveContact
<1> QED
  BY <1>1, <1>2, <1>3 DEF ContactsNext

LEMMA MoveKeeps ==
    ASSUME call \in [Worker -> Call], NEW w \in Worker, NEW S, NEW T, Moved(w, S),
           S \cap T = {}, "idle" \notin T
    PROVE  Kept(T)
<1> SUFFICES ASSUME NEW v \in Worker, call[v].stage \in T \/ call'[v].stage \in T
             PROVE  call'[v] = call[v]
  BY DEF Kept
<1>1. [call[v] EXCEPT !.read = "stale"].stage = call[v].stage
  BY DEF Call
<1> QED
  BY <1>1 DEF Moved

-----------------------------------------------------------------------------
LEMMA IdleSound == Idle \in SoundCall /\ Idle.stage = "idle"
<1>1. Idle.stage = "idle"
  BY DEF Idle, Entered
<1> QED
  BY <1>1, IdleType DEF SoundCall, PinStage, ContactStage

LEMMA InitSound == Init => CallSound
BY IdleSound DEF Init, HandlersInit, CallSound

LEMMA MoveSound ==
    ASSUME Sound, NEW w \in Worker, NEW S, Moved(w, S), call'[w] \in SoundCall
    PROVE  CallSound'
<1> SUFFICES ASSUME NEW v \in Worker, v # w PROVE call'[v] \in SoundCall
  BY DEF CallSound, SoundCall
<1>1. CASE call'[v] = call[v]
  BY <1>1 DEF Sound, CallSound
<1>2. CASE call'[v] = [call[v] EXCEPT !.read = "stale"]
  <2>1. call'[v] \in Call /\ call'[v].stage = call[v].stage /\ call'[v].on = call[v].on /\ call'[v].arg = call[v].arg
    BY <1>2 DEF Sound, TypeOK, Call
  <2>2. call[v] \in SoundCall
    BY DEF Sound, CallSound
  <2> QED
    BY <2>1, <2>2 DEF SoundCall
<1> QED
  BY <1>1, <1>2 DEF Moved

LEMMA PinsSound ==
    ASSUME Sound, NEW w \in Worker, PinsNext(w)
    PROVE  CallSound'
<1>0. call'[w] \in Call
  BY PinCallType
<1>1. call[w] \in SoundCall /\ call \in [Worker -> Call] /\ call[w] \in Call
  BY DEF Sound, CallSound, TypeOK
<1>2. ASSUME NEW c \in Chat, PinChatRead(w, c) PROVE call'[w] \in SoundCall
  BY <1>0, <1>2, ChatPlaceRead DEF Sound, SoundCall, PinStage, ContactStage
<1>3. ASSUME NEW c \in Chat, UnpinChat(w, c) \/ MuteChat(w, c) \/ UnmuteChat(w, c)
      PROVE  call'[w] \in SoundCall
  BY <1>1, <1>3 DEF UnpinChat, MuteChat, UnmuteChat
<1>4. ASSUME NEW c \in Chat, UnpinMessageCheck(w, c) PROVE call'[w] \in SoundCall
  BY <1>0, <1>1, <1>4 DEF UnpinMessageCheck, Begin, Entered, SoundCall, PinStage, ContactStage
<1>5. ASSUME NEW c \in Chat, NEW m \in Message, PinMessageCheck(w, c, m) PROVE call'[w] \in SoundCall
  BY <1>0, <1>1, <1>5 DEF PinMessageCheck, Begin, Entered, SoundCall, PinStage, ContactStage
<1>6. ASSUME PinChatWrite(w) \/ PinMessageRefused(w) \/ PublishPinned(w) \/ PublishUnpinned(w)
             \/ PinStatementFails(w)
      PROVE  call'[w] \in SoundCall
  BY <1>1, <1>6, IdleSound DEF PinChatWrite, PinMessageRefused, PublishPinned, PublishUnpinned,
     PinStatementFails, Return, TakePlace
<1>7. ASSUME NEW stage \in {"pin.read", "pin.publish", "unpin.publish"}, Goto(w, stage)
      PROVE  /\ call'[w].stage = stage
             /\ call'[w].on = call[w].on /\ call'[w].arg = call[w].arg
  BY <1>1, <1>7 DEF Goto, Call
<1>8. ASSUME PinMessageWrite(w)
      PROVE  call'[w] \in SoundCall
  BY <1>0, <1>1, <1>7, <1>8 DEF PinMessageWrite, At, SoundCall, PinStage, ContactStage
<1>9. ASSUME PinMessageRead(w)
      PROVE  call'[w] \in SoundCall
  BY <1>0, <1>1, <1>7, <1>9 DEF PinMessageRead, At, SoundCall, PinStage, ContactStage
<1>10. ASSUME UnpinMessageWrite(w)
       PROVE  call'[w] \in SoundCall
  BY <1>0, <1>1, <1>7, <1>10 DEF UnpinMessageWrite, At, SoundCall, PinStage, ContactStage
<1>11. call'[w] \in SoundCall
  BY <1>2, <1>3, <1>4, <1>5, <1>6, <1>8, <1>9, <1>10 DEF PinsNext
<1> QED
  BY <1>11, PinsMove, MoveSound

LEMMA FoldersSound ==
    ASSUME Sound, NEW w \in Worker, FoldersNext(w)
    PROVE  CallSound'
<1>0. call'[w] \in Call
  BY FolderCallType
<1>1. call[w] \in SoundCall /\ call \in [Worker -> Call]
  BY DEF Sound, CallSound, TypeOK
<1>2. ASSUME CreateFolderRead(w)
      PROVE  call'[w] \in SoundCall
  BY <1>0, <1>2, FolderPlaceRead DEF Sound, SoundCall, PinStage, ContactStage
<1>3. ASSUME CreateFolderFails(w)
      PROVE  call'[w] \in SoundCall
  BY <1>1, <1>3, IdleSound DEF CreateFolderFails, Return
<1>4. ASSUME NEW f \in Folder, NEW S \in SUBSET Chat, CreateFolderCommit(w, f, S)
      PROVE  call'[w] \in SoundCall
  BY <1>1, <1>4, IdleSound DEF CreateFolderCommit, TakePlace
<1>5. ASSUME NEW f \in Folder, UpdateFolder(w, f) \/ DeleteFolder(w, f) PROVE call'[w] \in SoundCall
  BY <1>1, <1>5 DEF UpdateFolder, DeleteFolder
<1>6. call'[w] \in SoundCall
  BY <1>2, <1>3, <1>4, <1>5 DEF FoldersNext
<1> QED
  BY <1>6, FoldersMove, MoveSound

LEMMA ContactsSound ==
    ASSUME Sound, NEW w \in Worker, ContactsNext(w)
    PROVE  CallSound'
<1>0. call'[w] \in Call
  BY ContactCallType
<1>1. call[w] \in SoundCall /\ call \in [Worker -> Call]
  BY DEF Sound, CallSound, TypeOK
<1>2. ASSUME NEW u \in User, NEW id \in Id, AddContactInsert(w, u, id) PROVE call'[w] \in SoundCall
  BY <1>0, <1>1, <1>2 DEF AddContactInsert, Begin, Entered, SoundCall, PinStage, ContactStage
<1>3. ASSUME AddContactAnswer(w)
      PROVE  call'[w] \in SoundCall
  BY <1>1, <1>3, IdleSound DEF AddContactAnswer, Return
<1>4. ASSUME NEW key \in User \cup Id, RemoveContact(w, key) PROVE call'[w] \in SoundCall
  BY <1>1, <1>4 DEF RemoveContact
<1>5. call'[w] \in SoundCall
  BY <1>2, <1>3, <1>4 DEF ContactsNext
<1> QED
  BY <1>5, ContactsMove, MoveSound

LEMMA InitSettings == Init => Sound
BY InitType, InitSound DEF Sound

LEMMA NextSettings ==
    ASSUME Sound, [Next]_vars
    PROVE  Sound'
<1>1. CASE UNCHANGED vars
  <2>1. TypeOK'
    BY <1>1 DEF Sound, TypeOK, vars, pinTables, folderTables, contactTables, PinsTypeOK,
       FoldersTypeOK, ContactsTypeOK
  <2>2. CallSound'
    BY <1>1 DEF Sound, CallSound, SoundCall, vars
  <2> QED
    BY <2>1, <2>2 DEF Sound
<1>2. ASSUME NEW w \in Worker, PinsNext(w), UNCHANGED <<folderTables, contactTables>> PROVE Sound'
  <2>1. FoldersTypeOK' /\ ContactsTypeOK'
    BY <1>2 DEF Sound, TypeOK, folderTables, contactTables, FoldersTypeOK, ContactsTypeOK
  <2> QED
    BY <1>2, <2>1, PinCallType, PinsType, PinsSound DEF Sound, TypeOK
<1>3. ASSUME NEW w \in Worker, FoldersNext(w), UNCHANGED <<pinTables, contactTables>> PROVE Sound'
  <2>1. PinsTypeOK' /\ ContactsTypeOK'
    BY <1>3 DEF Sound, TypeOK, pinTables, contactTables, PinsTypeOK, ContactsTypeOK
  <2> QED
    BY <1>3, <2>1, FolderCallType, FoldersType, FoldersSound DEF Sound, TypeOK
<1>4. ASSUME NEW w \in Worker, ContactsNext(w), UNCHANGED <<pinTables, folderTables>> PROVE Sound'
  <2>1. PinsTypeOK' /\ FoldersTypeOK'
    BY <1>4 DEF Sound, TypeOK, pinTables, folderTables, PinsTypeOK, FoldersTypeOK
  <2> QED
    BY <1>4, <2>1, ContactCallType, ContactsType, ContactsSound DEF Sound, TypeOK
<1>5. CASE Crash
  <2>1. call' = [w \in Worker |-> Idle]
    BY <1>5 DEF Crash
  <2>2. call' \in [Worker -> Call] /\ CallSound'
    BY <2>1, IdleType DEF CallSound, SoundCall, Idle, Entered, PinStage, ContactStage
  <2>3. PinsTypeOK'
    BY <1>5 DEF Crash, PinsCrash, Sound, TypeOK, PinsTypeOK
  <2>4. FoldersTypeOK' /\ ContactsTypeOK'
    BY <1>5 DEF Crash, Sound, TypeOK, folderTables, contactTables, FoldersTypeOK, ContactsTypeOK
  <2> QED
    BY <2>2, <2>3, <2>4 DEF Sound, TypeOK
<1> QED
  BY <1>1, <1>2, <1>3, <1>4, <1>5 DEF Next

-----------------------------------------------------------------------------
\* What a step is to one of the three parts.
LEMMA PinKinds ==
    ASSUME Sound, [Next]_vars
    PROVE  \/ \E w \in Worker : PinsNext(w)
           \/ UNCHANGED pinTables /\ Kept(PinStage)
           \/ PinsCrash /\ call' = [w \in Worker |-> Idle]
<1>1. CASE UNCHANGED vars
  BY <1>1 DEF vars, Kept
<1>2. ASSUME NEW w \in Worker, FoldersNext(w), UNCHANGED pinTables PROVE Kept(PinStage)
  BY <1>2, FoldersMove, MoveKeeps DEF Sound, TypeOK, FolderStage, PinStage
<1>3. ASSUME NEW w \in Worker, ContactsNext(w), UNCHANGED pinTables PROVE Kept(PinStage)
  BY <1>3, ContactsMove, MoveKeeps DEF Sound, TypeOK, ContactStage, PinStage
<1> QED
  BY <1>1, <1>2, <1>3 DEF Next, Crash

LEMMA FolderKinds ==
    ASSUME Sound, [Next]_vars
    PROVE  \/ \E w \in Worker : FoldersNext(w)
           \/ UNCHANGED folderTables /\ Kept(FolderStage)
           \/ UNCHANGED folderTables /\ call' = [w \in Worker |-> Idle]
<1>1. CASE UNCHANGED vars
  BY <1>1 DEF vars, Kept
<1>2. ASSUME NEW w \in Worker, PinsNext(w), UNCHANGED folderTables PROVE Kept(FolderStage)
  BY <1>2, PinsMove, MoveKeeps DEF Sound, TypeOK, FolderStage, PinStage
<1>3. ASSUME NEW w \in Worker, ContactsNext(w), UNCHANGED folderTables PROVE Kept(FolderStage)
  BY <1>3, ContactsMove, MoveKeeps DEF Sound, TypeOK, ContactStage, FolderStage
<1> QED
  BY <1>1, <1>2, <1>3 DEF Next, Crash

LEMMA ContactKinds ==
    ASSUME Sound, [Next]_vars
    PROVE  \/ \E w \in Worker : ContactsNext(w)
           \/ UNCHANGED contactTables /\ Kept(ContactStage)
           \/ UNCHANGED contactTables /\ call' = [w \in Worker |-> Idle]
<1>1. CASE UNCHANGED vars
  BY <1>1 DEF vars, Kept
<1>2. ASSUME NEW w \in Worker, PinsNext(w), UNCHANGED contactTables PROVE Kept(ContactStage)
  BY <1>2, PinsMove, MoveKeeps DEF Sound, TypeOK, ContactStage, PinStage
<1>3. ASSUME NEW w \in Worker, FoldersNext(w), UNCHANGED contactTables PROVE Kept(ContactStage)
  BY <1>3, FoldersMove, MoveKeeps DEF Sound, TypeOK, ContactStage, FolderStage
<1> QED
  BY <1>1, <1>2, <1>3 DEF Next, Crash

-----------------------------------------------------------------------------
\* The place that a call will take is behind the chats that are pinned, as
\* long as no other call of the user has taken one.
PinsBehind ==
    \A w \in Worker : call[w].stage = "pin chat" /\ call[w].read = "good" =>
        \A c \in Pinned(UserOf[w]) : pins[UserOf[w]][c] < call[w].place

ChatsDistinct ==
    \A u \in User \ doubled : \A c, d \in Pinned(u) : pins[u][c] = pins[u][d] => c = d

ChatInv == PinsBehind /\ ChatsDistinct

LEMMA ChatIdle ==
    ASSUME ChatInv, pins' = pins, doubled' = doubled,
           \A v \in Worker : call'[v].stage = "pin chat" => call'[v] = call[v]
    PROVE  ChatInv'
BY DEF ChatInv, PinsBehind, ChatsDistinct, Pinned

LEMMA ChatWrite ==
    ASSUME Sound, ChatInv, NEW w \in Worker, PinChatWrite(w)
    PROVE  ChatInv'
<1> DEFINE u == UserOf[w]
           c == call[w].on
           n == call[w].place
<1>1. /\ u \in User /\ c \in Chat /\ n \in 0 .. MaxPlace /\ call[w].stage = "pin chat"
      /\ call[w].read \in {"good", "stale"}
  BY DEF PinChatWrite, At, Sound, TypeOK, Call, CallSound, SoundCall, PinStage
<1>2. pins \in [User -> [Chat -> Place]]
  BY DEF Sound, TypeOK, PinsTypeOK
<1>3. pins' = [pins EXCEPT ![u][c] = n]
  BY DEF PinChatWrite
<1>4. \A v \in User \ {u} : pins'[v] = pins[v] /\ Pinned(v)' = Pinned(v)
  BY <1>1, <1>2, <1>3 DEF Pinned
<1>5. /\ \A d \in Chat \ {c} : pins'[u][d] = pins[u][d]
      /\ pins'[u][c] = n
      /\ Pinned(u)' = Pinned(u) \cup {c}
  <2>1. \A d \in Chat \ {c} : pins'[u][d] = pins[u][d]
    BY <1>1, <1>2, <1>3
  <2>2. pins'[u][c] = n
    BY <1>1, <1>2, <1>3
  <2>3. n # NoPlace
    BY <1>1, Places
  <2> QED
    BY <1>1, <2>1, <2>2, <2>3 DEF Pinned
<1>6. ASSUME NEW v \in Worker, call'[v].stage = "pin chat", call'[v].read = "good"
      PROVE  UserOf[v] # u /\ call'[v] = call[v]
  <2>1. v # w
    BY <1>6, IdleSound DEF PinChatWrite, TakePlace, Sound, TypeOK
  <2>2. CASE UserOf[v] = u /\ call[v].stage = "pin chat"
    <3>1. call'[v] = [call[v] EXCEPT !.read = "stale"]
      BY <1>1, <2>1, <2>2 DEF PinChatWrite, TakePlace
    <3>2. call'[v].read = "stale"
      BY <3>1 DEF Sound, TypeOK, Call
    <3> QED
      BY <1>6, <3>2
  <2>3. CASE ~ (UserOf[v] = u /\ call[v].stage = "pin chat")
    BY <1>1, <1>6, <2>1, <2>3 DEF PinChatWrite, TakePlace
  <2> QED
    BY <2>2, <2>3
<1>7. PinsBehind'
  <2> SUFFICES ASSUME NEW v \in Worker, call'[v].stage = "pin chat", call'[v].read = "good",
                      NEW d \in Pinned(UserOf[v])'
               PROVE  pins'[UserOf[v]][d] < call'[v].place
    BY DEF PinsBehind
  <2>1. UserOf[v] \in User \ {u} /\ call'[v] = call[v]
    BY <1>6
  <2>2. pins'[UserOf[v]] = pins[UserOf[v]] /\ d \in Pinned(UserOf[v])
    BY <1>4, <2>1
  <2> QED
    BY <2>1, <2>2 DEF ChatInv, PinsBehind
<1>8. ChatsDistinct'
  <2> SUFFICES ASSUME NEW v \in User, v \notin doubled', NEW d \in Pinned(v)', NEW e \in Pinned(v)',
                      pins'[v][d] = pins'[v][e]
               PROVE  d = e
    BY DEF ChatsDistinct
  <2>1. v \notin doubled
    BY DEF PinChatWrite
  <2>2. CASE v # u
    BY <1>4, <2>1, <2>2 DEF ChatInv, ChatsDistinct
  <2>3. CASE v = u
    <3>1. call[w].read = "good"
      BY <1>1, <2>3 DEF PinChatWrite
    <3>2. \A x \in Pinned(u) : pins[u][x] < n
      BY <1>1, <3>1 DEF ChatInv, PinsBehind
    <3>3. \A x \in Pinned(u) : pins[u][x] \in Int /\ pins[u][x] # n
      <4>1. \A x \in Pinned(u) : pins[u][x] \in Place
        BY <1>1, PinnedPlaces DEF Sound
      <4>2. n \in Int
        BY <1>1, Places
      <4> QED
        BY <3>2, <4>1, <4>2, Places
    <3>4. {d, e} \subseteq Chat /\ {d, e} \subseteq Pinned(u) \cup {c}
      BY <1>5, <2>3 DEF Pinned
    <3>5. CASE d = c \/ e = c
      BY <1>5, <2>3, <3>3, <3>4, <3>5
    <3>6. CASE d # c /\ e # c
      BY <1>1, <1>5, <2>1, <2>3, <3>4, <3>6 DEF ChatInv, ChatsDistinct
    <3> QED
      BY <3>5, <3>6
  <2> QED
    BY <2>2, <2>3
<1> QED
  BY <1>7, <1>8 DEF ChatInv

LEMMA NextChat ==
    ASSUME Sound, ChatInv, [Next]_vars
    PROVE  ChatInv'
<1> USE DEF Sound, TypeOK, At
<1>1. CASE UNCHANGED pinTables /\ Kept(PinStage)
  BY <1>1, ChatIdle DEF pinTables, Kept, PinStage
<1>2. CASE PinsCrash /\ call' = [w \in Worker |-> Idle]
  BY <1>2, ChatIdle, IdleSound DEF PinsCrash
<1>3. ASSUME NEW w \in Worker, PinsNext(w) PROVE ChatInv'
  <2>1. ASSUME NEW c \in Chat, PinChatRead(w, c) PROVE ChatInv'
    <3>1. UNCHANGED pinTables
      BY <2>1 DEF PinChatRead
    <3>2. \A u : Pinned(u)' = Pinned(u)
      BY <3>1 DEF pinTables, Pinned
    <3>3. \A v \in Worker \ {w} : call'[v] = call[v]
      BY <2>1, ChatPlaceRead
    <3>4. call'[w].read = "good" =>
             \A d \in Pinned(UserOf[w]) : pins[UserOf[w]][d] < call'[w].place
      BY <2>1, ChatPlaceRead
    <3>5. PinsBehind'
      BY <3>1, <3>2, <3>3, <3>4 DEF pinTables, ChatInv, PinsBehind
    <3>6. ChatsDistinct'
      BY <3>1, <3>2 DEF pinTables, ChatInv, ChatsDistinct
    <3> QED
      BY <3>5, <3>6 DEF ChatInv
  <2>2. CASE PinChatWrite(w)
    BY <2>2, ChatWrite
  <2>3. ASSUME NEW c \in Chat, UnpinChat(w, c) PROVE ChatInv'
    <3>1. UNCHANGED <<call, doubled>> /\ pins' = [pins EXCEPT ![UserOf[w]][c] = NoPlace]
      BY <2>3 DEF UnpinChat
    <3>2. \A u \in User : /\ Pinned(u)' \subseteq Pinned(u)
                          /\ \A d \in Pinned(u)' : pins'[u][d] = pins[u][d]
      BY <3>1 DEF PinsTypeOK, Pinned
    <3>3. \A v \in Worker : UserOf[v] \in User
      OBVIOUS
    <3>4. PinsBehind'
      <4> SUFFICES ASSUME NEW v \in Worker, call[v].stage = "pin chat", call[v].read = "good",
                          NEW d \in Pinned(UserOf[v])'
                   PROVE  pins'[UserOf[v]][d] < call[v].place
        BY <3>1 DEF PinsBehind
      <4>1. d \in Pinned(UserOf[v]) /\ pins'[UserOf[v]][d] = pins[UserOf[v]][d]
        BY <3>2, <3>3
      <4> QED
        BY <4>1 DEF ChatInv, PinsBehind
    <3>5. ChatsDistinct'
      BY <3>1, <3>2 DEF ChatInv, ChatsDistinct
    <3> QED
      BY <3>4, <3>5 DEF ChatInv
  <2>4. ASSUME NEW c \in Chat, MuteChat(w, c) \/ UnmuteChat(w, c) PROVE ChatInv'
    BY <2>4, ChatIdle DEF MuteChat, UnmuteChat
  <2>5. ASSUME NEW c \in Chat, UnpinMessageCheck(w, c) \/ \E m \in Message : PinMessageCheck(w, c, m)
        PROVE  ChatInv'
    <3>1. UNCHANGED pinTables
      BY <2>5 DEF UnpinMessageCheck, PinMessageCheck
    <3>2. call'[w].stage # "pin chat" /\ \A v \in Worker \ {w} : call'[v] = call[v]
      <4>1. CASE UnpinMessageCheck(w, c)
        BY <4>1 DEF UnpinMessageCheck, Begin, Entered
      <4>2. ASSUME NEW m \in Message, PinMessageCheck(w, c, m)
            PROVE  call'[w].stage # "pin chat" /\ \A v \in Worker \ {w} : call'[v] = call[v]
        BY <4>2 DEF PinMessageCheck, Begin, Entered
      <4> QED
        BY <2>5, <4>1, <4>2
    <3> QED
      BY <3>1, <3>2, ChatIdle DEF pinTables
  <2>6. CASE PinMessageRefused(w) \/ PublishPinned(w) \/ PublishUnpinned(w) \/ PinStatementFails(w)
    BY <2>6, ChatIdle, IdleSound DEF PinMessageRefused, PublishPinned, PublishUnpinned,
       PinStatementFails, Return
  <2>7. CASE PinMessageWrite(w) \/ PinMessageRead(w) \/ UnpinMessageWrite(w)
    <3>1. \A v \in Worker : call'[v].stage = "pin chat" => call'[v] = call[v]
      BY <2>7 DEF PinMessageWrite, PinMessageRead, UnpinMessageWrite, Goto, Call
    <3> QED
      BY <2>7, <3>1, ChatIdle DEF PinMessageWrite, PinMessageRead, UnpinMessageWrite, pinTables
  <2> QED
    BY <1>3, <2>1, <2>2, <2>3, <2>4, <2>5, <2>6, <2>7 DEF PinsNext
<1> QED
  BY <1>1, <1>2, <1>3, PinKinds

-----------------------------------------------------------------------------
\* The same of folders, for users who have not chosen a place themselves.
FoldersBehind ==
    \A w \in Worker :
        call[w].stage = "create folder" /\ call[w].read = "good" /\ UserOf[w] \notin arranged =>
            \A f \in FoldersOf(UserOf[w]) : placeOf[f] < call[w].place

FoldersDistinct ==
    \A u \in User \ arranged : \A f, g \in FoldersOf(u) : placeOf[f] = placeOf[g] => f = g

FolderInv == FoldersBehind /\ FoldersDistinct /\ NoOrphans

\* Folders may go, and the places of users who are arranged change.
LEMMA FolderLoss ==
    ASSUME FoldersBehind, FoldersDistinct, arranged \subseteq arranged',
           \A u \in User \ arranged' :
              /\ FoldersOf(u)' \subseteq FoldersOf(u)
              /\ \A f \in FoldersOf(u)' : placeOf'[f] = placeOf[f],
           \A v \in Worker : call'[v].stage = "create folder" => call'[v] = call[v]
    PROVE  FoldersBehind' /\ FoldersDistinct'
<1>1. \A v \in Worker : UserOf[v] \in User
  OBVIOUS
<1>2. FoldersBehind'
  BY <1>1 DEF FoldersBehind
<1>3. FoldersDistinct'
  BY DEF FoldersDistinct
<1> QED
  BY <1>2, <1>3

LEMMA FolderCommit ==
    ASSUME Sound, FolderInv, NEW w \in Worker, NEW f \in Folder, NEW S \in SUBSET Chat,
           CreateFolderCommit(w, f, S)
    PROVE  FolderInv'
<1> DEFINE u == UserOf[w]
           n == call[w].place
<1>1. /\ u \in User /\ n \in 0 .. MaxPlace /\ call[w].stage = "create folder"
      /\ call[w].read \in {"good", "stale"} /\ owner[f] = Nothing
  BY DEF CreateFolderCommit, At, Sound, TypeOK, Call
<1>2. owner \in [Folder -> User \cup {Nothing}] /\ placeOf \in [Folder -> Place]
      /\ chatsIn \in [Folder -> SUBSET Chat]
  BY DEF Sound, TypeOK, FoldersTypeOK
<1>3. /\ owner' = [owner EXCEPT ![f] = u] /\ placeOf' = [placeOf EXCEPT ![f] = n]
      /\ chatsIn' = [chatsIn EXCEPT ![f] = S]
  BY DEF CreateFolderCommit
<1>4. \A v \in User \ {u} : FoldersOf(v)' = FoldersOf(v)
  BY <1>1, <1>2, <1>3 DEF FoldersOf
<1>5. /\ \A g \in Folder \ {f} : placeOf'[g] = placeOf[g]
      /\ placeOf'[f] = n
  BY <1>1, <1>2, <1>3
<1>6. FoldersOf(u)' = FoldersOf(u) \cup {f} /\ \A v \in User : f \notin FoldersOf(v)
  BY <1>1, <1>2, <1>3 DEF FoldersOf
<1>7. ASSUME NEW v \in Worker, call'[v].stage = "create folder", call'[v].read = "good"
      PROVE  UserOf[v] # u /\ call'[v] = call[v]
  <2>1. v # w
    BY <1>7, IdleSound DEF CreateFolderCommit, TakePlace, Sound, TypeOK
  <2>2. CASE UserOf[v] = u /\ call[v].stage = "create folder"
    <3>1. call'[v] = [call[v] EXCEPT !.read = "stale"]
      BY <1>1, <2>1, <2>2 DEF CreateFolderCommit, TakePlace
    <3>2. call'[v].read = "stale"
      BY <3>1 DEF Sound, TypeOK, Call
    <3> QED
      BY <1>7, <3>2
  <2>3. CASE ~ (UserOf[v] = u /\ call[v].stage = "create folder")
    BY <1>1, <1>7, <2>1, <2>3 DEF CreateFolderCommit, TakePlace
  <2> QED
    BY <2>2, <2>3
<1>8. arranged \subseteq arranged' /\ (u \notin arranged' => call[w].read = "good")
  BY <1>1 DEF CreateFolderCommit
<1>9. FoldersBehind'
  <2> SUFFICES ASSUME NEW v \in Worker, call'[v].stage = "create folder", call'[v].read = "good",
                      UserOf[v] \notin arranged', NEW g \in FoldersOf(UserOf[v])'
               PROVE  placeOf'[g] < call'[v].place
    BY DEF FoldersBehind
  <2>1. UserOf[v] \in User \ {u} /\ call'[v] = call[v] /\ UserOf[v] \notin arranged
    BY <1>7, <1>8
  <2>2. g \in FoldersOf(UserOf[v]) /\ g \in Folder \ {f}
    BY <1>4, <1>6, <2>1 DEF FoldersOf
  <2> QED
    BY <1>5, <2>1, <2>2 DEF FolderInv, FoldersBehind
<1>10. FoldersDistinct'
  <2> SUFFICES ASSUME NEW v \in User, v \notin arranged', NEW g \in FoldersOf(v)',
                      NEW h \in FoldersOf(v)', placeOf'[g] = placeOf'[h]
               PROVE  g = h
    BY DEF FoldersDistinct
  <2>1. v \notin arranged /\ {g, h} \subseteq Folder
    BY <1>8 DEF FoldersOf
  <2>2. CASE v # u
    <3>1. {g, h} \subseteq FoldersOf(v) \ {f}
      BY <1>4, <1>6, <2>2
    <3> QED
      BY <1>5, <2>1, <3>1 DEF FolderInv, FoldersDistinct
  <2>3. CASE v = u
    <3>1. \A x \in FoldersOf(u) : placeOf[x] < n
      BY <1>1, <1>8, <2>1, <2>3 DEF FolderInv, FoldersBehind
    <3>2. n \in Int /\ \A x \in FoldersOf(u) : placeOf[x] \in Place
      BY <1>1, <1>2, Places DEF FoldersOf
    <3>3. \A x \in FoldersOf(u) : placeOf[x] # n
      BY <3>1, <3>2, Places
    <3>4. {g, h} \subseteq FoldersOf(u) \cup {f}
      BY <1>6, <2>3
    <3>5. CASE g = f \/ h = f
      BY <1>5, <2>1, <3>3, <3>4, <3>5
    <3>6. CASE g # f /\ h # f
      BY <1>1, <1>5, <2>1, <2>3, <3>4, <3>6 DEF FolderInv, FoldersDistinct
    <3> QED
      BY <3>5, <3>6
  <2> QED
    BY <2>2, <2>3
<1>11. NoOrphans'
  BY <1>1, <1>2, <1>3 DEF FolderInv, NoOrphans
<1> QED
  BY <1>9, <1>10, <1>11 DEF FolderInv

LEMMA FolderUpdate ==
    ASSUME Sound, FolderInv, NEW w \in Worker, NEW f \in Folder, UpdateFolder(w, f)
    PROVE  FolderInv'
<1>1. owner' = owner /\ call' = call
  BY DEF UpdateFolder
<1>2. /\ arranged \subseteq arranged'
      /\ \A g \in Folder \ {f} : placeOf'[g] = placeOf[g]
      /\ \/ placeOf'[f] = placeOf[f]
         \/ owner[f] = UserOf[w] /\ UserOf[w] \in arranged'
  <2>1. CASE UNCHANGED <<placeOf, arranged>>
    BY <2>1
  <2>2. ASSUME NEW place \in 0 .. MaxPlace, owner[f] = UserOf[w],
               placeOf' = [placeOf EXCEPT ![f] = place], arranged' = arranged \cup {UserOf[w]}
        PROVE  /\ arranged \subseteq arranged' /\ UserOf[w] \in arranged'
               /\ \A g \in Folder \ {f} : placeOf'[g] = placeOf[g]
    BY <2>2 DEF Sound, TypeOK, FoldersTypeOK
  <2> QED
    BY <2>1, <2>2 DEF UpdateFolder, UpdatePlace
<1>3. FoldersBehind' /\ FoldersDistinct'
  <2>1. ASSUME NEW u \in User, u \notin arranged'
        PROVE  /\ FoldersOf(u)' = FoldersOf(u)
               /\ \A g \in FoldersOf(u)' : placeOf'[g] = placeOf[g]
    BY <1>1, <1>2, <2>1 DEF FoldersOf
  <2> QED
    BY <1>1, <1>2, <2>1, FolderLoss DEF FolderInv
<1>4. NoOrphans'
  <2>1. \A g \in Folder : owner[g] = Nothing => chatsIn'[g] = {}
    BY DEF UpdateFolder, ReplaceChats, Sound, TypeOK, FoldersTypeOK, FolderInv, NoOrphans
  <2>2. \A g \in Folder : owner[g] = Nothing => placeOf'[g] = placeOf[g]
    BY <1>2
  <2> QED
    BY <1>1, <2>1, <2>2 DEF FolderInv, NoOrphans
<1> QED
  BY <1>3, <1>4 DEF FolderInv

LEMMA NextFolder ==
    ASSUME Sound, FolderInv, [Next]_vars
    PROVE  FolderInv'
<1>1. ASSUME UNCHANGED folderTables,
             \A v \in Worker : call'[v].stage = "create folder" => call'[v] = call[v]
      PROVE  FolderInv'
  <2>1. FoldersBehind' /\ FoldersDistinct'
    BY <1>1, FolderLoss DEF folderTables, FoldersOf, FolderInv
  <2> QED
    BY <1>1, <2>1 DEF folderTables, FolderInv, NoOrphans
<1>2. CASE UNCHANGED folderTables /\ Kept(FolderStage)
  BY <1>1, <1>2 DEF Kept, FolderStage
<1>3. CASE UNCHANGED folderTables /\ call' = [w \in Worker |-> Idle]
  BY <1>1, <1>3, IdleSound
<1>4. ASSUME NEW w \in Worker, FoldersNext(w) PROVE FolderInv'
  <2>1. CASE CreateFolderRead(w)
    <3>1. UNCHANGED folderTables
      BY <2>1 DEF CreateFolderRead
    <3>2. \A u : FoldersOf(u)' = FoldersOf(u)
      BY <3>1 DEF folderTables, FoldersOf
    <3>3. \A v \in Worker \ {w} : call'[v] = call[v]
      BY <2>1, FolderPlaceRead DEF Sound
    <3>4. call'[w].read = "good" =>
             \A f \in FoldersOf(UserOf[w]) : placeOf[f] < call'[w].place
      BY <2>1, FolderPlaceRead DEF Sound
    <3>5. FoldersBehind'
      BY <3>1, <3>2, <3>3, <3>4 DEF folderTables, FolderInv, FoldersBehind
    <3>6. FoldersDistinct' /\ NoOrphans'
      BY <3>1, <3>2 DEF folderTables, FolderInv, FoldersDistinct, NoOrphans
    <3> QED
      BY <3>5, <3>6 DEF FolderInv
  <2>2. ASSUME NEW f \in Folder, NEW S \in SUBSET Chat, CreateFolderCommit(w, f, S) PROVE FolderInv'
    BY <2>2, FolderCommit
  <2>3. CASE CreateFolderFails(w)
    BY <1>1, <2>3, IdleSound DEF CreateFolderFails, Return, Sound, TypeOK
  <2>4. ASSUME NEW f \in Folder, UpdateFolder(w, f) PROVE FolderInv'
    BY <2>4, FolderUpdate
  <2>5. ASSUME NEW f \in Folder, DeleteFolder(w, f) PROVE FolderInv'
    <3>1. owner[f] \in User /\ UNCHANGED <<call, arranged>>
      BY <2>5 DEF DeleteFolder
    <3>2. \A u \in User : /\ FoldersOf(u)' = FoldersOf(u) \ {f}
                          /\ \A g \in FoldersOf(u)' : placeOf'[g] = placeOf[g]
      BY <2>5 DEF DeleteFolder, Sound, TypeOK, FoldersTypeOK, FoldersOf
    <3>3. NoOrphans'
      BY <2>5 DEF DeleteFolder, Sound, TypeOK, FoldersTypeOK, FolderInv, NoOrphans
    <3>4. FoldersBehind' /\ FoldersDistinct'
      BY <3>1, <3>2, FolderLoss DEF FolderInv
    <3> QED
      BY <3>3, <3>4 DEF FolderInv
  <2> QED
    BY <1>4, <2>1, <2>2, <2>3, <2>4, <2>5 DEF FoldersNext
<1> QED
  BY <1>2, <1>3, <1>4, FolderKinds

-----------------------------------------------------------------------------
\* The pinned message: as long as the pin of a chat does not stray, the one
\* event under way is that of the pin the table has.
AnnounceStage == {"pin.read", "pin.publish", "unpin.publish"}

UnderWay(w, c) == call[w].on = c /\ call[w].stage \in AnnounceStage

PinSound(c) ==
    /\ c \notin strayed =>
          /\ \A v, w \in Worker : UnderWay(v, c) /\ UnderWay(w, c) => v = w
          /\ \A w \in Worker : UnderWay(w, c) => pinned[c] = call[w].arg
          /\ (\A w \in Worker : ~ UnderWay(w, c)) => shown[c] = pinned[c]
    /\ shown[c] \in Message => ChatOf[shown[c]] = c

PinInv == \A c \in Chat : PinSound(c)

\* A chat that a step has nothing to do with.
LEMMA PinElsewhere ==
    ASSUME NEW c \in Chat, PinSound(c), c \in strayed => c \in strayed',
           pinned'[c] = pinned[c], shown'[c] = shown[c],
           \A v \in Worker :
              UnderWay(v, c) \/ UnderWay(v, c)'
                => UnderWay(v, c) /\ UnderWay(v, c)' /\ call'[v].arg = call[v].arg
    PROVE  PinSound(c)'
BY DEF PinSound

\* The write of a pin, or of none, by a call that is announced afterwards.
LEMMA PinWrite ==
    ASSUME Sound, PinInv, NEW w \in Worker, NEW stage \in AnnounceStage,
           call[w].on \in Chat, call[w].stage \notin AnnounceStage,
           WritePin(call[w].on, call[w].arg), Goto(w, stage), shown' = shown,
           NEW d \in Chat
    PROVE  PinSound(d)'
<1>0. PICK c \in Chat : c = call[w].on
  OBVIOUS
<1>1. /\ call'[w].stage = stage /\ call'[w].on = c /\ call'[w].arg = call[w].arg
      /\ \A v \in Worker \ {w} : call'[v] = call[v]
  BY <1>0 DEF Goto, Sound, TypeOK, Call
<1>2. /\ pinned'[c] = call[w].arg
      /\ \A e \in Chat \ {c} : /\ e \in strayed => e \in strayed'
                               /\ pinned'[e] = pinned[e]
  BY <1>0 DEF WritePin, Sound, TypeOK, PinsTypeOK
<1>3. CASE d # c
  BY <1>0, <1>1, <1>2, <1>3, PinElsewhere DEF PinInv, UnderWay
<1>4. CASE d = c
  <2>1. UnderWay(w, c)' /\ \A v \in Worker \ {w} : UnderWay(v, c)' <=> UnderWay(v, c)
    BY <1>0, <1>1 DEF UnderWay
  <2>2. c \notin strayed' => Unannounced(c) = {}
    BY <1>0 DEF WritePin
  <2>3. c \notin strayed' => \A v \in Worker : ~ UnderWay(v, c)
    BY <2>2 DEF Unannounced, Pinning, UnderWay, AnnounceStage, PinStage
  <2>4. shown'[c] \in Message => ChatOf[shown'[c]] = c
    BY DEF PinInv, PinSound
  <2> QED
    BY <1>1, <1>2, <1>4, <2>1, <2>3, <2>4 DEF PinSound
<1> QED
  BY <1>3, <1>4

\* The end of a call about the pin of a chat.
LEMMA PinReturn ==
    ASSUME Sound, PinInv, NEW w \in Worker, call[w].stage \in AnnounceStage, Return(w),
           call[w].on \in Chat, pinned' = pinned, strayed \subseteq strayed',
           \A e \in Chat \ {call[w].on} : shown'[e] = shown[e],
           call[w].on \in strayed' \/ shown'[call[w].on] = call[w].arg,
           shown'[call[w].on] \in Message => ChatOf[shown'[call[w].on]] = call[w].on,
           NEW d \in Chat
    PROVE  PinSound(d)'
<1>0. PICK c \in Chat : c = call[w].on
  OBVIOUS
<1>1. call'[w].stage \notin AnnounceStage /\ \A v \in Worker \ {w} : call'[v] = call[v]
  BY IdleSound DEF Return, Sound, TypeOK, AnnounceStage
<1>2. CASE d # c
  BY <1>0, <1>1, <1>2, PinElsewhere DEF PinInv, UnderWay
<1>3. CASE d = c
  <2>1. UnderWay(w, c) /\ ~ UnderWay(w, c)'
    BY <1>0, <1>1 DEF UnderWay
  <2>2. \A v \in Worker \ {w} : UnderWay(v, c)' <=> UnderWay(v, c)
    BY <1>0, <1>1 DEF UnderWay
  <2>3. c \notin strayed' => /\ \A v \in Worker : ~ UnderWay(v, c)'
                             /\ shown'[c] = pinned'[c]
    BY <1>0, <2>1, <2>2 DEF PinInv, PinSound
  <2> QED
    BY <1>0, <1>3, <2>3 DEF PinSound
<1> QED
  BY <1>2, <1>3

\* A step that is not about announcements.
LEMMA PinIdle ==
    ASSUME PinInv, pinned' = pinned, shown' = shown, strayed \subseteq strayed',
           \A v \in Worker :
              call[v].stage \in AnnounceStage \/ call'[v].stage \in AnnounceStage
                => /\ {call[v].stage, call'[v].stage} \subseteq AnnounceStage
                   /\ call'[v].on = call[v].on /\ call'[v].arg = call[v].arg
    PROVE  PinInv'
BY PinElsewhere DEF PinInv, UnderWay

LEMMA NextPin ==
    ASSUME Sound, PinInv, [Next]_vars
    PROVE  PinInv'
<1> USE DEF At
<1>1. CASE UNCHANGED pinTables /\ Kept(PinStage)
  BY <1>1, PinIdle DEF pinTables, Kept, PinStage, AnnounceStage
<1>2. CASE PinsCrash /\ call' = [w \in Worker |-> Idle]
  <2>1. \A c \in Chat : c \notin strayed' => c \notin strayed /\ Unannounced(c) = {}
    BY <1>2 DEF PinsCrash
  <2>2. \A c \in Chat, v \in Worker : c \notin strayed' => ~ UnderWay(v, c)
    BY <2>1 DEF Unannounced, Pinning, UnderWay, AnnounceStage, PinStage
  <2>3. \A c \in Chat, v \in Worker : ~ UnderWay(v, c)'
    BY <1>2, IdleSound DEF UnderWay, AnnounceStage
  <2> QED
    BY <1>2, <2>1, <2>2, <2>3 DEF PinsCrash, PinInv, PinSound
<1>3. ASSUME NEW w \in Worker, PinsNext(w) PROVE PinInv'
  <2>0. call \in [Worker -> Call] /\ call[w] \in SoundCall
    BY DEF Sound, TypeOK, CallSound
  <2>1. ASSUME NEW c \in Chat, PinChatRead(w, c) PROVE PinInv'
    <3>1. call[w].stage \notin AnnounceStage /\ call'[w].stage \notin AnnounceStage
      BY <2>1, ChatPlaceRead DEF PinChatRead, AnnounceStage, Sound
    <3>2. \A v \in Worker \ {w} : call'[v] = call[v]
      BY <2>1, ChatPlaceRead DEF Sound
    <3>3. UNCHANGED pinTables
      BY <2>1 DEF PinChatRead
    <3> QED
      BY <3>1, <3>2, <3>3, PinIdle DEF pinTables
  <2>2. CASE PinChatWrite(w)
    <3>1. call[w].stage \notin AnnounceStage /\ call'[w].stage \notin AnnounceStage
      BY <2>0, <2>2, IdleSound DEF PinChatWrite, TakePlace, AnnounceStage
    <3>2. \A v \in Worker \ {w} :
             /\ call'[v].stage = call[v].stage /\ call'[v].on = call[v].on
             /\ call'[v].arg = call[v].arg
      BY <2>0, <2>2 DEF PinChatWrite, TakePlace, Call
    <3> QED
      BY <2>2, <3>1, <3>2, PinIdle DEF PinChatWrite
  <2>3. ASSUME NEW c \in Chat, UnpinChat(w, c) \/ MuteChat(w, c) \/ UnmuteChat(w, c) PROVE PinInv'
    BY <2>3, PinIdle DEF UnpinChat, MuteChat, UnmuteChat
  <2>4. ASSUME NEW c \in Chat, UnpinMessageCheck(w, c) PROVE PinInv'
    <3>1. /\ call[w].stage \notin AnnounceStage /\ call'[w].stage \notin AnnounceStage
          /\ \A v \in Worker \ {w} : call'[v] = call[v]
      BY <2>0, <2>4 DEF UnpinMessageCheck, Begin, Entered, AnnounceStage
    <3> QED
      BY <2>4, <3>1, PinIdle DEF UnpinMessageCheck, pinTables
  <2>5. ASSUME NEW c \in Chat, NEW m \in Message, PinMessageCheck(w, c, m) PROVE PinInv'
    <3>1. /\ call[w].stage \notin AnnounceStage /\ call'[w].stage \notin AnnounceStage
          /\ \A v \in Worker \ {w} : call'[v] = call[v]
      BY <2>0, <2>5 DEF PinMessageCheck, Begin, Entered, AnnounceStage
    <3> QED
      BY <2>5, <3>1, PinIdle DEF PinMessageCheck, pinTables
  <2>6. CASE PinMessageWrite(w)
    <3>1. /\ call[w].on \in Chat /\ call[w].stage \notin AnnounceStage
          /\ "pin.read" \in AnnounceStage /\ WritePin(call[w].on, call[w].arg)
          /\ Goto(w, "pin.read") /\ shown' = shown
      BY <2>0, <2>6 DEF PinMessageWrite, AnnounceStage, SoundCall, PinStage
    <3> QED
      BY <3>1, PinWrite DEF PinInv
  <2>7. CASE UnpinMessageWrite(w)
    <3>1. /\ call[w].on \in Chat /\ call[w].stage \notin AnnounceStage
          /\ "unpin.publish" \in AnnounceStage /\ call[w].arg = Nothing
          /\ Goto(w, "unpin.publish") /\ shown' = shown
      BY <2>0, <2>7 DEF UnpinMessageWrite, AnnounceStage, SoundCall, PinStage
    <3>2. WritePin(call[w].on, call[w].arg)
      BY <2>7, <3>1 DEF UnpinMessageWrite
    <3> QED
      BY <3>1, <3>2, PinWrite DEF PinInv
  <2>8. CASE PinMessageRead(w)
    <3>1. /\ call[w].stage = "pin.read" /\ call'[w].stage = "pin.publish"
          /\ call'[w].on = call[w].on /\ call'[w].arg = call[w].arg
          /\ \A v \in Worker \ {w} : call'[v] = call[v]
      BY <2>0, <2>8 DEF PinMessageRead, Goto, Call
    <3> QED
      BY <2>8, <3>1, PinIdle DEF PinMessageRead, pinTables, AnnounceStage
  <2>9. CASE PinMessageRefused(w) \/ (PinStatementFails(w) /\ call[w].stage \in AnnounceStage)
    <3>1. /\ call[w].on \in Chat /\ call[w].stage \in AnnounceStage /\ Return(w)
          /\ pinned' = pinned /\ shown' = shown /\ strayed' = strayed \cup {call[w].on}
      BY <2>0, <2>9 DEF PinMessageRefused, PinStatementFails, AnnounceStage, SoundCall, PinStage
    <3>2. shown[call[w].on] \in Message => ChatOf[shown[call[w].on]] = call[w].on
      BY <3>1 DEF PinInv, PinSound
    <3> QED
      BY <3>1, <3>2, PinReturn DEF PinInv
  <2>10. CASE PinStatementFails(w) /\ call[w].stage \notin AnnounceStage
    <3>1. /\ call[w].stage \notin AnnounceStage /\ call'[w].stage \notin AnnounceStage
          /\ \A v \in Worker \ {w} : call'[v] = call[v]
          /\ pinned' = pinned /\ shown' = shown /\ strayed' = strayed
      BY <2>0, <2>10, IdleSound DEF PinStatementFails, Return, AnnounceStage
    <3> QED
      BY <2>10, <3>1, PinIdle
  <2>11. CASE PublishPinned(w)
    <3>1. /\ call[w].on \in Chat /\ call[w].stage \in AnnounceStage /\ Return(w)
          /\ ChatOf[call[w].arg] = call[w].on
          /\ pinned' = pinned /\ strayed' = strayed
      BY <2>0, <2>11 DEF PublishPinned, AnnounceStage, SoundCall, PinStage
    <3>2. /\ shown'[call[w].on] = call[w].arg
          /\ \A e \in Chat \ {call[w].on} : shown'[e] = shown[e]
      BY <2>11, <3>1 DEF PublishPinned, Sound, TypeOK, PinsTypeOK
    <3> QED
      BY <3>1, <3>2, PinReturn DEF PinInv
  <2>12. CASE PublishUnpinned(w)
    <3>1. /\ call[w].on \in Chat /\ call[w].stage \in AnnounceStage /\ Return(w)
          /\ call[w].arg = Nothing
          /\ pinned' = pinned /\ strayed' = strayed
      BY <2>0, <2>12 DEF PublishUnpinned, AnnounceStage, SoundCall, PinStage
    <3>2. /\ shown'[call[w].on] = call[w].arg
          /\ \A e \in Chat \ {call[w].on} : shown'[e] = shown[e]
      BY <2>12, <3>1 DEF PublishUnpinned, Sound, TypeOK, PinsTypeOK
    <3> QED
      BY <3>1, <3>2, PinReturn DEF PinInv
  <2> QED
    BY <1>3, <2>1, <2>2, <2>3, <2>4, <2>5, <2>6, <2>7, <2>8, <2>9, <2>10, <2>11, <2>12 DEF PinsNext
<1> QED
  BY <1>1, <1>2, <1>3, PinKinds

-----------------------------------------------------------------------------
\* A pin of a message of another chat is yet to be looked at, or was refused.
ForeignSound(c) ==
    (\E m \in Message : ChatOf[m] # c /\ pinned[c] = m) => c \in refused \/ Reading(c) # {}

ForeignInv == \A c \in Chat : ForeignSound(c)

\* A step that leaves alone the pins and the calls that are to look at them.
LEMMA ForeignIdle ==
    ASSUME ForeignInv, pinned' = pinned, refused \subseteq refused',
           \A v \in Worker : call[v].stage = "pin.read" =>
              /\ call'[v].stage = "pin.read"
              /\ call'[v].on = call[v].on /\ call'[v].arg = call[v].arg
    PROVE  ForeignInv'
BY DEF ForeignInv, ForeignSound, Reading, At

\* The end of a call that may have been about to look.
LEMMA ForeignReturn ==
    ASSUME ForeignInv, NEW w \in Worker, pinned' = pinned,
           refused' = refused \cup {c \in Chat : w \in Reading(c)},
           \A v \in Worker \ {w} : call'[v] = call[v]
    PROVE  ForeignInv'
<1> SUFFICES ASSUME NEW c \in Chat, ForeignSound(c) PROVE ForeignSound(c)'
  BY DEF ForeignInv
<1>1. \A v \in Reading(c) \ {w} : v \in Reading(c)'
  BY DEF Reading, At
<1>2. CASE w \in Reading(c)
  BY <1>2 DEF ForeignSound
<1>3. CASE w \notin Reading(c)
  BY <1>1, <1>3 DEF ForeignSound
<1> QED
  BY <1>2, <1>3

LEMMA NextForeign ==
    ASSUME Sound, ForeignInv, [Next]_vars
    PROVE  ForeignInv'
<1> USE DEF At
<1>1. CASE UNCHANGED pinTables /\ Kept(PinStage)
  BY <1>1, ForeignIdle DEF pinTables, Kept, PinStage
<1>2. CASE PinsCrash /\ call' = [w \in Worker |-> Idle]
  BY <1>2 DEF PinsCrash, ForeignInv, ForeignSound
<1>3. ASSUME NEW w \in Worker, PinsNext(w) PROVE ForeignInv'
  <2>0. call \in [Worker -> Call] /\ call[w] \in SoundCall
    BY DEF Sound, TypeOK, CallSound
  <2>1. ASSUME NEW c \in Chat, PinChatRead(w, c) PROVE ForeignInv'
    BY <2>1, ChatPlaceRead, ForeignIdle DEF PinChatRead, Sound, Moved, pinTables
  <2>2. CASE PinChatWrite(w)
    <3>1. \A v \in Worker \ {w} :
             /\ call'[v].stage = call[v].stage /\ call'[v].on = call[v].on
             /\ call'[v].arg = call[v].arg
      BY <2>0, <2>2 DEF PinChatWrite, TakePlace, Call
    <3> QED
      BY <2>2, <3>1, ForeignIdle DEF PinChatWrite
  <2>3. ASSUME NEW c \in Chat, UnpinChat(w, c) \/ MuteChat(w, c) \/ UnmuteChat(w, c) PROVE ForeignInv'
    BY <2>3, ForeignIdle DEF UnpinChat, MuteChat, UnmuteChat
  <2>4. ASSUME NEW c \in Chat, UnpinMessageCheck(w, c) \/ \E m \in Message : PinMessageCheck(w, c, m)
        PROVE  ForeignInv'
    <3>1. call[w].stage # "pin.read" /\ \A v \in Worker \ {w} : call'[v] = call[v]
      BY <2>0, <2>4 DEF UnpinMessageCheck, PinMessageCheck, Begin
    <3> QED
      BY <2>4, <3>1, ForeignIdle DEF UnpinMessageCheck, PinMessageCheck, pinTables
  <2>5. CASE PinMessageWrite(w)
    <3>0. PICK c \in Chat : c = call[w].on
      BY <2>0, <2>5 DEF PinMessageWrite, SoundCall, PinStage
    <3>1. /\ call'[w].stage = "pin.read" /\ call'[w].on = c /\ call'[w].arg = call[w].arg
          /\ \A v \in Worker \ {w} : call'[v] = call[v]
      BY <2>0, <2>5, <3>0 DEF PinMessageWrite, Goto, Call
    <3>2. /\ pinned'[c] = call[w].arg
          /\ \A d \in Chat \ {c} : pinned'[d] = pinned[d] /\ (d \in refused => d \in refused')
      BY <2>5, <3>0 DEF PinMessageWrite, WritePin, Sound, TypeOK, PinsTypeOK
    <3>3. ForeignSound(c)'
      BY <3>1, <3>2 DEF ForeignSound, Reading
    <3>4. ASSUME NEW d \in Chat \ {c} PROVE ForeignSound(d)'
      <4>1. \A v \in Reading(d) : v \in Reading(d)'
        BY <2>5, <3>0, <3>1, <3>2 DEF PinMessageWrite, Reading
      <4> QED
        BY <3>2, <4>1 DEF ForeignInv, ForeignSound
    <3> QED
      BY <3>3, <3>4 DEF ForeignInv
  <2>6. CASE UnpinMessageWrite(w)
    <3>0. PICK c \in Chat : c = call[w].on
      BY <2>0, <2>6 DEF UnpinMessageWrite, SoundCall, PinStage
    <3>1. call[w].stage # "pin.read" /\ \A v \in Worker \ {w} : call'[v] = call[v]
      BY <2>0, <2>6 DEF UnpinMessageWrite, Goto
    <3>2. /\ pinned'[c] = Nothing
          /\ \A d \in Chat \ {c} : pinned'[d] = pinned[d] /\ (d \in refused => d \in refused')
      BY <2>6, <3>0 DEF UnpinMessageWrite, WritePin, Sound, TypeOK, PinsTypeOK
    <3>3. ForeignSound(c)'
      BY <3>2 DEF ForeignSound
    <3>4. ASSUME NEW d \in Chat \ {c} PROVE ForeignSound(d)'
      <4>1. \A v \in Reading(d) : v \in Reading(d)'
        BY <3>1, <3>2 DEF Reading
      <4> QED
        BY <3>2, <4>1 DEF ForeignInv, ForeignSound
    <3> QED
      BY <3>3, <3>4 DEF ForeignInv
  <2>7. CASE PinMessageRead(w)
    \* The message is of the chat: what it read is no foreign pin.
    <3>1. /\ \A v \in Worker \ {w} : call'[v] = call[v]
          /\ UNCHANGED <<pinned, refused>>
          /\ ChatOf[call[w].arg] = call[w].on
      BY <2>0, <2>7 DEF PinMessageRead, Goto, pinTables
    <3> SUFFICES ASSUME NEW c \in Chat PROVE ForeignSound(c)'
      BY DEF ForeignInv
    <3>2. \A v \in Reading(c) \ {w} : v \in Reading(c)'
      BY <3>1 DEF Reading
    <3>3. w \in Reading(c) => ChatOf[pinned[c]] = c
      BY <3>1 DEF Reading
    <3> QED
      BY <3>1, <3>2, <3>3 DEF ForeignInv, ForeignSound
  <2>8. CASE PinMessageRefused(w) \/ PinStatementFails(w)
    <3>1. /\ pinned' = pinned /\ refused' = refused \cup {c \in Chat : w \in Reading(c)}
          /\ \A v \in Worker \ {w} : call'[v] = call[v]
      BY <2>0, <2>8 DEF PinMessageRefused, PinStatementFails, Return
    <3> QED
      BY <3>1, ForeignReturn
  <2>9. CASE PublishPinned(w) \/ PublishUnpinned(w)
    <3>1. /\ call[w].stage # "pin.read" /\ UNCHANGED <<pinned, refused>>
          /\ \A v \in Worker \ {w} : call'[v] = call[v]
      BY <2>0, <2>9 DEF PublishPinned, PublishUnpinned, Return
    <3> QED
      BY <3>1, ForeignIdle
  <2> QED
    BY <1>3, <2>1, <2>2, <2>3, <2>4, <2>5, <2>6, <2>7, <2>8, <2>9 DEF PinsNext
<1> QED
  BY <1>1, <1>2, <1>3, PinKinds

-----------------------------------------------------------------------------
\* The id that a call will answer is the one of the row, or void.
AnswersSound ==
    \A w \in Worker : call[w].stage \in ContactStage =>
        \/ contact[UserOf[w]][call[w].on] = call[w].arg
        \/ call[w].arg \in void

ContactInv == AnswersSound /\ AnsweredIdHolds

\* Ids leave the table for void only, and calls keep what they have.
LEMMA ContactIdle ==
    ASSUME Sound, ContactInv, void \subseteq void', answered' = answered,
           \A o, u \in User : \/ contact[o][u] = Nothing
                              \/ contact'[o][u] = contact[o][u]
                              \/ contact[o][u] \in void',
           \A v \in Worker : call'[v].stage \in ContactStage =>
              \/ call'[v] = call[v]
              \/ contact'[UserOf[v]][call'[v].on] = call'[v].arg
              \/ call'[v].arg \in void'
    PROVE  ContactInv'
<1>1. AnswersSound'
  <2> SUFFICES ASSUME NEW v \in Worker, call[v].stage \in ContactStage, call'[v] = call[v]
               PROVE  \/ contact'[UserOf[v]][call[v].on] = call[v].arg
                      \/ call[v].arg \in void'
    BY DEF AnswersSound
  <2>1. UserOf[v] \in User /\ call[v].on \in User /\ call[v].arg \in Id
    BY DEF Sound, CallSound, SoundCall
  <2> QED
    BY <2>1 DEF ContactInv, AnswersSound
<1>2. AnsweredIdHolds'
  <2> SUFFICES ASSUME NEW a \in answered PROVE contact'[a[1]][a[2]] = a[3] \/ a[3] \in void'
    BY DEF AnsweredIdHolds
  <2>1. a[1] \in User /\ a[2] \in User /\ a[3] \in Id
    BY DEF Sound, TypeOK, ContactsTypeOK
  <2>2. contact[a[1]][a[2]] = a[3] \/ a[3] \in void
    BY DEF ContactInv, AnsweredIdHolds
  <2> QED
    BY <2>1, <2>2
<1> QED
  BY <1>1, <1>2 DEF ContactInv

LEMMA NextContact ==
    ASSUME Sound, ContactInv, [Next]_vars
    PROVE  ContactInv'
<1>1. CASE UNCHANGED contactTables /\ Kept(ContactStage)
  BY <1>1, ContactIdle DEF contactTables, Kept
<1>2. CASE UNCHANGED contactTables /\ call' = [w \in Worker |-> Idle]
  BY <1>2, ContactIdle, IdleSound DEF contactTables, ContactStage
<1>3. ASSUME NEW w \in Worker, ContactsNext(w) PROVE ContactInv'
  <2>0. call \in [Worker -> Call] /\ contact \in [User -> [User -> Id \cup {Nothing}]]
    BY DEF Sound, TypeOK, ContactsTypeOK
  <2>1. ASSUME NEW u \in User, NEW id \in Id, AddContactInsert(w, u, id) PROVE ContactInv'
    <3>1. /\ call'[w].on = u /\ call'[w].arg = id
          /\ \A v \in Worker \ {w} : call'[v] = call[v]
      BY <2>0, <2>1 DEF AddContactInsert, Begin, Entered
    <3>2. CASE contact[UserOf[w]][u] = Nothing
      <4>1. contact' = [contact EXCEPT ![UserOf[w]][u] = id] /\ UNCHANGED <<void, answered>>
        BY <2>1, <3>2 DEF AddContactInsert
      <4>2. contact'[UserOf[w]][u] = id
        BY <2>0, <4>1
      <4>3. \A o, x \in User : contact[o][x] = Nothing \/ contact'[o][x] = contact[o][x]
        BY <2>0, <3>2, <4>1
      <4> QED
        BY <3>1, <4>1, <4>2, <4>3, ContactIdle
    <3>3. CASE contact[UserOf[w]][u] # Nothing
      <4>1. void' = void \cup {id} /\ UNCHANGED <<contact, answered>>
        BY <2>1, <3>3 DEF AddContactInsert
      <4> QED
        BY <3>1, <4>1, ContactIdle
    <3> QED
      BY <3>2, <3>3
  <2>2. CASE AddContactAnswer(w)
    <3>1. /\ call[w].stage \in ContactStage /\ call'[w].stage \notin ContactStage
          /\ \A v \in Worker \ {w} : call'[v] = call[v]
      BY <2>0, <2>2, IdleSound DEF AddContactAnswer, At, Return, ContactStage
    <3>2. UNCHANGED <<contact, void>>
          /\ answered' = answered \cup {<<UserOf[w], call[w].on, call[w].arg>>}
      BY <2>2 DEF AddContactAnswer
    <3>3. contact[UserOf[w]][call[w].on] = call[w].arg \/ call[w].arg \in void
      BY <3>1 DEF ContactInv, AnswersSound
    <3>4. AnsweredIdHolds'
      BY <3>2, <3>3 DEF ContactInv, AnsweredIdHolds
    <3>5. AnswersSound'
      BY <3>1, <3>2 DEF ContactInv, AnswersSound
    <3> QED
      BY <3>4, <3>5 DEF ContactInv
  <2>3. ASSUME NEW key \in User \cup Id, RemoveContact(w, key) PROVE ContactInv'
    <3> DEFINE own     == contact[UserOf[w]]
               removed == {u \in User : own[u] # Nothing /\ key \in {u, own[u]}}
    <3>1. /\ contact' = [contact EXCEPT ![UserOf[w]] =
                           [u \in User |-> IF u \in removed THEN Nothing ELSE own[u]]]
          /\ void' = void \cup {own[u] : u \in removed}
          /\ UNCHANGED <<call, answered>>
      BY <2>3 DEF RemoveContact
    <3>2. \A o, u \in User : contact'[o][u] = contact[o][u] \/ contact[o][u] \in void'
      <4> HIDE DEF removed
      <4>1. \A o \in User \ {UserOf[w]} : contact'[o] = contact[o]
        BY <2>0, <3>1
      <4>2. \A u \in User : contact'[UserOf[w]][u] = IF u \in removed THEN Nothing ELSE own[u]
        BY <2>0, <3>1
      <4>3. \A u \in removed : own[u] \in void'
        BY <3>1
      <4> QED
        BY <4>1, <4>2, <4>3
    <3> QED
      BY <3>1, <3>2, ContactIdle
  <2> QED
    BY <1>3, <2>1, <2>2, <2>3 DEF ContactsNext
<1> QED
  BY <1>1, <1>2, <1>3, ContactKinds

-----------------------------------------------------------------------------
LEMMA InitInv == Init => Sound /\ ChatInv /\ FolderInv /\ PinInv /\ ForeignInv /\ ContactInv
<1> SUFFICES ASSUME Init PROVE Sound /\ ChatInv /\ FolderInv /\ PinInv /\ ForeignInv /\ ContactInv
  OBVIOUS
<1>1. Sound
  BY InitSettings
<1>2. \A w \in Worker : call[w].stage = "idle"
  BY IdleSound DEF Init, HandlersInit
<1> USE DEF Init, PinsInit, FoldersInit, ContactsInit
<1>3. ChatInv
  BY <1>2 DEF ChatInv, PinsBehind, ChatsDistinct, Pinned
<1>4. FolderInv
  BY <1>2 DEF FolderInv, FoldersBehind, FoldersDistinct, NoOrphans, FoldersOf
<1>5. PinInv
  BY <1>2 DEF PinInv, PinSound, UnderWay, AnnounceStage
<1>6. ForeignInv
  BY DEF ForeignInv, ForeignSound
<1>7. ContactInv
  BY <1>2 DEF ContactInv, AnswersSound, AnsweredIdHolds, ContactStage
<1> QED
  BY <1>1, <1>3, <1>4, <1>5, <1>6, <1>7

LEMMA Invariance == Spec => [](Sound /\ ChatInv /\ FolderInv /\ PinInv /\ ForeignInv /\ ContactInv)
<1>1. Sound /\ ChatInv /\ FolderInv /\ PinInv /\ ForeignInv /\ ContactInv /\ [Next]_vars
        => (Sound /\ ChatInv /\ FolderInv /\ PinInv /\ ForeignInv /\ ContactInv)'
  BY NextSettings, NextChat, NextFolder, NextPin, NextForeign, NextContact
<1> QED
  BY <1>1, InitInv, PTL DEF Spec

\* The variables keep their types: calls, tables and history.
THEOREM TypeCorrect == Spec => []TypeOK
<1>1. Sound => TypeOK
  BY DEF Sound
<1> QED
  BY <1>1, Invariance, PTL

\* Pinned chats and folders have places of their own, unless two calls of a
\* user overlapped, a lookup failed or the user chose a place.
THEOREM PlacesAreDistinct == Spec => []PlacesDistinct
<1>1. ChatInv /\ FolderInv => PlacesDistinct
  BY DEF ChatInv, ChatsDistinct, FolderInv, FoldersDistinct, PlacesDistinct
<1> QED
  BY <1>1, Invariance, PTL

\* When no call is about the pin of a chat, the events have shown the members
\* what the list of chats shows, unless its last write overlapped another or
\* its broadcast failed.
THEOREM PinsConverge == Spec => []PinConverges
<1>1. PinInv => PinConverges
  <2> SUFFICES ASSUME PinInv, NEW c \in Chat, c \notin strayed, Pinning(c) = {}
               PROVE  shown[c] = pinned[c]
    BY DEF PinConverges, Listed
  <2>1. \A w \in Worker : ~ UnderWay(w, c)
    BY DEF Pinning, UnderWay, AnnounceStage, PinStage
  <2> QED
    BY <2>1 DEF PinInv, PinSound
<1> QED
  BY <1>1, Invariance, PTL

\* A message of another chat is listed as pinned only until the call that
\* wrote it finds out, or because that call got an error or no answer; no
\* event tells of it, however the calls overlap, fail and are cut off.
THEOREM ForeignPinsAreRefused == Spec => []ForeignPinsRefused
<1>1. PinInv /\ ForeignInv => ForeignPinsRefused
  <2> SUFFICES ASSUME PinInv, ForeignInv, NEW c \in Chat, NEW m \in Message, ChatOf[m] # c
               PROVE  /\ shown[c] # m
                      /\ pinned[c] = m => c \in refused \/ Reading(c) # {}
    BY DEF ForeignPinsRefused, Listed
  <2>1. shown[c] # m
    BY DEF PinInv, PinSound
  <2>2. pinned[c] = m => c \in refused \/ Reading(c) # {}
    BY DEF ForeignInv, ForeignSound
  <2> QED
    BY <2>1, <2>2
<1> QED
  BY <1>1, Invariance, PTL

\* A deleted folder leaves no chats and no place behind.
THEOREM FoldersLeaveNothing == Spec => []NoOrphans
<1>1. FolderInv => NoOrphans
  BY DEF FolderInv
<1> QED
  BY <1>1, Invariance, PTL

\* An id that was answered is the id of the row, or its insert was ignored or
\* its row removed.
THEOREM AnsweredIdsHold == Spec => []AnsweredIdHolds
<1>1. ContactInv => AnsweredIdHolds
  BY DEF ContactInv
<1> QED
  BY <1>1, Invariance, PTL
=============================================================================
