-------------------------------- MODULE Pins --------------------------------
(***************************************************************************)
(* Pinned chats, mutes and the pinned message of a chat (internal/chat/    *)
(* service.go, and the broadcasts of internal/chat/handler.go).  Each      *)
(* statement and each broadcast is a step.                                 *)
(*                                                                         *)
(* A message never leaves its table.  A pin of a message no table has is   *)
(* refused by the foreign key of chats.pinned_message_id, and one of a     *)
(* caller who is no member by the handler: they change nothing and are     *)
(* left out.                                                               *)
(***************************************************************************)
EXTENDS Handlers

CONSTANTS Message,
          ChatOf,     \* the chat of a message
          MembersOf   \* the members of a chat

ASSUME PinsAssumption ==
    /\ ChatOf \in [Message -> Chat]
    /\ MembersOf \in [Chat -> SUBSET User]
    /\ Nothing \notin Message

VARIABLES pins,       \* table chat_pins: the place of each chat
          muted,      \* table chat_mutes
          pinned,     \* chats.pinned_message_id
          shown,      \* the pinned message, as the events an observer got have it
          doubled,    \* history: users who took a place that may have been taken
          strayed,    \* history: chats whose last pin or unpin may not be shown
          refused     \* history: chats whose pin was written by a call that then
                      \* got an error, or no answer

pinTables == <<pins, muted, pinned, shown, doubled, strayed, refused>>

PinStage == {"pin chat", "pin.write", "pin.read", "pin.publish", "unpin.write", "unpin.publish"}
Pin      == Message \cup {Nothing}

PinsTypeOK ==
    /\ pins \in [User -> [Chat -> Place]]
    /\ muted \in SUBSET (User \X Chat)
    /\ pinned \in [Chat -> Pin]
    /\ shown \in [Chat -> Pin]
    /\ doubled \in SUBSET User
    /\ strayed \in SUBSET Chat
    /\ refused \in SUBSET Chat

PinsInit ==
    /\ pins = [u \in User |-> [c \in Chat |-> NoPlace]]
    /\ muted = {}
    /\ pinned = [c \in Chat |-> Nothing]
    /\ shown = [c \in Chat |-> Nothing]
    /\ doubled = {}
    /\ strayed = {}
    /\ refused = {}

Pinned(u) == {c \in Chat : pins[u][c] # NoPlace}

-----------------------------------------------------------------------------
PinChatRead(w, c) ==
    LET u == UserOf[w] IN
    /\ At(w, "idle")
    /\ ReadPlace(w, "pin chat", c, Nothing, {pins[u][d] : d \in Pinned(u)})
    /\ UNCHANGED pinTables

\* A chat that is pinned already moves to the place that was read.
PinChatWrite(w) ==
    LET u == UserOf[w] IN
    /\ At(w, "pin chat")
    /\ pins' = [pins EXCEPT ![u][call[w].on] = call[w].place]
    /\ doubled' = IF call[w].read = "stale" THEN doubled \cup {u} ELSE doubled
    /\ TakePlace(w)
    /\ UNCHANGED <<muted, pinned, shown, strayed, refused>>

UnpinChat(w, c) ==
    /\ At(w, "idle")
    /\ pins' = [pins EXCEPT ![UserOf[w]][c] = NoPlace]
    /\ UNCHANGED <<call, muted, pinned, shown, doubled, strayed, refused>>

\* Muting again changes the time of the mute.
MuteChat(w, c) ==
    /\ At(w, "idle")
    /\ muted' = muted \cup {<<UserOf[w], c>>}
    /\ UNCHANGED <<call, pins, pinned, shown, doubled, strayed, refused>>

UnmuteChat(w, c) ==
    /\ At(w, "idle")
    /\ muted' = muted \ {<<UserOf[w], c>>}
    /\ UNCHANGED <<call, pins, pinned, shown, doubled, strayed, refused>>

-----------------------------------------------------------------------------
\* The calls about the pin of chat c, and those that wrote it and have still
\* to broadcast.
Pinning(c)     == {w \in Worker : call[w].on = c /\ call[w].stage \in PinStage \ {"pin chat"}}
Unannounced(c) == {w \in Pinning(c) : call[w].stage \in {"pin.read", "pin.publish", "unpin.publish"}}

\* The calls that are to read the message of the pin the chat has.
Reading(c) == {w \in Worker : At(w, "pin.read") /\ call[w].on = c /\ call[w].arg = pinned[c]}

\* The pin is written: its event is the last unless another is under way.
WritePin(c, m) ==
    /\ pinned' = [pinned EXCEPT ![c] = m]
    /\ refused' = refused \ {c}
    /\ strayed' = IF Unannounced(c) = {} THEN strayed \ {c} ELSE strayed \cup {c}

PinMessageCheck(w, c, m) ==
    /\ At(w, "idle")
    /\ UserOf[w] \in MembersOf[c]
    /\ Begin(w, "pin.write", c, m)
    /\ UNCHANGED pinTables

PinMessageWrite(w) ==
    /\ At(w, "pin.write")
    /\ WritePin(call[w].on, call[w].arg)
    /\ Goto(w, "pin.read")
    /\ UNCHANGED <<pins, muted, shown, doubled>>

PinMessageRead_AnyChat(w) ==
    /\ At(w, "pin.read")
    /\ Goto(w, "pin.publish")
    /\ UNCHANGED pinTables
PinMessageRead(w) ==
    /\ At(w, "pin.read")
    /\ ChatOf[call[w].arg] = call[w].on
    /\ Goto(w, "pin.publish")
    /\ UNCHANGED pinTables

\* The message is of another chat: the caller gets an error for a pin that
\* has been written.
PinMessageRefused(w) ==
    /\ At(w, "pin.read")
    /\ ChatOf[call[w].arg] # call[w].on
    /\ strayed' = strayed \cup {call[w].on}
    /\ refused' = refused \cup {c \in Chat : w \in Reading(c)}
    /\ Return(w)
    /\ UNCHANGED <<pins, muted, pinned, shown, doubled>>

PublishPinned(w) ==
    /\ At(w, "pin.publish")
    /\ shown' = [shown EXCEPT ![call[w].on] = call[w].arg]
    /\ Return(w)
    /\ UNCHANGED <<pins, muted, pinned, doubled, strayed, refused>>

UnpinMessageCheck(w, c) ==
    /\ At(w, "idle")
    /\ UserOf[w] \in MembersOf[c]
    /\ Begin(w, "unpin.write", c, Nothing)
    /\ UNCHANGED pinTables

UnpinMessageWrite(w) ==
    /\ At(w, "unpin.write")
    /\ WritePin(call[w].on, Nothing)
    /\ Goto(w, "unpin.publish")
    /\ UNCHANGED <<pins, muted, shown, doubled>>

PublishUnpinned_Silent(w) ==
    /\ At(w, "unpin.publish")
    /\ Return(w)
    /\ UNCHANGED pinTables
PublishUnpinned(w) ==
    /\ At(w, "unpin.publish")
    /\ shown' = [shown EXCEPT ![call[w].on] = Nothing]
    /\ Return(w)
    /\ UNCHANGED <<pins, muted, pinned, doubled, strayed, refused>>

\* A statement fails, and the handler returns an error.  A broadcast begins
\* with a query for the members of the chat: when it fails, nobody is told,
\* and the handler answers all the same (hub.go:89).
PinStatementFails(w) ==
    /\ Faults
    /\ call[w].stage \in PinStage
    /\ strayed' = IF At(w, "pin.read") \/ At(w, "pin.publish") \/ At(w, "unpin.publish")
                  THEN strayed \cup {call[w].on} ELSE strayed
    /\ refused' = refused \cup {c \in Chat : w \in Reading(c)}
    /\ Return(w)
    /\ UNCHANGED <<pins, muted, pinned, shown, doubled>>

\* The process dies before these broadcasts, and before these answers.
PinsCrash ==
    /\ strayed' = strayed \cup {c \in Chat : Unannounced(c) # {}}
    /\ refused' = refused \cup {c \in Chat : Reading(c) # {}}
    /\ UNCHANGED <<pins, muted, pinned, shown, doubled>>

\* What the list of chats shows as pinned in a chat (GetUserChats): the id in
\* the row and the content of that message, whichever chat it is of.
Listed(c) == pinned[c]

PinsNext(w) ==
    \/ \E c \in Chat : \/ PinChatRead(w, c) \/ UnpinChat(w, c)
                       \/ MuteChat(w, c) \/ UnmuteChat(w, c)
                       \/ \E m \in Message : PinMessageCheck(w, c, m)
                       \/ UnpinMessageCheck(w, c)
    \/ PinChatWrite(w)
    \/ PinMessageWrite(w) \/ PinMessageRead(w) \/ PinMessageRefused(w) \/ PublishPinned(w)
    \/ UnpinMessageWrite(w) \/ PublishUnpinned(w)
    \/ PinStatementFails(w)
=============================================================================
