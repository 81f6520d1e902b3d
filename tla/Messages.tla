------------------------------ MODULE Messages ------------------------------
(***************************************************************************)
(* The message service (internal/message/service.go) behind its two front  *)
(* ends: the WebSocket router (internal/ws/router.go), which broadcasts    *)
(* what the service did, and the HTTP handler (internal/message/           *)
(* handler.go), which does not.                                            *)
(*                                                                         *)
(* A handler is not atomic: it reads the row, decides, writes it and, on a *)
(* WebSocket, reads it again and broadcasts.  Each database access and the *)
(* broadcast is a step of its own, so that handlers interleave.  One chat  *)
(* is modelled (chats share nothing in this service) and one observer of   *)
(* it: a connection of a member other than the senders, whose feed is the  *)
(* order in which BroadcastToChat reaches that connection.                 *)
(***************************************************************************)
EXTENDS Integers

CONSTANTS User,       \* the users who send, edit and delete
          Message,    \* message ids (uuids are fresh: an id is used once)
          Text,       \* message contents
          Worker,     \* goroutines that run handlers, one call at a time
          UserOf,     \* the authenticated user of a worker
          Via,        \* "ws": the worker is a ReadPump; "http": a request
          Window,     \* the edit window, 48 hours in the code
          MaxTime,    \* bound of the clock
          Leaver,     \* bound of the users who are removed and added meanwhile
          Faults,     \* TRUE: the process may die, a statement may fail
          NoMessage, NoText, NoUser

ASSUME ConstantsAssumption ==
    /\ UserOf \in [Worker -> User]
    /\ Via \in [Worker -> {"ws", "http"}]
    /\ Window \in Nat
    /\ MaxTime \in Nat
    /\ Leaver \subseteq User
    /\ Faults \in BOOLEAN
    /\ NoMessage \notin Message
    /\ NoText \notin Text
    /\ NoUser \notin User

VARIABLES stored,     \* table messages
          updatedAt,  \* chats.updated_at
          member,     \* table chat_members: the users in the chat
          clock,      \* time.Now()
          call,       \* where each worker is in its handler
          view,       \* what the events the observer got say of a message
          strayed     \* history: messages whose events may be missing or out of order

vars == <<stored, updatedAt, member, clock, call, view, strayed>>

Entered(stage, m, t) == [stage |-> stage, msg |-> m, text |-> t, at |-> 0]
Idle   == Entered("idle", NoMessage, NoText)
Absent == [state |-> "absent", sender |-> NoUser, text |-> NoText, createdAt |-> 0, deletedAt |-> 0]
Unseen == [state |-> "absent", text |-> NoText]

State  == {"absent", "live", "deleted"}
Stage  == {"idle", "create.stamp", "create.insert", "create.touch", "create.publish",
           "edit.write", "edit.read", "edit.publish", "delete.write", "delete.publish"}

\* A message has a sender and a text, which it keeps when it is deleted, and
\* it is deleted from the time deletedAt; 0 stands for NULL.  Of the other
\* columns no handler decides anything.
Row    == {r \in [state : State, sender : User \cup {NoUser}, text : Text \cup {NoText},
                  createdAt : Nat, deletedAt : Nat] :
              /\ r.state # "absent" => r.sender \in User /\ r.text \in Text
              /\ r.state = "deleted" <=> r.deletedAt > 0}
Call   == {c \in [stage : Stage, msg : Message \cup {NoMessage}, text : Text \cup {NoText},
                  at : Nat] :
              /\ c.stage \in {"create.stamp", "create.insert", "edit.write"} => c.text \in Text
              /\ c.stage = "delete.write" => c.at > 0}
Seen   == [state : State, text : Text \cup {NoText}]

TypeOK ==
    /\ stored \in [Message -> Row]
    /\ updatedAt \in Nat
    /\ member \in SUBSET User
    /\ clock \in Nat \ {0}
    /\ call \in [Worker -> Call]
    /\ view \in [Message -> Seen]
    /\ strayed \in SUBSET Message

Init ==
    /\ stored = [m \in Message |-> Absent]
    /\ updatedAt = 0
    /\ member = User
    /\ clock = 1
    /\ call = [w \in Worker |-> Idle]
    /\ view = [m \in Message |-> Unseen]
    /\ strayed = {}

At(w, stage)     == call[w].stage = stage
Goto(w, stage)   == call' = [call EXCEPT ![w].stage = stage]
Return(w)        == call' = [call EXCEPT ![w] = Idle]

\* The WebSocket handlers go on to broadcast; the HTTP ones return.
PublishOrReturn_Forgets(w, stage) == Return(w)
PublishOrReturn(w, stage) == IF Via[w] = "ws" THEN Goto(w, stage) ELSE Return(w)

\* Worker w has written its message and has still to broadcast it.
Unannounced(w) ==
    call[w].stage \in {"create.touch", "create.publish", "edit.read", "edit.publish",
                       "delete.publish"}

\* The events of m stray when nobody broadcasts a write of w, or when another
\* call of the sender, which has written before, has still to broadcast.
Stray(w, m) ==
    strayed' = IF \/ Via[w] = "http"
                  \/ \E v \in Worker : Unannounced(v) /\ call[v].msg = m
               THEN strayed \cup {m}
               ELSE strayed

-----------------------------------------------------------------------------
(* Create: membership is checked, the timestamp taken, the row inserted,   *)
(* the chat touched; the first and the last two are separate statements.   *)

CreateCheck(w, t) ==
    /\ At(w, "idle")
    /\ UserOf[w] \in member
    /\ call' = [call EXCEPT ![w] = Entered("create.stamp", NoMessage, t)]
    /\ UNCHANGED <<stored, updatedAt, member, clock, view, strayed>>

CreateStamp(w) ==
    /\ At(w, "create.stamp")
    /\ call' = [call EXCEPT ![w].stage = "create.insert", ![w].at = clock]
    /\ UNCHANGED <<stored, updatedAt, member, clock, view, strayed>>

CreateInsert(w, m) ==
    /\ At(w, "create.insert")
    /\ stored[m].state = "absent"
    /\ stored' = [stored EXCEPT ![m] = [state |-> "live", sender |-> UserOf[w],
                                        text |-> call[w].text, createdAt |-> call[w].at,
                                        deletedAt |-> 0]]
    /\ call' = [call EXCEPT ![w].stage = "create.touch", ![w].msg = m]
    /\ Stray(w, m)
    /\ UNCHANGED <<updatedAt, member, clock, view>>

CreateTouch(w) ==
    /\ At(w, "create.touch")
    /\ updatedAt' = call[w].at
    /\ PublishOrReturn(w, "create.publish")
    /\ UNCHANGED <<stored, member, clock, view, strayed>>

\* The broadcast carries the message as it was built by Create.
PublishNew(w) ==
    /\ At(w, "create.publish")
    /\ view' = [view EXCEPT ![call[w].msg] = [state |-> "live", text |-> call[w].text]]
    /\ Return(w)
    /\ UNCHANGED <<stored, updatedAt, member, clock, strayed>>

-----------------------------------------------------------------------------
(* EditMessage: sender, tombstone and age are read and checked once.       *)

InWindow(m) == clock - stored[m].createdAt <= Window

MayEdit_Deleted(w, m) == stored[m].state # "absent" /\ stored[m].sender = UserOf[w] /\ InWindow(m)
MayEdit_AnyAge(w, m)  == stored[m].state = "live" /\ stored[m].sender = UserOf[w]
MayEdit(w, m) ==
    /\ stored[m].state = "live"
    /\ stored[m].sender = UserOf[w]
    /\ InWindow(m)

EditCheck(w, m, t) ==
    /\ At(w, "idle")
    /\ MayEdit(w, m)
    /\ call' = [call EXCEPT ![w] = Entered("edit.write", m, t)]
    /\ UNCHANGED <<stored, updatedAt, member, clock, view, strayed>>

EditWrite(w) ==
    /\ At(w, "edit.write")
    /\ stored' = [stored EXCEPT ![call[w].msg].text = call[w].text]
    /\ Goto(w, "edit.read")
    /\ Stray(w, call[w].msg)
    /\ UNCHANGED <<updatedAt, member, clock, view>>

\* The row is read back: the text that is broadcast is the one in the row.
EditRead(w) ==
    /\ At(w, "edit.read")
    /\ IF Via[w] = "ws"
       THEN call' = [call EXCEPT ![w].stage = "edit.publish",
                                 ![w].text = stored[call[w].msg].text]
       ELSE Return(w)
    /\ UNCHANGED <<stored, updatedAt, member, clock, view, strayed>>

PublishEdited(w) ==
    /\ At(w, "edit.publish")
    /\ view' = [view EXCEPT ![call[w].msg].text = call[w].text]
    /\ Return(w)
    /\ UNCHANGED <<stored, updatedAt, member, clock, strayed>>

-----------------------------------------------------------------------------
(* DeleteMessage for everyone.  Without for_everyone it writes nothing and *)
(* nothing is broadcast.  A message that is deleted may be deleted again:  *)
(* it gets a new deletion time and is announced once more.                 *)

MayDelete(w, m) == stored[m].state # "absent" /\ stored[m].sender = UserOf[w]

DeleteCheck(w, m) ==
    /\ At(w, "idle")
    /\ MayDelete(w, m)
    /\ call' = [call EXCEPT ![w] = [Entered("delete.write", m, NoText) EXCEPT !.at = clock]]
    /\ UNCHANGED <<stored, updatedAt, member, clock, view, strayed>>

\* A delete that announces before it writes.
DeleteWrite_PublishFirst(w) ==
    /\ At(w, "delete.write")
    /\ view' = [view EXCEPT ![call[w].msg].state = "deleted"]
    /\ Goto(w, "delete.publish")
    /\ UNCHANGED <<stored, updatedAt, member, clock, strayed>>
DeleteWrite_NoTime(w) ==
    /\ At(w, "delete.write")
    /\ stored' = [stored EXCEPT ![call[w].msg].state = "deleted"]
    /\ PublishOrReturn(w, "delete.publish")
    /\ Stray(w, call[w].msg)
    /\ UNCHANGED <<updatedAt, member, clock, view>>
\* The time is taken somewhere between the check and the write.
DeleteWrite(w) ==
    /\ At(w, "delete.write")
    /\ \E t \in call[w].at .. clock :
          stored' = [stored EXCEPT ![call[w].msg].state = "deleted", ![call[w].msg].deletedAt = t]
    /\ PublishOrReturn(w, "delete.publish")
    /\ Stray(w, call[w].msg)
    /\ UNCHANGED <<updatedAt, member, clock, view>>

PublishDeleted(w) ==
    /\ At(w, "delete.publish")
    /\ view' = [view EXCEPT ![call[w].msg].state = "deleted"]
    /\ Return(w)
    /\ UNCHANGED <<stored, updatedAt, member, clock, strayed>>

-----------------------------------------------------------------------------
\* The group service adds and removes members under the handlers' feet.
MembershipChange(u) ==
    /\ member' = IF u \in member THEN member \ {u} ELSE member \cup {u}
    /\ UNCHANGED <<stored, updatedAt, clock, call, view, strayed>>

Tick ==
    /\ clock < MaxTime
    /\ clock' = clock + 1
    /\ UNCHANGED <<stored, updatedAt, member, call, view, strayed>>

\* A statement fails (SQLITE_BUSY): the handler returns an error and what
\* it has already written stays.  A failed touch of the chat is ignored, and
\* so is the failure of the query for the members of the chat with which a
\* broadcast begins (hub.go:89): then nobody is told.
StatementFails(w) ==
    /\ Faults
    /\ \/ /\ call[w].stage \in {"create.insert", "edit.write", "edit.read", "delete.write",
                               "create.publish", "edit.publish", "delete.publish"}
          /\ Return(w)
       \/ /\ At(w, "create.touch")
          /\ PublishOrReturn(w, "create.publish")
    /\ strayed' = IF Unannounced(w) /\ ~At(w, "create.touch")
                  THEN strayed \cup {call[w].msg} ELSE strayed
    /\ UNCHANGED <<stored, updatedAt, member, clock, view>>

\* The process dies: tables survive, calls in progress do not.
Crash ==
    /\ Faults
    /\ call' = [w \in Worker |-> Idle]
    /\ strayed' = strayed \cup {call[w].msg : w \in {v \in Worker : Unannounced(v)}}
    /\ UNCHANGED <<stored, updatedAt, member, clock, view>>

\* The steps of a call that has begun.
Step(w) ==
    \/ CreateStamp(w)
    \/ \E m \in Message : CreateInsert(w, m)
    \/ CreateTouch(w)
    \/ PublishNew(w)
    \/ EditWrite(w)
    \/ EditRead(w)
    \/ PublishEdited(w)
    \/ DeleteWrite(w)
    \/ PublishDeleted(w)

Begin(w) ==
    \/ \E t \in Text : CreateCheck(w, t)
    \/ \E m \in Message, t \in Text : EditCheck(w, m, t)
    \/ \E m \in Message : DeleteCheck(w, m)

Next ==
    \/ \E w \in Worker : Begin(w) \/ Step(w) \/ StatementFails(w)
    \/ \E u \in Leaver : MembershipChange(u)
    \/ Tick
    \/ Crash

Spec == Init /\ [][Next]_vars

\* A goroutine that has begun a call runs it to its end.
FairSpec == Spec /\ \A w \in Worker : WF_vars(Step(w))

-----------------------------------------------------------------------------
Quiet      == \A w \in Worker : At(w, "idle")
Editing(m) == \E w \in Worker : At(w, "edit.write") /\ call[w].msg = m

\* Broadcasts follow the commit (router.go handleMessage*): what the
\* observer has been told of a message is never ahead of the table.
ToldIsStored ==
    \A m \in Message :
        /\ view[m].state # "absent" => stored[m].state # "absent"
        /\ view[m].state = "deleted" => stored[m].state = "deleted"

\* Nothing of the row but the deletion time, which another delete writes again.
SameMessage(r, s) == s = [r EXCEPT !.deletedAt = s.deletedAt]

\* "cannot edit deleted message" (service.go:83): when a message is deleted
\* and no edit that passed its check before the delete is under way, it
\* stays deleted, with the text it has, and no new edit of it begins.  Its
\* deletion time is not final: DeleteMessage does not look whether the
\* message is deleted, and a second delete writes the time again.
DeletedIsFinal ==
    [][\A m \in Message :
        (stored[m].state = "deleted" /\ ~Editing(m))
            => SameMessage(stored[m], stored'[m]) /\ ~Editing(m)']_vars

\* When no handler is running the observer's feed agrees with the table: no
\* event was missed and none was applied out of order, for every message
\* that was not written over HTTP, by two connections of its sender at once,
\* or by a call that was cut short between its write and the end of its
\* broadcast.
FeedConverges ==
    Quiet => \A m \in Message \ strayed :
                /\ view[m].state = stored[m].state
                /\ view[m].text = stored[m].text

\* The 48-hour window (service.go:88): when a message is out of the window
\* and no edit of it has passed its check, its text is final, whatever
\* calls are made from then on.
FrozenAfterWindow ==
    [][\A m \in Message :
        (stored[m].state # "absent" /\ ~InWindow(m) /\ ~Editing(m))
            => stored'[m].text = stored[m].text /\ ~Editing(m)']_vars

\* A message deleted for everyone is announced ("Soft-delete & broadcast",
\* README.md:75).
DeleteAnnounced ==
    \A m \in Message : stored[m].state = "deleted" ~> view[m].state = "deleted"

\* It is, if the process lives, every delete came over a WebSocket, and the
\* broadcast could read the members of the chat.
DeleteAnnouncedOrStrayed ==
    \A m \in Message :
        stored[m].state = "deleted" ~> (view[m].state = "deleted" \/ m \in strayed)
=============================================================================
