---------------------------- MODULE MessagesProof ----------------------------
(***************************************************************************)
(* Theorems about Messages.  CallSound ties what a handler remembers of a  *)
(* row it has read or written to the table, which other handlers change    *)
(* meanwhile; with it what concerns rows is inductive.  FeedSound ties the *)
(* observer's copy of a message to its row and to the event under way.     *)
(***************************************************************************)
EXTENDS Messages, TLAPS

\* What a worker in the middle of a call may rely on.
CallSound ==
    \A w \in Worker : call[w].stage \notin {"idle", "create.stamp", "create.insert"} =>
        /\ call[w].msg \in Message
        /\ stored[call[w].msg].state # "absent"
        /\ stored[call[w].msg].sender = UserOf[w]
        /\ call[w].stage = "delete.publish" => stored[call[w].msg].state = "deleted"

-----------------------------------------------------------------------------
(* How the helpers change the calls.                                       *)

LEMMA EnteredType ==
    ASSUME NEW s \in Stage, NEW m \in Message \cup {NoMessage}, NEW t \in Text \cup {NoText},
           s \in {"create.stamp", "create.insert", "edit.write"} => t \in Text,
           s # "delete.write"
    PROVE  Entered(s, m, t) \in Call
BY DEF Entered, Call

LEMMA IdleType == Idle \in Call
BY EnteredType DEF Idle, Stage

LEMMA GotoType ==
    ASSUME NEW w \in Worker, NEW s \in Stage, call \in [Worker -> Call], Goto(w, s),
           s \notin {"create.stamp", "create.insert", "edit.write", "delete.write"}
    PROVE  call' \in [Worker -> Call]
BY DEF Goto, Call

LEMMA ReturnType ==
    ASSUME NEW w \in Worker, call \in [Worker -> Call], Return(w)
    PROVE  call' \in [Worker -> Call]
BY IdleType DEF Return

LEMMA PublishOrReturnType ==
    ASSUME NEW w \in Worker, NEW s \in Stage, call \in [Worker -> Call], PublishOrReturn(w, s),
           s \notin {"create.stamp", "create.insert", "edit.write", "delete.write"}
    PROVE  call' \in [Worker -> Call]
BY GotoType, ReturnType DEF PublishOrReturn

LEMMA StrayType ==
    ASSUME NEW w \in Worker, NEW m \in Message, strayed \in SUBSET Message, Stray(w, m)
    PROVE  strayed' \in SUBSET Message
BY DEF Stray

-----------------------------------------------------------------------------
LEMMA InitType == Init => TypeOK
<1>1. Absent \in Row /\ Unseen \in Seen
  BY DEF Absent, Unseen, Row, Seen, State
<1> QED
  BY <1>1, IdleType, ConstantsAssumption DEF Init, TypeOK

LEMMA NextType == TypeOK /\ CallSound /\ [Next]_vars => TypeOK'
<1> SUFFICES ASSUME TypeOK, CallSound, [Next]_vars PROVE TypeOK'
  OBVIOUS
<1> USE DEF TypeOK
<1>1. ASSUME NEW w \in Worker, Begin(w) PROVE TypeOK'
  <2>1. ASSUME NEW m \in Message, DeleteCheck(w, m) PROVE TypeOK'
    <3>1. call' \in [Worker -> Call]
      BY <2>1 DEF DeleteCheck, Entered, Call, Stage
    <3> QED
      BY <2>1, <3>1 DEF DeleteCheck
  <2>2. ASSUME NEW t \in Text, CreateCheck(w, t) PROVE TypeOK'
    BY <2>2, EnteredType DEF CreateCheck, Stage
  <2>3. ASSUME NEW m \in Message, NEW t \in Text, EditCheck(w, m, t) PROVE TypeOK'
    BY <2>3, EnteredType DEF EditCheck, Stage
  <2> QED
    BY <1>1, <2>1, <2>2, <2>3 DEF Begin
<1>2. ASSUME NEW w \in Worker, Step(w) PROVE TypeOK'
  <2>1. CASE CreateStamp(w)
    <3>0. clock \in Nat /\ call[w].text \in Text
      BY <2>1 DEF CreateStamp, At, Call
    <3>2. [call[w] EXCEPT !.stage = "create.insert", !.at = clock] \in Call
      BY <3>0 DEF Call, Stage
    <3>1. call' \in [Worker -> Call]
      BY <2>1, <3>2 DEF CreateStamp
    <3> QED
      BY <2>1, <3>1 DEF CreateStamp
  <2>2. ASSUME NEW m \in Message, CreateInsert(w, m) PROVE TypeOK'
    <3>0. \A c \in Call : [c EXCEPT !.stage = "create.touch", !.msg = m] \in Call
      BY DEF Call, Stage
    <3>1. call' \in [Worker -> Call]
      BY <2>2, <3>0 DEF CreateInsert
    <3>2. call[w].text \in Text /\ call[w].at \in Nat
      BY <2>2 DEF CreateInsert, At, Call
    <3>3. [state |-> "live", sender |-> UserOf[w], text |-> call[w].text,
           createdAt |-> call[w].at, deletedAt |-> 0] \in Row
      BY <3>2, ConstantsAssumption DEF Row, State
    <3>4. stored' \in [Message -> Row]
      BY <2>2, <3>3 DEF CreateInsert
    <3> QED
      BY <2>2, <3>1, <3>4, StrayType DEF CreateInsert
  <2>3. CASE CreateTouch(w)
    <3>1. call[w].at \in Nat
      BY DEF Call
    <3> QED
      BY <2>3, <3>1, PublishOrReturnType DEF CreateTouch, Stage
  <2>4. CASE PublishNew(w)
    <3>1. view' \in [Message -> Seen]
      BY <2>4 DEF PublishNew, Call, Seen, State
    <3> QED
      BY <2>4, <3>1, ReturnType DEF PublishNew
  <2>5. CASE EditWrite(w)
    <3>3. call[w].text \in Text
      BY <2>5 DEF EditWrite, At, Call
    <3>4. \A r \in Row : [r EXCEPT !.text = call[w].text] \in Row
      BY <3>3 DEF Row
    <3>1. stored' \in [Message -> Row]
      BY <2>5, <3>4 DEF EditWrite
    <3>2. call[w].msg \in Message
      BY <2>5 DEF EditWrite, CallSound, At
    <3> QED
      BY <2>5, <3>1, <3>2, GotoType, StrayType DEF EditWrite, Stage
  <2>6. CASE EditRead(w)
    <3>1. CASE Via[w] = "ws"
      BY <2>6, <3>1 DEF EditRead, Call, Row, Stage
    <3>2. CASE Via[w] # "ws"
      BY <2>6, <3>2, ReturnType DEF EditRead
    <3> QED
      BY <3>1, <3>2
  <2>7. CASE PublishEdited(w)
    <3>1. view' \in [Message -> Seen]
      BY <2>7 DEF PublishEdited, Call, Seen
    <3> QED
      BY <2>7, <3>1, ReturnType DEF PublishEdited
  <2>8. CASE DeleteWrite(w)
    <3>2. call[w].msg \in Message /\ stored[call[w].msg].state # "absent"
      BY <2>8 DEF DeleteWrite, CallSound, At
    <3>1. stored' \in [Message -> Row]
      BY <2>8, <3>2 DEF DeleteWrite, At, Call, Row, State
    <3> QED
      BY <2>8, <3>1, <3>2, PublishOrReturnType, StrayType DEF DeleteWrite, Stage
  <2>9. CASE PublishDeleted(w)
    <3>1. view' \in [Message -> Seen]
      BY <2>9 DEF PublishDeleted, Seen, State
    <3> QED
      BY <2>9, <3>1, ReturnType DEF PublishDeleted
  <2> QED
    BY <1>2, <2>1, <2>2, <2>3, <2>4, <2>5, <2>6, <2>7, <2>8, <2>9 DEF Step
<1>3. ASSUME NEW w \in Worker, StatementFails(w) PROVE TypeOK'
  <2>1. Unannounced(w) => call[w].msg \in Message
    BY DEF CallSound, Unannounced
  <2> QED
    BY <1>3, <2>1, PublishOrReturnType, ReturnType DEF StatementFails, Stage
<1>4. ASSUME NEW u \in Leaver, MembershipChange(u) PROVE TypeOK'
  BY <1>4, ConstantsAssumption DEF MembershipChange
<1>5. CASE Tick
  BY <1>5 DEF Tick
<1>6. CASE Crash
  <2>1. \A w \in Worker : Unannounced(w) => call[w].msg \in Message
    BY DEF CallSound, Unannounced
  <2> QED
    BY <1>6, <2>1, IdleType DEF Crash
<1>7. CASE UNCHANGED vars
  BY <1>7 DEF vars
<1> QED
  BY <1>1, <1>2, <1>3, <1>4, <1>5, <1>6, <1>7 DEF Next

-----------------------------------------------------------------------------
\* What no step does to a row: remove it, give it another sender or another
\* birth, undelete it.
LEMMA RowHistory ==
    ASSUME TypeOK, [Next]_vars, NEW m \in Message, stored[m].state # "absent"
    PROVE  /\ stored'[m].state # "absent"
           /\ stored'[m].sender = stored[m].sender
           /\ stored'[m].createdAt = stored[m].createdAt
           /\ stored[m].state = "deleted" => stored'[m].state = "deleted"
<1> USE DEF TypeOK
<1>1. ASSUME NEW w \in Worker, NEW n \in Message, CreateInsert(w, n) PROVE stored'[m] = stored[m]
  BY <1>1 DEF CreateInsert
<1>2. ASSUME NEW w \in Worker, EditWrite(w)
      PROVE  /\ stored'[m].state = stored[m].state
             /\ stored'[m].sender = stored[m].sender
             /\ stored'[m].createdAt = stored[m].createdAt
  BY <1>2 DEF EditWrite, Row
<1>3. ASSUME NEW w \in Worker, DeleteWrite(w)
      PROVE  /\ stored'[m].state \in {stored[m].state, "deleted"}
             /\ stored'[m].sender = stored[m].sender
             /\ stored'[m].createdAt = stored[m].createdAt
  BY <1>3 DEF DeleteWrite, Row
<1>4. CASE UNCHANGED stored
  BY <1>4
<1> QED
  BY <1>1, <1>2, <1>3, <1>4
  DEF Next, Begin, Step, vars, CreateCheck, CreateStamp, CreateTouch, PublishNew, EditCheck,
      EditRead, PublishEdited, DeleteCheck, PublishDeleted, StatementFails, MembershipChange,
      Tick, Crash

\* A step changes the call of one worker only, except for a crash.
LEMMA OneCall ==
    ASSUME TypeOK, NEW w \in Worker, NEW v \in Worker, v # w,
           Begin(w) \/ Step(w) \/ StatementFails(w)
    PROVE  call'[v] = call[v]
BY DEF TypeOK, Begin, Step, StatementFails, CreateCheck, CreateStamp, CreateInsert, CreateTouch,
       PublishNew, EditCheck, EditWrite, EditRead, PublishEdited, DeleteCheck, DeleteWrite,
       PublishDeleted, PublishOrReturn, Goto, Return

LEMMA NextCallSound == TypeOK /\ CallSound /\ [Next]_vars => CallSound'
<1> SUFFICES ASSUME TypeOK, CallSound, [Next]_vars, NEW w \in Worker,
                    call'[w].stage \notin {"idle", "create.stamp", "create.insert"}
             PROVE  /\ call'[w].msg \in Message
                    /\ stored'[call'[w].msg].state # "absent"
                    /\ stored'[call'[w].msg].sender = UserOf[w]
                    /\ call'[w].stage = "delete.publish"
                          => stored'[call'[w].msg].state = "deleted"
  BY DEF CallSound
<1>1. CASE call'[w] = call[w]
  BY <1>1, RowHistory DEF CallSound
<1>2. CASE Begin(w)
  <2>1. ASSUME NEW m \in Message, DeleteCheck(w, m) \/ \E t \in Text : EditCheck(w, m, t)
        PROVE  /\ call'[w].msg = m
               /\ call'[w].stage # "delete.publish"
               /\ stored[m].state # "absent" /\ stored[m].sender = UserOf[w]
    BY <2>1 DEF EditCheck, DeleteCheck, MayEdit, MayDelete, Entered, TypeOK
  <2>2. ASSUME NEW t \in Text, CreateCheck(w, t) PROVE FALSE
    BY <2>2 DEF CreateCheck, Entered, TypeOK
  <2> QED
    BY <1>2, <2>1, <2>2, RowHistory DEF Begin
<1>3. CASE Step(w) \/ StatementFails(w)
  <2>1. ASSUME NEW m \in Message, CreateInsert(w, m)
        PROVE  /\ call'[w].msg = m
               /\ call'[w].stage = "create.touch"
               /\ stored'[m].state # "absent" /\ stored'[m].sender = UserOf[w]
    BY <2>1 DEF CreateInsert, TypeOK, Call
  <2>2. CASE DeleteWrite(w)
    <3>1. /\ call[w].stage = "delete.write"
          /\ call'[w].msg = call[w].msg
      BY <2>2, <1>3 DEF DeleteWrite, At, PublishOrReturn, Goto, Return, Idle, Entered, TypeOK, Call
    <3>2. call[w].msg \in Message
      BY <3>1 DEF CallSound
    <3>3. stored'[call[w].msg].state = "deleted"
      BY <2>2, <3>2 DEF DeleteWrite, TypeOK, Row
    <3> QED
      BY <3>1, <3>2, <3>3, RowHistory DEF CallSound
  <2>3. CASE \/ CreateTouch(w) \/ EditWrite(w) \/ EditRead(w) \/ StatementFails(w)
    <3>1. /\ call'[w].msg = call[w].msg
          /\ call'[w].stage # "delete.publish"
          /\ call[w].stage \notin {"idle", "create.stamp", "create.insert"}
      BY <2>3 DEF CreateTouch, EditWrite, EditRead, StatementFails, At, PublishOrReturn, Goto,
                  Return, Idle, Entered, TypeOK, Call
    <3> QED
      BY <3>1, RowHistory DEF CallSound
  <2>4. CASE CreateStamp(w) \/ PublishNew(w) \/ PublishEdited(w) \/ PublishDeleted(w)
    BY <2>4 DEF CreateStamp, PublishNew, PublishEdited, PublishDeleted, Return, Idle, Entered,
                TypeOK, Call
  <2> QED
    BY <1>3, <2>1, <2>2, <2>3, <2>4 DEF Step
<1>4. CASE \E v \in Worker : v # w /\ (Begin(v) \/ Step(v) \/ StatementFails(v))
  BY <1>1, <1>4, OneCall
<1>5. CASE (\E u \in Leaver : MembershipChange(u)) \/ Tick \/ UNCHANGED vars
  BY <1>1, <1>5 DEF MembershipChange, Tick, vars
<1>6. CASE Crash
  BY <1>6 DEF Crash, Idle, Entered
<1> QED
  BY <1>2, <1>3, <1>4, <1>5, <1>6 DEF Next

LEMMA InitCallSound == Init => CallSound
BY DEF Init, CallSound, Idle, Entered

\* The variables keep their types: every handler step writes well-formed rows.
THEOREM TypeCorrect == Spec => []TypeOK
BY InitType, NextType, InitCallSound, NextCallSound, PTL DEF Spec

-----------------------------------------------------------------------------
LEMMA NextTold == TypeOK /\ CallSound /\ ToldIsStored /\ [Next]_vars => ToldIsStored'
<1> SUFFICES ASSUME TypeOK, CallSound, ToldIsStored, [Next]_vars, NEW m \in Message
             PROVE  /\ view'[m].state # "absent" => stored'[m].state # "absent"
                    /\ view'[m].state = "deleted" => stored'[m].state = "deleted"
  BY DEF ToldIsStored
<1>1. CASE view'[m].state = view[m].state
  BY <1>1, RowHistory DEF ToldIsStored, TypeOK, Row, State
<1>2. ASSUME NEW w \in Worker, PublishNew(w), view'[m].state # view[m].state
      PROVE  view'[m].state = "live" /\ stored'[m].state # "absent"
  <2>1. call[w].msg = m /\ view'[m].state = "live"
    BY <1>2 DEF PublishNew, TypeOK, Seen
  <2>2. stored[m].state # "absent"
    BY <1>2, <2>1 DEF PublishNew, CallSound, At
  <2> QED
    BY <2>1, <2>2, RowHistory
<1>3. ASSUME NEW w \in Worker, PublishDeleted(w), view'[m].state # view[m].state
      PROVE  stored'[m].state = "deleted"
  <2>1. call[w].msg = m
    BY <1>3 DEF PublishDeleted, TypeOK, Seen
  <2>2. stored[m].state = "deleted"
    BY <1>3, <2>1 DEF PublishDeleted, CallSound, At
  <2> QED
    BY <2>2, RowHistory
<1>4. ASSUME NEW w \in Worker, PublishEdited(w) PROVE view'[m].state = view[m].state
  BY <1>4 DEF PublishEdited, TypeOK, Seen
<1>5. CASE UNCHANGED view
  BY <1>1, <1>5
<1> QED
  BY <1>1, <1>2, <1>3, <1>4, <1>5
  DEF Next, Begin, Step, vars, CreateCheck, CreateStamp, CreateInsert, CreateTouch, EditCheck,
      EditWrite, EditRead, DeleteCheck, DeleteWrite, StatementFails, MembershipChange, Tick, Crash

\* A member is never told of a message, or of a deletion, that the table does
\* not have: with crashes, failing statements, HTTP calls and any number of
\* connections (the broadcast comes after the write in every handler).
THEOREM NeverAheadOfTheTable == Spec => []ToldIsStored
<1>1. Init => ToldIsStored
  BY DEF Init, ToldIsStored, Unseen
<1> QED
  BY <1>1, InitType, NextType, InitCallSound, NextCallSound, NextTold, PTL DEF Spec

-----------------------------------------------------------------------------
\* What a call that has just begun an edit has checked.
LEMMA EditBegins ==
    ASSUME TypeOK, NEW w \in Worker, Begin(w), call'[w].stage = "edit.write"
    PROVE  call'[w].msg \in Message /\ MayEdit(w, call'[w].msg) /\ stored' = stored
<1>1. ASSUME NEW t \in Text, CreateCheck(w, t) PROVE FALSE
  BY <1>1 DEF CreateCheck, Entered, TypeOK
<1>2. ASSUME NEW m \in Message, DeleteCheck(w, m) PROVE FALSE
  <2>1. call'[w] = [Entered("delete.write", m, NoText) EXCEPT !.at = clock]
    BY <1>2 DEF DeleteCheck, TypeOK
  <2> QED
    BY <2>1 DEF Entered
<1>3. ASSUME NEW m \in Message, NEW t \in Text, EditCheck(w, m, t)
      PROVE  call'[w].msg \in Message /\ MayEdit(w, call'[w].msg) /\ stored' = stored
  BY <1>3 DEF EditCheck, Entered, TypeOK
<1> QED
  BY <1>1, <1>2, <1>3 DEF Begin

\* Who may not edit a message begins no edit of it.
LEMMA NoNewEdit ==
    ASSUME TypeOK, [Next]_vars, NEW m \in Message, ~Editing(m),
           \A w \in Worker : ~MayEdit(w, m)
    PROVE  ~Editing(m)'
<1>1. ASSUME NEW w \in Worker, call'[w].stage = "edit.write", call'[w].msg = m PROVE FALSE
  <2>1. CASE call'[w] = call[w]
    BY <1>1, <2>1 DEF Editing, At
  <2>2. CASE Begin(w)
    BY <1>1, <2>2, EditBegins
  <2>3. CASE Step(w) \/ StatementFails(w)
    <3>1. call'[w].stage # "edit.write"
      BY <2>3 DEF Step, StatementFails, CreateStamp, CreateInsert, CreateTouch, PublishNew,
                  EditWrite, EditRead, PublishEdited, DeleteWrite, PublishDeleted,
                  PublishOrReturn, Goto, Return, Idle, Entered, TypeOK, Call
    <3> QED
      BY <1>1, <3>1
  <2>4. CASE \E v \in Worker : v # w /\ (Begin(v) \/ Step(v) \/ StatementFails(v))
    BY <2>1, <2>4, OneCall
  <2>5. CASE (\E u \in Leaver : MembershipChange(u)) \/ Tick \/ UNCHANGED vars
    BY <2>1, <2>5 DEF MembershipChange, Tick, vars
  <2>6. CASE Crash
    BY <1>1, <2>6 DEF Crash, Idle, Entered
  <2> QED
    BY <2>2, <2>3, <2>4, <2>5, <2>6 DEF Next
<1> QED
  BY <1>1 DEF Editing, At

LEMMA FrozenStep ==
    ASSUME TypeOK, [Next]_vars, NEW m \in Message, stored[m].state # "absent", ~Editing(m)
    PROVE  /\ stored'[m].text = stored[m].text
           /\ stored[m].state = "deleted" => SameMessage(stored[m], stored'[m])
<1>1. ASSUME NEW w \in Worker, NEW n \in Message, CreateInsert(w, n) PROVE stored'[m] = stored[m]
  BY <1>1 DEF CreateInsert, TypeOK
<1>2. ASSUME NEW w \in Worker, EditWrite(w) PROVE stored'[m] = stored[m]
  <2>1. call[w].msg # m
    BY <1>2 DEF EditWrite, Editing
  <2> QED
    BY <1>2, <2>1 DEF EditWrite, TypeOK
<1>3. ASSUME NEW w \in Worker, DeleteWrite(w)
      PROVE  /\ stored'[m].text = stored[m].text
             /\ stored[m].state = "deleted" => SameMessage(stored[m], stored'[m])
  BY <1>3 DEF DeleteWrite, SameMessage, TypeOK, Row
<1>4. SameMessage(stored[m], stored[m])
  BY DEF SameMessage, TypeOK, Row
<1>5. CASE UNCHANGED stored
  BY <1>4, <1>5
<1> QED
  BY <1>1, <1>2, <1>3, <1>4, <1>5
  DEF Next, Begin, Step, vars, CreateCheck, CreateStamp, CreateTouch, PublishNew, EditCheck,
      EditRead, PublishEdited, DeleteCheck, PublishDeleted, StatementFails, MembershipChange,
      Tick, Crash

\* The edit window holds whatever the interleaving: once a message has left
\* the window and the edits checked before have been written, no call
\* changes its text.
THEOREM WindowIsFinal == Spec => FrozenAfterWindow
<1>1. TypeOK /\ CallSound /\ [Next]_vars =>
        [\A m \in Message : (stored[m].state # "absent" /\ ~InWindow(m) /\ ~Editing(m))
            => stored'[m].text = stored[m].text /\ ~Editing(m)']_vars
  BY FrozenStep, NoNewEdit DEF MayEdit
<1> QED
  BY <1>1, InitType, NextType, InitCallSound, NextCallSound, PTL DEF Spec, FrozenAfterWindow

\* When the edits that were checked before a deletion are over, a deleted
\* message stays deleted and keeps its text, and no edit of it begins, however
\* many connections the sender has; only its deletion time may be written again.
THEOREM DeletionIsFinal == Spec => DeletedIsFinal
<1>1. TypeOK /\ CallSound /\ [Next]_vars =>
        [\A m \in Message : (stored[m].state = "deleted" /\ ~Editing(m))
            => SameMessage(stored[m], stored'[m]) /\ ~Editing(m)']_vars
  BY FrozenStep, NoNewEdit DEF MayEdit
<1> QED
  BY <1>1, InitType, NextType, InitCallSound, NextCallSound, PTL DEF Spec, DeletedIsFinal

-----------------------------------------------------------------------------
\* Every user runs one call at a time.
Sequential == \A v, w \in Worker : UserOf[v] = UserOf[w] => v = w

\* With sequential senders an edit writes the live row it has checked.
EditsLive ==
    \A w \in Worker : call[w].stage = "edit.write" => stored[call[w].msg].state = "live"

LEMMA NextEditsLive ==
    ASSUME Sequential
    PROVE  TypeOK /\ CallSound /\ EditsLive /\ [Next]_vars => EditsLive'
<1> SUFFICES ASSUME TypeOK, CallSound, EditsLive, [Next]_vars, NEW w \in Worker,
                    call'[w].stage = "edit.write"
             PROVE  stored'[call'[w].msg].state = "live"
  BY DEF EditsLive
<1>1. CASE Begin(w)
  BY <1>1, EditBegins DEF MayEdit
<1>2. CASE Step(w) \/ StatementFails(w)
  BY <1>2 DEF Step, StatementFails, CreateStamp, CreateInsert, CreateTouch, PublishNew,
              EditWrite, EditRead, PublishEdited, DeleteWrite, PublishDeleted,
              PublishOrReturn, Goto, Return, Idle, Entered, TypeOK, Call
<1>3. ASSUME NEW v \in Worker, v # w, Begin(v) \/ Step(v) \/ StatementFails(v)
      PROVE  stored'[call'[w].msg].state = "live"
  <2>1. call'[w] = call[w] /\ call[w].stage = "edit.write"
    BY <1>3, OneCall
  <2>2. /\ call[w].msg \in Message
        /\ stored[call[w].msg].state = "live"
        /\ stored[call[w].msg].sender = UserOf[w]
    BY <2>1 DEF CallSound, EditsLive
  <2>3. ASSUME DeleteWrite(v) PROVE call[v].msg # call[w].msg
    BY <1>3, <2>2, <2>3, Sequential DEF Sequential, DeleteWrite, CallSound, At
  <2>4. stored'[call[w].msg].state = stored[call[w].msg].state
    <3>1. CASE DeleteWrite(v)
      BY <2>2, <2>3, <3>1 DEF DeleteWrite, TypeOK
    <3>2. CASE EditWrite(v)
      BY <2>2, <3>2 DEF EditWrite, TypeOK, Row
    <3>3. ASSUME NEW n \in Message, CreateInsert(v, n)
          PROVE  stored'[call[w].msg].state = stored[call[w].msg].state
      BY <2>2, <3>3 DEF CreateInsert, TypeOK
    <3>4. CASE UNCHANGED stored
      BY <3>4
    <3> QED
      BY <1>3, <3>1, <3>2, <3>3, <3>4
      DEF Begin, Step, CreateCheck, CreateStamp, CreateTouch, PublishNew, EditCheck,
          EditRead, PublishEdited, DeleteCheck, PublishDeleted, StatementFails
  <2> QED
    BY <2>1, <2>2, <2>4
<1>4. CASE (\E u \in Leaver : MembershipChange(u)) \/ Tick \/ UNCHANGED vars
  BY <1>4 DEF MembershipChange, Tick, vars, EditsLive
<1>5. CASE Crash
  BY <1>5 DEF Crash, Idle, Entered
<1> QED
  BY <1>1, <1>2, <1>3, <1>4, <1>5 DEF Next

\* A sender who runs one call at a time, as a user with one WebSocket
\* connection does (its ReadPump is sequential), has no edit under way when
\* a delete is written: nothing but the deletion time, if the message is
\* deleted once more, changes from the delete on.
THEOREM SequentialDeletion ==
    ASSUME Sequential
    PROVE  Spec => [][\A m \in Message :
                        stored[m].state = "deleted" => SameMessage(stored[m], stored'[m])]_vars
<1>1. Init => EditsLive
  BY DEF Init, EditsLive, Idle, Entered
<1>2. TypeOK /\ CallSound /\ EditsLive /\ [Next]_vars => EditsLive'
  BY NextEditsLive
<1>3. TypeOK /\ EditsLive /\ [Next]_vars =>
        [\A m \in Message :
            stored[m].state = "deleted" => SameMessage(stored[m], stored'[m])]_vars
  BY FrozenStep DEF EditsLive, Editing, At
<1> QED
  BY <1>1, <1>2, <1>3, InitType, NextType, InitCallSound, NextCallSound, PTL DEF Spec
-----------------------------------------------------------------------------
(* The feed.  A message that has not strayed is owed at most one event, by *)
(* a WebSocket worker that will send what the table says; when it is owed  *)
(* none, the observer's copy is the table's.                               *)

Owes(w, m) == Unannounced(w) /\ call[w].msg = m
Agrees(m)  == view[m].state = stored[m].state /\ view[m].text = stored[m].text

\* The event that w has still to send brings the observer's copy of m up to
\* the row.
Announces(w, m) ==
    /\ call[w].stage \in {"create.touch", "create.publish"} =>
          stored[m].state = "live" /\ stored[m].text = call[w].text
    /\ call[w].stage \in {"edit.read", "edit.publish"} => view[m].state = stored[m].state
    /\ call[w].stage = "edit.publish" => stored[m].text = call[w].text
    /\ call[w].stage = "delete.publish" =>
          stored[m].state = "deleted" /\ view[m].text = stored[m].text

FeedOf(m) ==
    /\ (\A w \in Worker : ~Owes(w, m)) => Agrees(m)
    /\ \A w \in Worker : Owes(w, m) =>
          /\ Via[w] = "ws"
          /\ Announces(w, m)
          /\ \A v \in Worker \ {w} : ~Owes(v, m)

FeedSound == \A m \in Message \ strayed : FeedOf(m)

\* The step of w concerns another message.
LEMMA OtherMessage ==
    ASSUME NEW m \in Message, NEW w \in Worker, FeedOf(m),
           \A v \in Worker \ {w} : call'[v] = call[v],
           stored'[m] = stored[m], view'[m] = view[m],
           ~Owes(w, m), ~Owes(w, m)'
    PROVE  FeedOf(m)'
<1>1. \A v \in Worker : Owes(v, m)' <=> Owes(v, m)
  BY DEF Owes, Unannounced
<1>2. \A v \in Worker : Owes(v, m) /\ Announces(v, m) => Announces(v, m)'
  BY DEF Announces
<1>3. Agrees(m)' <=> Agrees(m)
  BY DEF Agrees
<1> QED
  BY <1>1, <1>2, <1>3 DEF FeedOf

\* After its step w is the one that owes the event of m.
LEMMA OneOwes ==
    ASSUME NEW m \in Message, NEW w \in Worker,
           \A v \in Worker \ {w} : ~Owes(v, m) /\ call'[v] = call[v],
           Via[w] = "ws", Owes(w, m)', Announces(w, m)'
    PROVE  FeedOf(m)'
<1>1. \A v \in Worker \ {w} : ~Owes(v, m)'
  BY DEF Owes, Unannounced
<1> QED
  BY <1>1 DEF FeedOf

\* The step of w sends the event of m.
LEMMA NoneOwes ==
    ASSUME NEW m \in Message, NEW w \in Worker,
           \A v \in Worker \ {w} : ~Owes(v, m) /\ call'[v] = call[v],
           ~Owes(w, m)', Agrees(m)'
    PROVE  FeedOf(m)'
<1>1. \A v \in Worker : ~Owes(v, m)'
  BY DEF Owes, Unannounced
<1> QED
  BY <1>1 DEF FeedOf

LEMMA WriteFeed ==
    ASSUME TypeOK, CallSound, NEW m \in Message, FeedOf(m), m \notin strayed', NEW w \in Worker,
           (\E n \in Message : CreateInsert(w, n)) \/ EditWrite(w) \/ DeleteWrite(w)
    PROVE  FeedOf(m)'
<1> USE DEF TypeOK
<1>1. \A v \in Worker \ {w} : call'[v] = call[v]
  BY OneCall DEF Step
<1>2. ~Owes(w, m)
  BY DEF Owes, Unannounced, CreateInsert, EditWrite, DeleteWrite, At
<1>3. ASSUME NEW n \in Message, n # m,
             CreateInsert(w, n) \/ (n = call[w].msg /\ (EditWrite(w) \/ DeleteWrite(w)))
      PROVE  FeedOf(m)'
  <2>1. stored'[m] = stored[m] /\ view'[m] = view[m]
    BY <1>3 DEF CreateInsert, EditWrite, DeleteWrite
  <2>2. ~Owes(w, m)'
    BY <1>3, ConstantsAssumption DEF CreateInsert, EditWrite, DeleteWrite, PublishOrReturn, Goto,
       Return, Idle, Entered, Owes, Unannounced, Call
  <2> QED
    BY <1>1, <1>2, <2>1, <2>2, OtherMessage
<1>4. ASSUME Stray(w, m) PROVE Via[w] = "ws" /\ \A v \in Worker : ~Owes(v, m)
  BY <1>4, ConstantsAssumption DEF Stray, Owes
<1>5. ASSUME CreateInsert(w, m) PROVE FeedOf(m)'
  <2>1. Stray(w, m)
    BY <1>5 DEF CreateInsert
  <2>2. call'[w].stage = "create.touch" /\ call'[w].msg = m /\ call'[w].text = call[w].text
    BY <1>5 DEF CreateInsert, Call
  <2>3. stored'[m].state = "live" /\ stored'[m].text = call[w].text
    BY <1>5 DEF CreateInsert
  <2>4. Owes(w, m)' /\ Announces(w, m)'
    BY <2>2, <2>3 DEF Owes, Unannounced, Announces
  <2> QED
    BY <1>1, <1>4, <2>1, <2>4, OneOwes
<1>6. ASSUME EditWrite(w), call[w].msg = m PROVE FeedOf(m)'
  <2>1. Stray(w, m)
    BY <1>6 DEF EditWrite
  <2>2. call'[w].stage = "edit.read" /\ call'[w].msg = m
    BY <1>6 DEF EditWrite, Goto, Call
  <2>3. stored'[m].state = stored[m].state /\ view' = view
    BY <1>6 DEF EditWrite, Row
  <2>4. Agrees(m)
    BY <1>4, <2>1 DEF FeedOf
  <2>5. Owes(w, m)' /\ Announces(w, m)'
    BY <2>2, <2>3, <2>4 DEF Owes, Unannounced, Announces, Agrees
  <2> QED
    BY <1>1, <1>4, <2>1, <2>5, OneOwes
<1>7. ASSUME DeleteWrite(w), call[w].msg = m PROVE FeedOf(m)'
  <2>1. Stray(w, m)
    BY <1>7 DEF DeleteWrite
  <2>2. call'[w].stage = "delete.publish" /\ call'[w].msg = m
    <3>1. PublishOrReturn(w, "delete.publish")
      BY <1>7 DEF DeleteWrite
    <3> QED
      BY <1>4, <1>7, <2>1, <3>1 DEF PublishOrReturn, Goto, Call
  <2>3. /\ stored'[m].state = "deleted" /\ stored'[m].text = stored[m].text
        /\ view' = view
    <3>1. PICK t : stored' = [stored EXCEPT ![m].state = "deleted", ![m].deletedAt = t]
      BY <1>7 DEF DeleteWrite
    <3>2. stored'[m] = [stored[m] EXCEPT !.state = "deleted", !.deletedAt = t]
      BY <3>1
    <3>3. view' = view
      BY <1>7 DEF DeleteWrite
    <3> QED
      BY <3>2, <3>3 DEF Row
  <2>4. Agrees(m)
    BY <1>4, <2>1 DEF FeedOf
  <2>5. Owes(w, m)' /\ Announces(w, m)'
    BY <2>2, <2>3, <2>4 DEF Owes, Unannounced, Announces, Agrees
  <2> QED
    BY <1>1, <1>4, <2>1, <2>5, OneOwes
<1>8. EditWrite(w) \/ DeleteWrite(w) => call[w].msg \in Message
  BY DEF EditWrite, DeleteWrite, CallSound, At
<1> QED
  BY <1>3, <1>5, <1>6, <1>7, <1>8

\* What w does between its write and the end of its call.
LEMMA PublishFeed ==
    ASSUME TypeOK, CallSound, NEW m \in Message, FeedOf(m), NEW w \in Worker,
           \/ CreateTouch(w) \/ PublishNew(w) \/ EditRead(w) \/ PublishEdited(w)
           \/ PublishDeleted(w)
           \/ (At(w, "create.touch") /\ StatementFails(w))
    PROVE  FeedOf(m)'
<1> USE DEF TypeOK
<1>1. \A v \in Worker \ {w} : call'[v] = call[v]
  BY OneCall DEF Step
<1>2. Unannounced(w) /\ call[w].msg \in Message
  BY DEF CreateTouch, PublishNew, EditRead, PublishEdited, PublishDeleted, Unannounced, At,
         CallSound
<1>3. CASE call[w].msg # m
  <2>1. stored'[m] = stored[m] /\ view'[m] = view[m]
    BY <1>3 DEF CreateTouch, PublishNew, EditRead, PublishEdited, PublishDeleted, StatementFails
  <2>2. call'[w].msg \in {call[w].msg, NoMessage}
    BY DEF CreateTouch, PublishNew, EditRead, PublishEdited, PublishDeleted, StatementFails,
           PublishOrReturn, Goto, Return, Idle, Entered, Call
  <2>3. ~Owes(w, m) /\ ~Owes(w, m)'
    BY <1>3, <2>2, ConstantsAssumption DEF Owes
  <2> QED
    BY <1>1, <2>1, <2>3, OtherMessage
<1>4. CASE call[w].msg = m
  <2>1. Owes(w, m)
    BY <1>2, <1>4 DEF Owes
  <2>2. /\ Via[w] = "ws"
        /\ Announces(w, m)
        /\ \A v \in Worker \ {w} : ~Owes(v, m)
    BY <2>1 DEF FeedOf
  <2>3. CASE CreateTouch(w) \/ (At(w, "create.touch") /\ StatementFails(w))
    <3>1. /\ call'[w].stage = "create.publish" /\ call'[w].msg = m
          /\ call'[w].text = call[w].text
      BY <1>4, <2>2, <2>3 DEF CreateTouch, StatementFails, At, PublishOrReturn, Goto, Call
    <3>2. At(w, "create.touch") /\ stored' = stored
      BY <2>3 DEF CreateTouch, StatementFails
    <3>3. Owes(w, m)' /\ Announces(w, m)'
      BY <2>2, <3>1, <3>2 DEF Owes, Unannounced, Announces, At
    <3> QED
      BY <1>1, <2>2, <3>3, OneOwes
  <2>4. CASE EditRead(w)
    <3>1. /\ call'[w].stage = "edit.publish" /\ call'[w].msg = m
          /\ call'[w].text = stored[m].text
      BY <1>4, <2>2, <2>4 DEF EditRead, Call
    <3>2. At(w, "edit.read") /\ stored' = stored /\ view' = view
      BY <2>4 DEF EditRead
    <3>3. Owes(w, m)' /\ Announces(w, m)'
      BY <2>2, <3>1, <3>2 DEF Owes, Unannounced, Announces, At
    <3> QED
      BY <1>1, <2>2, <3>3, OneOwes
  <2>5. CASE PublishNew(w) \/ PublishEdited(w) \/ PublishDeleted(w)
    <3>1. ~Owes(w, m)'
      BY <2>5 DEF PublishNew, PublishEdited, PublishDeleted, Return, Idle, Entered, Owes,
         Unannounced
    <3>2. Agrees(m)'
      BY <1>4, <2>2, <2>5 DEF PublishNew, PublishEdited, PublishDeleted, Announces, At, Agrees, Seen
    <3> QED
      BY <1>1, <2>2, <3>1, <3>2, NoneOwes
  <2> QED
    BY <2>3, <2>4, <2>5
<1> QED
  BY <1>3, <1>4

LEMMA StrayedGrows == [Next]_vars => strayed \subseteq strayed'
BY DEF Next, vars, Begin, Step, CreateCheck, CreateStamp, CreateInsert, CreateTouch, PublishNew,
       EditCheck, EditWrite, EditRead, PublishEdited, DeleteCheck, DeleteWrite, PublishDeleted,
       StatementFails, MembershipChange, Tick, Crash, Stray

LEMMA NextFeedSound == TypeOK /\ CallSound /\ FeedSound /\ [Next]_vars => FeedSound'
<1> SUFFICES ASSUME TypeOK, CallSound, FeedSound, [Next]_vars,
                    NEW m \in Message, m \notin strayed'
             PROVE  FeedOf(m)'
  BY DEF FeedSound
<1>1. m \notin strayed
  BY StrayedGrows
<1>2. FeedOf(m)
  BY <1>1 DEF FeedSound
<1>3. ASSUME NEW w \in Worker,
             \/ Begin(w) \/ CreateStamp(w)
             \/ (StatementFails(w) /\ ~At(w, "create.touch"))
      PROVE  FeedOf(m)'
  <2>1. \A v \in Worker \ {w} : call'[v] = call[v]
    BY <1>3, OneCall DEF Step
  <2>2. stored' = stored /\ view' = view
    BY <1>3 DEF Begin, CreateCheck, EditCheck, DeleteCheck, CreateStamp, StatementFails
  <2>3. ~Owes(w, m)
    BY <1>3 DEF Begin, CreateCheck, EditCheck, DeleteCheck, CreateStamp, StatementFails, At, Owes,
       Unannounced
  <2>4. ~Owes(w, m)'
    <3>1. ASSUME NEW n \in Message, DeleteCheck(w, n) PROVE ~Owes(w, m)'
      <4>1. call'[w] = [Entered("delete.write", n, NoText) EXCEPT !.at = clock]
        BY <3>1 DEF DeleteCheck, TypeOK
      <4> QED
        BY <4>1 DEF Entered, Owes, Unannounced
    <3>2. ASSUME NEW t \in Text, CreateCheck(w, t) \/ \E n \in Message : EditCheck(w, n, t)
          PROVE  ~Owes(w, m)'
      BY <3>2 DEF CreateCheck, EditCheck, Entered, Owes, Unannounced, TypeOK
    <3>3. CASE CreateStamp(w) \/ (StatementFails(w) /\ ~At(w, "create.touch"))
      BY <1>3, <3>3 DEF CreateStamp, StatementFails, Return, Idle, Entered, Owes, Unannounced,
         TypeOK, Call
    <3> QED
      BY <1>3, <3>1, <3>2, <3>3 DEF Begin
  <2> QED
    BY <1>2, <2>1, <2>2, <2>3, <2>4, OtherMessage
<1>4. ASSUME NEW w \in Worker, Step(w), ~CreateStamp(w) PROVE FeedOf(m)'
  BY <1>2, <1>4, WriteFeed, PublishFeed DEF Step
<1>5. ASSUME NEW w \in Worker, StatementFails(w), At(w, "create.touch") PROVE FeedOf(m)'
  BY <1>2, <1>5, PublishFeed
<1>6. CASE Crash
  <2>1. \A w \in Worker : ~Owes(w, m)'
    BY <1>6 DEF Crash, Owes, Unannounced, Idle, Entered
  <2>2. \A w \in Worker : ~Owes(w, m)
    BY <1>6 DEF Crash, Owes
  <2>3. Agrees(m)'
    BY <1>2, <1>6, <2>2 DEF FeedOf, Crash, Agrees
  <2> QED
    BY <2>1, <2>3 DEF FeedOf
<1>7. CASE (\E u \in Leaver : MembershipChange(u)) \/ Tick \/ UNCHANGED vars
  <2>1. UNCHANGED <<stored, view, call>>
    BY <1>7 DEF MembershipChange, Tick, vars
  <2> QED
    BY <1>2, <2>1 DEF FeedOf, Owes, Unannounced, Announces, Agrees
<1> QED
  BY <1>3, <1>4, <1>5, <1>6, <1>7 DEF Next

LEMMA InitFeedSound == Init => FeedSound
BY DEF Init, FeedSound, FeedOf, Owes, Unannounced, Agrees, Idle, Entered, Absent, Unseen

\* A member who stays connected ends with what the table says of every
\* message: no event of it was missed or overtaken by another, unless it was
\* written over HTTP, by two connections of its sender at once, or by a call
\* that was cut short between its write and the end of its broadcast.
THEOREM FeedsConverge == Spec => []FeedConverges
<1>1. FeedSound => FeedConverges
  BY DEF FeedSound, FeedOf, FeedConverges, Quiet, Owes, Unannounced, Agrees, At
<1> QED
  BY <1>1, InitType, NextType, InitCallSound, NextCallSound, InitFeedSound, NextFeedSound, PTL
  DEF Spec

\* A deletion that has not strayed is never forgotten: until the observer is
\* told, some connection is about to tell it (router.go broadcasts after
\* DeleteMessage returns).  What remains for DeleteAnnouncedOrStrayed is that
\* this step is taken.
THEOREM DeletionIsOwed ==
    Spec => [](\A m \in Message \ strayed :
                  stored[m].state = "deleted" =>
                      \/ view[m].state = "deleted"
                      \/ \E w \in Worker : At(w, "delete.publish") /\ call[w].msg = m)
<1>1. TypeOK /\ FeedSound =>
        \A m \in Message \ strayed :
           stored[m].state = "deleted" =>
               \/ view[m].state = "deleted"
               \/ \E w \in Worker : At(w, "delete.publish") /\ call[w].msg = m
  BY DEF FeedSound, FeedOf, Owes, Unannounced, Announces, Agrees, At
<1> QED
  BY <1>1, InitType, NextType, InitCallSound, NextCallSound, InitFeedSound, NextFeedSound, PTL
  DEF Spec
=============================================================================
