------------------------------ MODULE Handlers ------------------------------
(***************************************************************************)
(* What the handlers of the modules Pins, Folders and Contacts have in     *)
(* common: who calls, how far a call is, and how the next place at the end *)
(* of a list is chosen (PinChat of internal/chat/service.go, CreateFolder  *)
(* of internal/folder/service.go).                                         *)
(***************************************************************************)
EXTENDS Integers

CONSTANTS User, Chat,
          Worker,     \* goroutines that run handlers, one call at a time
          UserOf,     \* the authenticated user of a worker
          MaxPlace,   \* bound of the places in a list
          Faults,     \* whether statements may fail and the process die
          Nothing

ASSUME HandlersAssumption ==
    /\ UserOf \in [Worker -> User]
    /\ MaxPlace \in Nat
    /\ Faults \in BOOLEAN
    /\ Nothing \notin User

VARIABLE call         \* where each worker is in its handler

\* A call is about one row (on); read is history: "stale", its place may be taken.
Entered(stage, on, arg) ==
    [stage |-> stage, on |-> on, arg |-> arg, place |-> 0, read |-> "good"]
Idle == Entered("idle", Nothing, Nothing)

HandlersInit == call = [w \in Worker |-> Idle]

At(w, stage)             == call[w].stage = stage
Begin(w, stage, on, arg) == call' = [call EXCEPT ![w] = Entered(stage, on, arg)]
Goto(w, stage)           == call' = [call EXCEPT ![w].stage = stage]
Return(w)                == call' = [call EXCEPT ![w] = Idle]

-----------------------------------------------------------------------------
\* Places are counted from 0; who is not in the list has none.
NoPlace == -1
Place   == NoPlace .. MaxPlace

NextPlace_Last(taken) ==
    CHOOSE n \in 0 .. MaxPlace + 1 :
        /\ \A i \in taken : i <= n
        /\ n = 0 \/ n \in taken
NextPlace(taken) ==
    CHOOSE n \in 0 .. MaxPlace + 1 :
        /\ \A i \in taken : i < n
        /\ n = 0 \/ n - 1 \in taken

\* SELECT MAX; a lookup that fails is ignored, and the place is the first.
ReadPlace(w, stage, on, arg, taken) ==
    /\ NextPlace(taken) <= MaxPlace
    /\ \/ call' = [call EXCEPT ![w] = [Entered(stage, on, arg) EXCEPT !.place = NextPlace(taken)]]
       \/ /\ Faults
          /\ call' = [call EXCEPT ![w] = [Entered(stage, on, arg) EXCEPT !.read = "stale"]]

\* Worker w takes its place: what others of the user have read is stale.
TakePlace(w) ==
    call' = [v \in Worker |->
               IF v = w THEN Idle
               ELSE IF UserOf[v] = UserOf[w] /\ call[v].stage = call[w].stage
                    THEN [call[v] EXCEPT !.read = "stale"]
                    ELSE call[v]]
=============================================================================
