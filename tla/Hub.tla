-------------------------------- MODULE Hub --------------------------------
(***************************************************************************)
(* The hub (internal/ws/hub.go): the registry of connections, presence     *)
(* goroutines, and the two client events that ghost mode suppresses        *)
(* (handleChatRead and handleChatTyping of internal/ws/router.go).         *)
(*                                                                         *)
(* The users are the members of one chat.  Register and Unregister run     *)
(* under h.mu; SendToUser walks the same map without it.  A walk that      *)
(* overlaps a write to the map is undefined: the Go runtime may stop the   *)
(* process, and the walk may or may not see the change.                    *)
(***************************************************************************)
EXTENDS Naturals

CONSTANTS User, Conn,
          UserOf,     \* the user of a connection
          Speaker,    \* the connections that send chat:read and chat:typing
          MaxToggles, \* bound of the changes of ghost mode
          Faults,     \* whether a statement of a job may fail
          NoConn

ASSUME HubAssumption ==
    /\ UserOf \in [Conn -> User]
    /\ Speaker \subseteq Conn
    /\ MaxToggles \in Nat
    /\ Faults \in BOOLEAN
    /\ NoConn \notin Conn

VARIABLES phase,      \* where each connection is in its life; ids are not reused
          mu,         \* the connection whose Register or Unregister holds h.mu
          clients,    \* h.clients: the connections per user
          ghost,      \* users.ghost_mode
          lastSeen,   \* the users whose users.last_seen has been updated
          receipts,   \* read_receipts: the users who have one
          stage,      \* where each job is
          todo,       \* the peers it has still to send to
          left,       \* the connections of the present peer it has still to reach
          view,       \* what the presence events that a connection got say
          disturbed,  \* history: presence jobs of the user overlapped or were cut
                      \* short, or ghost mode changed
          blind,      \* history: the jobs under way whose lookup of ghost mode failed
          toggles,
          crashed     \* the process was stopped by the runtime

registry == <<phase, mu, clients>>
users    == <<ghost, lastSeen, receipts>>
vars     == <<registry, users, stage, todo, left, view, disturbed, blind, toggles, crashed>>

\* A job is a run of handlePresenceChange, handleChatRead or handleChatTyping.
Job        == Conn \X {"online", "offline", "read", "typing"}
Presence   == {"online", "offline"}
Subject(j) == UserOf[j[1]]
JobsOf(u)  == {j \in Job : Subject(j) = u}

\* To whom a job sends: the others of the chat.
Peers_Everybody(j) == User
Peers(j) == User \ {Subject(j)}

\* "done" is for presence jobs: they run once per connection.
Stage   == {"none", "touch", "check", "write", "write silently", "send", "done"}
Passed  == {"write", "send"}   \* past the ghost mode check, to send
Running(j) == stage[j] \notin {"none", "done"}

TypeOK ==
    /\ phase \in [Conn -> {"new", "loaded", "loaded none", "on", "leaving", "gone"}]
    /\ mu \in Conn \cup {NoConn}
    /\ clients \in [User -> SUBSET Conn]
    /\ ghost \in [User -> BOOLEAN]
    /\ lastSeen \in SUBSET User
    /\ receipts \in SUBSET User
    /\ stage \in [Job -> Stage]
    /\ todo \in [Job -> SUBSET User] /\ \A j \in Job : Subject(j) \notin todo[j]
    /\ left \in [Job -> SUBSET Conn]
    /\ view \in [Conn -> [User -> {"unknown"} \cup Presence]]
    /\ disturbed \in [User -> BOOLEAN]
    /\ blind \in SUBSET Job
    /\ toggles \in Nat
    /\ crashed \in BOOLEAN

Init ==
    /\ phase = [k \in Conn |-> "new"]
    /\ mu = NoConn
    /\ clients = [u \in User |-> {}]
    /\ ghost = [u \in User |-> FALSE]
    /\ lastSeen = {}
    /\ receipts = {}
    /\ stage = [j \in Job |-> "none"]
    /\ todo = [j \in Job |-> {}]
    /\ left = [j \in Job |-> {}]
    /\ view = [k \in Conn |-> [u \in User |-> "unknown"]]
    /\ disturbed = [u \in User |-> FALSE]
    /\ blind = {}
    /\ toggles = 0
    /\ crashed = FALSE

-----------------------------------------------------------------------------
\* go handlePresenceChange(user, status)
Spawn(j) ==
    /\ stage' = [stage EXCEPT ![j] = "touch"]
    /\ disturbed' = [disturbed EXCEPT ![Subject(j)] =
                        @ \/ \E i \in JobsOf(Subject(j)) : i[2] \in Presence /\ Running(i)]

\* The map of user u is written while jobs walk it: some of them, or none,
\* see what is left for them after the write.
Walking(u) == {j \in Job : left[j] \cap clients[u] # {}}
WriteMap(u, after) ==
    /\ crashed' \in (IF Walking(u) = {} THEN {FALSE} ELSE BOOLEAN)
    /\ \E S \in SUBSET Walking(u) :
          left' = [j \in Job |-> IF j \in S THEN after[j] ELSE left[j]]

\* Register: Load under the lock; a user without a map gets a new one.
RegisterLoad_NoLock(k) ==
    /\ phase[k] = "new"
    /\ phase' = [phase EXCEPT ![k] = IF clients[UserOf[k]] = {} THEN "loaded none" ELSE "loaded"]
    /\ UNCHANGED <<mu, clients, users, stage, todo, left, view, disturbed, blind, toggles, crashed>>
RegisterLoad(k) ==
    /\ phase[k] = "new"
    /\ mu = NoConn
    /\ mu' = k
    /\ phase' = [phase EXCEPT ![k] = IF clients[UserOf[k]] = {} THEN "loaded none" ELSE "loaded"]
    /\ UNCHANGED <<clients, users, stage, todo, left, view, disturbed, blind, toggles, crashed>>

RegisterStore(k) ==
    LET u == UserOf[k] IN
    /\ phase[k] \in {"loaded", "loaded none"}
    /\ clients' = [clients EXCEPT ![u] = IF phase[k] = "loaded" THEN @ \cup {k} ELSE {k}]
    /\ WriteMap(u, [j \in Job |-> left[j] \cup {k}])
    /\ phase' = [phase EXCEPT ![k] = "on"]
    /\ mu' = NoConn
    /\ Spawn(<<k, "online">>)
    /\ UNCHANGED <<users, todo, view, blind, toggles>>

UnregisterLock(k) ==
    /\ phase[k] = "on"
    /\ \A e \in {"read", "typing"} : ~Running(<<k, e>>)   \* ReadPump is over
    /\ mu = NoConn
    /\ mu' = k
    /\ phase' = [phase EXCEPT ![k] = "leaving"]
    /\ UNCHANGED <<clients, users, stage, todo, left, view, disturbed, blind, toggles, crashed>>

\* The user goes offline with the last connection only.
LastConn_Any(k) == TRUE
LastConn(k) == clients[UserOf[k]] \subseteq {k}

UnregisterStore(k) ==
    LET u == UserOf[k] IN
    /\ phase[k] = "leaving"
    /\ clients' = [clients EXCEPT ![u] = @ \ {k}]
    /\ WriteMap(u, [j \in Job |-> left[j] \ {k}])
    /\ IF LastConn(k) THEN Spawn(<<k, "offline">>) ELSE UNCHANGED <<stage, disturbed>>
    /\ phase' = [phase EXCEPT ![k] = "gone"]
    /\ mu' = NoConn
    /\ UNCHANGED <<users, todo, view, blind, toggles>>

-----------------------------------------------------------------------------
\* ReadPump hands a chat:read or a chat:typing to the router.
ClientEvent(k, e) ==
    /\ k \in Speaker
    /\ phase[k] = "on"
    /\ \A i \in {"read", "typing"} : ~Running(<<k, i>>)
    /\ stage' = [stage EXCEPT ![<<k, e>>] = "check"]
    /\ UNCHANGED <<registry, users, todo, left, view, disturbed, blind, toggles, crashed>>

\* Presence updates last_seen first, ghost or not; the error is ignored.
Touch(j) ==
    /\ stage[j] = "touch"
    /\ \/ lastSeen' = lastSeen \cup {Subject(j)}
       \/ Faults /\ UNCHANGED lastSeen
    /\ stage' = [stage EXCEPT ![j] = "check"]
    /\ UNCHANGED <<registry, ghost, receipts, todo, left, view, disturbed, blind, toggles, crashed>>

Finished(j) == IF j[2] \in Presence THEN "done" ELSE "none"

\* Ghost mode is read once.  chat:read writes the receipt in any case.
Unsuppressed(j) == IF j[2] = "read" THEN "write" ELSE "send"
AfterCheck_TypingForgets(j) ==
    CASE j[2] = "read"   -> IF ghost[Subject(j)] THEN "write silently" ELSE "write"
      [] j[2] = "typing" -> "send"
      [] OTHER           -> IF ghost[Subject(j)] THEN Finished(j) ELSE "send"
AfterCheck(j) ==
    IF ghost[Subject(j)]
    THEN IF j[2] = "read" THEN "write silently" ELSE Finished(j)
    ELSE Unsuppressed(j)

\* The error of the lookup is ignored: the user is then taken for no ghost.
\* The peers are queried next; who is in the chat does not change here.
Check(j) ==
    /\ stage[j] = "check"
    /\ \/ /\ stage' = [stage EXCEPT ![j] = AfterCheck(j)]
          /\ UNCHANGED blind
       \/ /\ Faults
          /\ stage' = [stage EXCEPT ![j] = Unsuppressed(j)]
          /\ blind' = blind \cup {j}
    /\ todo' = [todo EXCEPT ![j] = IF stage'[j] \in Passed THEN Peers(j) ELSE {}]
    /\ UNCHANGED <<registry, users, left, view, disturbed, toggles, crashed>>

\* The error of the write is ignored.
WriteReceipt(j) ==
    /\ stage[j] \in {"write", "write silently"}
    /\ \/ receipts' = receipts \cup {Subject(j)}
       \/ Faults /\ UNCHANGED receipts
    /\ stage' = [stage EXCEPT ![j] = IF @ = "write" THEN "send" ELSE Finished(j)]
    /\ UNCHANGED <<registry, ghost, lastSeen, todo, left, view, disturbed, blind, toggles, crashed>>

\* SendToUser loads the map of the next peer and walks it.
SendToUser(j, u) ==
    /\ stage[j] = "send"
    /\ left[j] = {}
    /\ u \in todo[j]
    /\ todo' = [todo EXCEPT ![j] = @ \ {u}]
    /\ left' = [left EXCEPT ![j] = clients[u]]
    /\ UNCHANGED <<registry, users, stage, view, disturbed, blind, toggles, crashed>>

Deliver(j, k) ==
    /\ stage[j] = "send"
    /\ k \in left[j]
    /\ left' = [left EXCEPT ![j] = @ \ {k}]
    /\ view' = IF j[2] \in Presence THEN [view EXCEPT ![k][Subject(j)] = j[2]] ELSE view
    /\ UNCHANGED <<registry, users, stage, todo, disturbed, blind, toggles, crashed>>

\* A query of the peers that fails, at once or on a row, ends the job too.
Finish(j) ==
    /\ stage[j] = "send"
    /\ left[j] = {}
    /\ todo[j] = {} \/ Faults
    /\ todo' = [todo EXCEPT ![j] = {}]
    /\ stage' = [stage EXCEPT ![j] = Finished(j)]
    /\ blind' = blind \ {j}
    /\ disturbed' = [disturbed EXCEPT ![Subject(j)] = @ \/ (todo[j] # {} /\ j[2] \in Presence)]
    /\ UNCHANGED <<registry, users, left, view, toggles, crashed>>

-----------------------------------------------------------------------------
\* PUT /users/me (UpdateProfile).
ToggleGhost(u) ==
    /\ toggles < MaxToggles
    /\ toggles' = toggles + 1
    /\ ghost' = [ghost EXCEPT ![u] = ~@]
    /\ disturbed' = [disturbed EXCEPT ![u] = TRUE]
    /\ UNCHANGED <<registry, lastSeen, receipts, stage, todo, left, view, blind, crashed>>

Next ==
    /\ ~crashed
    /\ \/ \E k \in Conn : \/ RegisterLoad(k) \/ RegisterStore(k)
                         \/ UnregisterLock(k) \/ UnregisterStore(k)
                         \/ \E e \in {"read", "typing"} : ClientEvent(k, e)
       \/ \E j \in Job : \/ Touch(j) \/ Check(j) \/ WriteReceipt(j)
                        \/ \E u \in User : SendToUser(j, u)
                        \/ \E k \in Conn : Deliver(j, k)
                        \/ Finish(j)
       \/ \E u \in User : ToggleGhost(u)

Spec == Init /\ [][Next]_vars

-----------------------------------------------------------------------------
\* h.mu keeps concurrent connects and disconnects of a user from losing each
\* other's entry: the hub knows every connection that is on, and none that
\* is gone.
NoLostConn ==
    \A k \in Conn : k \in clients[UserOf[k]] <=> phase[k] \in {"on", "leaving"}

\* Nothing about user u is under way.
Settled(u) ==
    /\ \A j \in JobsOf(u) : ~Running(j)
    /\ \A k \in Conn : UserOf[k] = u => phase[k] \in {"new", "on", "gone"}

\* What a connected peer was last told of a user is true when the presence
\* goroutines of the user never overlapped (they are not ordered), none was
\* cut short by its query, and ghost mode did not change.
PresenceConverges ==
    \A u \in User, k \in Conn :
        (~crashed /\ Settled(u) /\ ~disturbed[u] /\ phase[k] = "on" /\ view[k][u] # "unknown")
            => (view[k][u] = "online" <=> clients[u] # {})

\* "Strictly suppresses read receipts, typing indicators, and presence status
\* updates" (README.md:13), as far as it goes: with ghost mode on, what comes
\* to send about the user had its check before, or its lookup failed.
Sends(u) == {j \in JobsOf(u) \ blind : stage[j] \in Passed \/ left[j] # {}}
GhostBounded == [][\A u \in User : (ghost[u] /\ Sends(u) = {}) => Sends(u)' = {}]_vars
=============================================================================
