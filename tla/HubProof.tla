------------------------------ MODULE HubProof ------------------------------
(***************************************************************************)
(* Theorems about Hub: h.mu keeps the registry right although SendToUser   *)
(* reads it without the lock; a job that has not passed its check of ghost *)
(* mode sends nothing while ghost mode is on; and presence is right in the *)
(* end when the presence jobs of a user did not overlap.                   *)
(***************************************************************************)
EXTENDS Hub, TLAPS

\* Whoever is between the load and the store holds the lock, and what the
\* load saw is still so.
LockSound ==
    \A k \in Conn :
        /\ phase[k] \in {"loaded", "loaded none", "leaving"} <=> mu = k
        /\ phase[k] = "loaded none" => clients[UserOf[k]] = {}

\* Only a job that sends walks a map.
WalkSound == \A j \in Job : left[j] # {} => stage[j] = "send"

\* The presence jobs of a connection have not run before it comes and goes.
Before == {"new", "loaded", "loaded none"}
SpawnSound ==
    \A k \in Conn :
        /\ phase[k] \in Before => stage[<<k, "online">>] = "none"
        /\ phase[k] # "gone" => stage[<<k, "offline">>] = "none"

Inv == TypeOK /\ LockSound /\ WalkSound /\ SpawnSound /\ NoLostConn

-----------------------------------------------------------------------------
LEMMA JobParts ==
    ASSUME NEW j \in Job
    PROVE  Subject(j) \in User /\ j[1] \in Conn /\ j[2] \in {"online", "offline", "read", "typing"}
BY HubAssumption DEF Job, Subject

LEMMA SpawnType ==
    ASSUME TypeOK, NEW j \in Job, Spawn(j)
    PROVE  stage' \in [Job -> Stage] /\ disturbed' \in [User -> BOOLEAN]
<1>1. stage' \in [Job -> Stage]
  BY DEF Spawn, TypeOK, Stage
<1>2. disturbed' \in [User -> BOOLEAN]
  BY JobParts DEF Spawn, TypeOK
<1> QED
  BY <1>1, <1>2

\* Spawning changes the stage of one job only.
LEMMA SpawnStage ==
    ASSUME TypeOK, NEW j \in Job, Spawn(j)
    PROVE  /\ stage'[j] = "touch"
           /\ \A i \in Job : i # j => stage'[i] = stage[i]
BY DEF Spawn, TypeOK

LEMMA PresenceJobs ==
    \A k \in Conn : /\ <<k, "online">> \in Job /\ <<k, "offline">> \in Job
                    /\ <<k, "read">> \in Job /\ <<k, "typing">> \in Job
BY DEF Job

LEMMA FinishedType == \A j \in Job : Finished(j) \in {"none", "done"}
BY DEF Finished

\* A write of the map concerns the jobs that walk it only.
LEMMA WriteMapKeeps ==
    ASSUME TypeOK, NEW u \in User, NEW after \in [Job -> SUBSET Conn], WriteMap(u, after)
    PROVE  /\ left' \in [Job -> SUBSET Conn]
           /\ crashed' \in BOOLEAN
           /\ \A j \in Job : left[j] = {} => left'[j] = {}
BY DEF WriteMap, Walking, TypeOK

-----------------------------------------------------------------------------
LEMMA InitInv == Init => Inv
<1> SUFFICES ASSUME Init PROVE Inv
  OBVIOUS
<1>1. TypeOK
  BY DEF Init, TypeOK, Stage, Presence
<1>2. LockSound /\ WalkSound /\ SpawnSound /\ NoLostConn
  BY HubAssumption, PresenceJobs DEF Init, LockSound, WalkSound, SpawnSound, NoLostConn
<1> QED
  BY <1>1, <1>2 DEF Inv

\* Register and Unregister.
LEMMA RegistryStep ==
    ASSUME Inv, NEW k \in Conn,
           RegisterLoad(k) \/ RegisterStore(k) \/ UnregisterLock(k) \/ UnregisterStore(k)
    PROVE  Inv'
<1>0. /\ TypeOK /\ LockSound /\ WalkSound /\ SpawnSound /\ NoLostConn
      /\ UserOf[k] \in User
      /\ phase \in [Conn -> {"new", "loaded", "loaded none", "on", "leaving", "gone"}]
      /\ clients \in [User -> SUBSET Conn]
      /\ UserOf \in [Conn -> User] /\ NoConn \notin Conn
  BY HubAssumption DEF Inv, TypeOK
<1>1. CASE RegisterLoad(k)
  <2>1. TypeOK' /\ WalkSound'
    BY <1>0, <1>1 DEF RegisterLoad, TypeOK, WalkSound, users
  <2>2. LockSound' /\ NoLostConn'
    BY <1>0, <1>1 DEF RegisterLoad, LockSound, NoLostConn
  <2>3. SpawnSound'
    BY <1>0, <1>1 DEF RegisterLoad, SpawnSound, Before
  <2> QED
    BY <2>1, <2>2, <2>3 DEF Inv
<1>2. CASE UnregisterLock(k)
  <2>1. TypeOK' /\ WalkSound'
    BY <1>0, <1>2 DEF UnregisterLock, TypeOK, WalkSound, users
  <2>2. LockSound' /\ NoLostConn'
    BY <1>0, <1>2 DEF UnregisterLock, LockSound, NoLostConn
  <2>3. SpawnSound'
    BY <1>0, <1>2 DEF UnregisterLock, SpawnSound, Before
  <2> QED
    BY <2>1, <2>2, <2>3 DEF Inv
<1>3. CASE RegisterStore(k)
  <2> DEFINE u == UserOf[k]
             after == [j \in Job |-> left[j] \cup {k}]
             job == <<k, "online">>
  <2>1. /\ phase[k] \in {"loaded", "loaded none"}
        /\ clients' = [clients EXCEPT ![u] = IF phase[k] = "loaded" THEN @ \cup {k} ELSE {k}]
        /\ WriteMap(u, after)
        /\ phase' = [phase EXCEPT ![k] = "on"]
        /\ mu' = NoConn
        /\ Spawn(job)
        /\ UNCHANGED <<users, todo, view, blind, toggles>>
    BY <1>3 DEF RegisterStore
  <2>2. after \in [Job -> SUBSET Conn] /\ job \in Job
    BY <1>0 DEF TypeOK, Job
  <2>3. /\ left' \in [Job -> SUBSET Conn] /\ crashed' \in BOOLEAN
        /\ \A j \in Job : left[j] = {} => left'[j] = {}
    BY <1>0, <2>1, <2>2, WriteMapKeeps
  <2>4. stage' \in [Job -> Stage] /\ disturbed' \in [User -> BOOLEAN]
    BY <1>0, <2>1, <2>2, SpawnType
  <2>5. TypeOK'
    BY <1>0, <2>1, <2>3, <2>4 DEF TypeOK, users
  <2>6. LockSound' /\ NoLostConn'
    BY <1>0, <2>1 DEF LockSound, NoLostConn
  <2>7. WalkSound'
    <3>1. left[job] = {} /\ left'[job] = {}
      BY <1>0, <2>1, <2>2, <2>3 DEF WalkSound, SpawnSound, Before
    <3> QED
      BY <1>0, <2>1, <2>2, <2>3, <3>1, SpawnStage DEF WalkSound
  <2>8. SpawnSound'
    <3>1. \A i \in Job : i # job => stage'[i] = stage[i]
      BY <1>0, <2>1, <2>2, SpawnStage
    <3>2. \A v \in Conn : <<v, "offline">> # job /\ (<<v, "online">> = job => v = k)
      OBVIOUS
    <3> QED
      BY <1>0, <2>1, <3>1, <3>2, PresenceJobs DEF SpawnSound, Before
  <2> QED
    BY <2>5, <2>6, <2>7, <2>8 DEF Inv
<1>4. CASE UnregisterStore(k)
  <2> DEFINE u == UserOf[k]
             after == [j \in Job |-> left[j] \ {k}]
             job == <<k, "offline">>
  <2>1. /\ phase[k] = "leaving"
        /\ clients' = [clients EXCEPT ![u] = @ \ {k}]
        /\ WriteMap(u, after)
        /\ Spawn(job) \/ UNCHANGED <<stage, disturbed>>
        /\ phase' = [phase EXCEPT ![k] = "gone"]
        /\ mu' = NoConn
        /\ UNCHANGED <<users, todo, view, blind, toggles>>
    BY <1>4 DEF UnregisterStore
  <2>2. after \in [Job -> SUBSET Conn] /\ job \in Job
    BY <1>0 DEF TypeOK, Job
  <2>3. /\ left' \in [Job -> SUBSET Conn] /\ crashed' \in BOOLEAN
        /\ \A j \in Job : left[j] = {} => left'[j] = {}
    BY <1>0, <2>1, <2>2, WriteMapKeeps
  <2>4. stage' \in [Job -> Stage] /\ disturbed' \in [User -> BOOLEAN]
    <3>1. stage \in [Job -> Stage] /\ disturbed \in [User -> BOOLEAN]
      BY <1>0 DEF TypeOK
    <3> QED
      BY <1>0, <2>1, <2>2, <3>1, SpawnType
  <2>5. TypeOK'
    BY <1>0, <2>1, <2>3, <2>4 DEF TypeOK, users
  <2>6. LockSound' /\ NoLostConn'
    BY <1>0, <2>1 DEF LockSound, NoLostConn
  <2>7. \A i \in Job : i # job => stage'[i] = stage[i]
    BY <1>0, <2>1, <2>2, SpawnStage
  <2>8. WalkSound'
    <3>1. left[job] = {} /\ left'[job] = {}
      BY <1>0, <2>1, <2>2, <2>3 DEF WalkSound, SpawnSound
    <3> QED
      BY <1>0, <2>2, <2>3, <2>7, <3>1 DEF WalkSound
  <2>9. SpawnSound'
    <3>1. \A v \in Conn : <<v, "online">> # job /\ (<<v, "offline">> = job => v = k)
      OBVIOUS
    <3> QED
      BY <1>0, <2>1, <2>7, <3>1, PresenceJobs DEF SpawnSound, Before
  <2> QED
    BY <2>5, <2>6, <2>8, <2>9 DEF Inv
<1> QED
  BY <1>1, <1>2, <1>3, <1>4

\* The jobs.  None of them touches the registry.
LEMMA JobStep ==
    ASSUME Inv, UNCHANGED registry, NEW j \in Job,
           left' \in [Job -> SUBSET Conn],
           \A i \in Job : left'[i] # {} => stage'[i] = "send",
           stage[j] # "none" \/ j[2] \in {"read", "typing"},
           \E s \in Stage : stage' = [stage EXCEPT ![j] = s],
           TypeOK'
    PROVE  Inv'
<1>1. LockSound' /\ NoLostConn'
  BY DEF Inv, LockSound, NoLostConn, registry
<1>2. WalkSound'
  BY DEF WalkSound
<1>3. SpawnSound'
  <2>1. \A i \in Job : i # j => stage'[i] = stage[i]
    BY DEF Inv, TypeOK
  <2>2. UNCHANGED phase /\ SpawnSound
    BY DEF Inv, registry
  <2>3. \A v \in Conn : <<v, "online">>[2] = "online" /\ <<v, "offline">>[2] = "offline"
    OBVIOUS
  <2>4. \A v \in Conn :
           /\ stage[<<v, "online">>] = "none" => stage'[<<v, "online">>] = "none"
           /\ stage[<<v, "offline">>] = "none" => stage'[<<v, "offline">>] = "none"
    <3> SUFFICES ASSUME NEW v \in Conn, NEW e \in {"online", "offline"}, stage[<<v, e>>] = "none"
                 PROVE  stage'[<<v, e>>] = "none"
      OBVIOUS
    <3>0. <<v, e>>[2] = e /\ e \notin {"read", "typing"}
      OBVIOUS
    <3>1. <<v, e>> \in Job /\ <<v, e>> # j
      BY <3>0, PresenceJobs
    <3> QED
      BY <2>1, <3>1
  <2> QED
    BY <2>2, <2>4 DEF SpawnSound, Before
<1> QED
  BY <1>1, <1>2, <1>3 DEF Inv

LEMMA NextInv == Inv /\ [Next]_vars => Inv'
<1> SUFFICES ASSUME Inv, [Next]_vars PROVE Inv'
  OBVIOUS
<1>0. /\ TypeOK /\ WalkSound
      /\ stage \in [Job -> Stage] /\ left \in [Job -> SUBSET Conn] /\ todo \in [Job -> SUBSET User]
  BY DEF Inv, TypeOK
<1>1. ASSUME NEW k \in Conn,
             RegisterLoad(k) \/ RegisterStore(k) \/ UnregisterLock(k) \/ UnregisterStore(k)
      PROVE  Inv'
  BY <1>1, RegistryStep
<1>2. ASSUME NEW k \in Conn, NEW e \in {"read", "typing"}, ClientEvent(k, e) PROVE Inv'
  <2> DEFINE j == <<k, e>>
  <2>1. j \in Job /\ j[2] \in {"read", "typing"} /\ "check" \in Stage
    BY DEF Job, Stage
  <2>2. /\ stage' = [stage EXCEPT ![j] = "check"] /\ ~Running(j)
        /\ UNCHANGED <<registry, users, todo, left, view, disturbed, blind, toggles, crashed>>
    BY <1>2 DEF ClientEvent
  <2>3. TypeOK'
    BY <1>0, <2>1, <2>2 DEF TypeOK, registry, users
  <2>4. left[j] = {}
    BY <1>0, <2>1, <2>2 DEF WalkSound, Running
  <2>5. \A i \in Job : left'[i] # {} => stage'[i] = "send"
    BY <1>0, <2>1, <2>2, <2>4 DEF WalkSound
  <2> QED
    BY <1>0, <2>1, <2>2, <2>3, <2>5, JobStep
<1>3. ASSUME NEW j \in Job, Touch(j) \/ Check(j) \/ WriteReceipt(j) PROVE Inv'
  <2>1. /\ stage[j] \in {"touch", "check", "write", "write silently"}
        /\ \E s \in Stage : stage' = [stage EXCEPT ![j] = s]
        /\ UNCHANGED <<registry, left>>
    BY <1>3 DEF Touch, Check, WriteReceipt, AfterCheck, Unsuppressed, Finished, Stage
  <2>2. TypeOK'
    <3>1. stage' \in [Job -> Stage]
      BY <1>0, <2>1
    <3>2. CASE Touch(j)
      <4>1. lastSeen' \in SUBSET User
        <5>1. lastSeen \in SUBSET User
          BY <1>0, Zenon DEF TypeOK
        <5>2. lastSeen' = lastSeen \cup {Subject(j)} \/ lastSeen' = lastSeen
          BY <3>2 DEF Touch
        <5> QED
          BY <5>1, <5>2, JobParts
      <4>2. UNCHANGED <<registry, ghost, receipts, todo, left, view, disturbed, blind, toggles, crashed>>
        BY <3>2 DEF Touch
      <4> QED
        BY <1>0, <3>1, <4>1, <4>2, Zenon DEF TypeOK, registry
    <3>3. CASE Check(j)
      <4>1. todo' \in [Job -> SUBSET User] /\ \A i \in Job : Subject(i) \notin todo'[i]
        BY <1>0, <3>3 DEF Check, Peers, TypeOK
      <4>2. blind' \in SUBSET Job
        BY <1>0, <3>3 DEF Check, TypeOK
      <4> QED
        BY <1>0, <3>1, <3>3, <4>1, <4>2 DEF Check, TypeOK, registry, users, Subject
    <3>4. CASE WriteReceipt(j)
      BY <1>0, <3>1, <3>4, JobParts DEF WriteReceipt, TypeOK, registry
    <3> QED
      BY <1>3, <3>2, <3>3, <3>4
  <2>3. left[j] = {}
    BY <1>0, <2>1 DEF WalkSound
  <2>4. \A i \in Job : left'[i] # {} => stage'[i] = "send"
    BY <1>0, <2>1, <2>3 DEF WalkSound
  <2> QED
    BY <1>0, <2>1, <2>2, <2>4, JobStep
<1>4. ASSUME NEW j \in Job, NEW u \in User, SendToUser(j, u) PROVE Inv'
  <2>1. /\ stage[j] = "send" /\ stage' = [stage EXCEPT ![j] = "send"] /\ "send" \in Stage
        /\ left' = [left EXCEPT ![j] = clients[u]]
        /\ UNCHANGED registry
    BY <1>0, <1>4 DEF SendToUser, Stage
  <2>2. TypeOK'
    BY <1>0, <1>4 DEF SendToUser, TypeOK, registry, users
  <2>3. left' \in [Job -> SUBSET Conn]
    BY <2>2 DEF TypeOK
  <2>4. \A i \in Job : left'[i] # {} => stage'[i] = "send"
    BY <1>0, <2>1 DEF WalkSound
  <2> QED
    BY <2>1, <2>2, <2>3, <2>4, JobStep
<1>5. ASSUME NEW j \in Job, NEW k \in Conn, Deliver(j, k) PROVE Inv'
  <2>1. /\ stage[j] = "send" /\ stage' = [stage EXCEPT ![j] = "send"] /\ "send" \in Stage
        /\ left' = [left EXCEPT ![j] = @ \ {k}]
        /\ UNCHANGED registry
    BY <1>0, <1>5 DEF Deliver, Stage
  <2>2. TypeOK'
    <3>1. view' \in [Conn -> [User -> {"unknown"} \cup Presence]]
      BY <1>0, <1>5, JobParts DEF Deliver, TypeOK, Presence
    <3> QED
      BY <1>0, <1>5, <3>1 DEF Deliver, TypeOK, registry, users
  <2>3. left' \in [Job -> SUBSET Conn]
    BY <2>2 DEF TypeOK
  <2>4. \A i \in Job : left'[i] # {} => stage'[i] = "send"
    BY <1>0, <2>1 DEF WalkSound
  <2> QED
    BY <2>1, <2>2, <2>3, <2>4, JobStep
<1>6. ASSUME NEW j \in Job, Finish(j) PROVE Inv'
  <2>1. /\ stage[j] = "send" /\ stage' = [stage EXCEPT ![j] = Finished(j)] /\ Finished(j) \in Stage
        /\ left[j] = {}
        /\ UNCHANGED <<registry, left>>
    BY <1>6, FinishedType DEF Finish, Stage
  <2>2. TypeOK'
    BY <1>0, <1>6, <2>1 DEF Finish, TypeOK, registry, users
  <2>3. \A i \in Job : left'[i] # {} => stage'[i] = "send"
    BY <1>0, <2>1 DEF WalkSound
  <2> QED
    BY <1>0, <2>1, <2>2, <2>3, JobStep
<1>7. ASSUME NEW u \in User, ToggleGhost(u) PROVE Inv'
  <2>1. ghost' \in [User -> BOOLEAN] /\ disturbed' \in [User -> BOOLEAN]
    <3>1. ghost \in [User -> BOOLEAN] /\ disturbed \in [User -> BOOLEAN]
      BY <1>0 DEF TypeOK
    <3> QED
      BY <1>7, <3>1 DEF ToggleGhost
  <2>2. TypeOK'
    <3>1. toggles' \in Nat
      <4>1. toggles \in Nat
        BY <1>0, Zenon DEF TypeOK
      <4>2. toggles' = toggles + 1
        BY <1>7 DEF ToggleGhost
      <4> QED
        BY <4>1, <4>2
    <3>2. UNCHANGED <<registry, lastSeen, receipts, stage, todo, left, view, blind, crashed>>
      BY <1>7 DEF ToggleGhost
    <3> QED
      BY <1>0, <2>1, <3>1, <3>2, Zenon DEF TypeOK, registry
  <2> QED
    BY <1>7, <2>2 DEF ToggleGhost, Inv, LockSound, WalkSound, SpawnSound, NoLostConn, registry
<1>8. CASE UNCHANGED vars
  BY <1>8 DEF vars, registry, users, Inv, TypeOK, LockSound, WalkSound, SpawnSound, NoLostConn
<1> QED
  BY <1>1, <1>2, <1>3, <1>4, <1>5, <1>6, <1>7, <1>8 DEF Next

-----------------------------------------------------------------------------
LEMMA Invariance == Spec => []Inv
BY InitInv, NextInv, PTL DEF Spec

\* The registry, the jobs and what they send keep their type.
THEOREM TypeCorrect == Spec => []TypeOK
<1>1. Inv => TypeOK
  BY DEF Inv
<1> QED
  BY <1>1, Invariance, PTL

\* The hub knows the connections that are on, and no others, for any number
\* of users and connections.
THEOREM RegistryIsRight == Spec => []NoLostConn
<1>1. Inv => NoLostConn
  BY DEF Inv
<1> QED
  BY <1>1, Invariance, PTL

-----------------------------------------------------------------------------
\* Whatever a step does, a job past its check has been let past by Check: the
\* user was no ghost, or the lookup failed.
LEMMA PassedByCheck ==
    ASSUME Inv, [Next]_vars, NEW j \in Job, ghost[Subject(j)],
           stage[j] \notin Passed, stage'[j] \in Passed
    PROVE  j \in blind'
<1>0. stage \in [Job -> Stage]
  BY DEF Inv, TypeOK
<1>1. ASSUME NEW i \in Job, NEW s \in Stage, stage' = [stage EXCEPT ![i] = s]
      PROVE  i = j /\ s \in Passed
  BY <1>0, <1>1
<1>2. ASSUME NEW i \in Job, Spawn(i) PROVE FALSE
  BY <1>1, <1>2 DEF Spawn, Stage, Passed
<1>3. ASSUME NEW k \in Conn, RegisterStore(k) \/ UnregisterStore(k) PROVE FALSE
  <2>1. \/ Spawn(<<k, "online">>) \/ Spawn(<<k, "offline">>)
        \/ UNCHANGED stage
    BY <1>3 DEF RegisterStore, UnregisterStore
  <2> QED
    BY <1>2, <2>1, PresenceJobs
<1>4. ASSUME NEW k \in Conn, NEW e \in {"read", "typing"}, ClientEvent(k, e) PROVE FALSE
  BY <1>1, <1>4, PresenceJobs DEF ClientEvent, Stage, Passed
<1>5. ASSUME NEW i \in Job, Touch(i) \/ Finish(i) PROVE FALSE
  BY <1>1, <1>5 DEF Touch, Finish, Finished, Stage, Passed
<1>6. ASSUME NEW i \in Job, Check(i) PROVE j \in blind'
  <2>1. CASE stage' = [stage EXCEPT ![i] = AfterCheck(i)]
    <3>1. AfterCheck(i) \in Stage
      BY DEF AfterCheck, Unsuppressed, Finished, Stage
    <3>2. i = j /\ AfterCheck(i) \in Passed
      BY <1>1, <2>1, <3>1
    <3> QED
      BY <3>2 DEF AfterCheck, Finished, Passed
  <2>2. CASE stage' = [stage EXCEPT ![i] = Unsuppressed(i)] /\ blind' = blind \cup {i}
    <3>1. Unsuppressed(i) \in Stage
      BY DEF Unsuppressed, Stage
    <3> QED
      BY <1>1, <2>2, <3>1
  <2> QED
    BY <1>6, <2>1, <2>2 DEF Check
<1>7. ASSUME NEW i \in Job, WriteReceipt(i) PROVE FALSE
  <2> DEFINE s == IF stage[i] = "write" THEN "send" ELSE Finished(i)
  <2>1. stage[i] \in {"write", "write silently"} /\ stage' = [stage EXCEPT ![i] = s] /\ s \in Stage
    BY <1>0, <1>7 DEF WriteReceipt, Finished, Stage
  <2>2. i = j /\ s \in Passed
    BY <1>1, <2>1
  <2> QED
    BY <2>1, <2>2 DEF Finished, Passed
<1>8. ~ UNCHANGED stage
  OBVIOUS
<1> QED
  BY <1>3, <1>4, <1>5, <1>6, <1>7, <1>8
     DEF Next, vars, RegisterLoad, UnregisterLock, SendToUser, Deliver, ToggleGhost

\* A job is no longer counted as blind once it is finished only.
LEMMA BlindUntilFinish ==
    ASSUME Inv, [Next]_vars, NEW j \in blind, j \notin blind'
    PROVE  stage'[j] \notin Passed
<1>0. stage \in [Job -> Stage] /\ blind \in SUBSET Job
  BY DEF Inv, TypeOK
<1>1. ASSUME NEW i \in Job, Finish(i) PROVE stage'[j] \notin Passed
  <2>1. blind' = blind \ {i} /\ stage' = [stage EXCEPT ![i] = Finished(i)]
    BY <1>1 DEF Finish
  <2>2. i = j
    BY <2>1
  <2> QED
    BY <1>0, <2>1, <2>2 DEF Finished, Passed
<1>2. ASSUME NEW i \in Job, Check(i) PROVE FALSE
  BY <1>2 DEF Check
<1> QED
  BY <1>1, <1>2
     DEF Next, vars, RegisterLoad, RegisterStore, UnregisterLock, UnregisterStore, ClientEvent,
         Touch, WriteReceipt, SendToUser, Deliver, ToggleGhost

\* Ghost mode is kept by every job whose lookup does not fail, whatever the
\* interleaving: once those that had their check before are through, nothing
\* about the user is sent.
THEOREM GhostsAreSilent == Spec => GhostBounded
<1>1. ASSUME Inv, Inv', [Next]_vars, NEW u \in User, ghost[u], Sends(u) = {}
      PROVE  Sends(u)' = {}
  <2> SUFFICES ASSUME NEW j \in Job, Subject(j) = u, j \notin blind',
                      stage'[j] \in Passed \/ left'[j] # {}
               PROVE  FALSE
    BY DEF Sends, JobsOf, Subject
  <2>1. stage'[j] \in Passed
    BY <1>1 DEF Inv, WalkSound, Passed
  <2>2. j \notin blind
    BY <1>1, <2>1, BlindUntilFinish
  <2>3. stage[j] \notin Passed
    BY <1>1, <2>2 DEF Sends, JobsOf
  <2> QED
    BY <1>1, <2>1, <2>3, PassedByCheck
<1>2. Inv /\ Inv' /\ [Next]_vars =>
        [\A u \in User : (ghost[u] /\ Sends(u) = {}) => Sends(u)' = {}]_vars
  BY <1>1
<1> QED
  BY <1>2, Invariance, PTL DEF Spec, GhostBounded
-----------------------------------------------------------------------------
(* Presence.  For a user who is not disturbed at most one presence job is  *)
(* under way and it says what the registry says; a peer that has heard of  *)
(* the user and is not to hear from that job has heard the truth.          *)

PresenceJobsOf(u) == {j \in JobsOf(u) : j[2] \in Presence /\ Running(j)}

\* Job j has still to deliver to connection k.
Reaches(j, k) ==
    \/ stage[j] \in {"touch", "check"}
    \/ stage[j] = "send" /\ (UserOf[k] \in todo[j] \/ k \in left[j])

\* A job sends to connections that have come, and not to those of its own
\* user, who therefore hear nothing of themselves.
AimSound ==
    /\ \A u \in User : \A k \in clients[u] : UserOf[k] = u
    /\ \A j \in Job : Subject(j) \notin todo[j]
    /\ \A j \in Job : \A k \in left[j] : UserOf[k] # Subject(j) /\ phase[k] \notin Before
    /\ \A k \in Conn, u \in User :
          (phase[k] \in Before \/ UserOf[k] = u) => view[k][u] = "unknown"

SaysWhatIs(u) == \A j \in PresenceJobsOf(u) :
    /\ j[2] = "online" <=> clients[u] # {}
    /\ \A i \in PresenceJobsOf(u) : i = j

HeardOrReached(u) == \A k \in Conn :
    (/\ phase[k] = "on" /\ view[k][u] # "unknown"
     /\ \A j \in PresenceJobsOf(u) : ~Reaches(j, k))
        => (view[k][u] = "online" <=> clients[u] # {})

PresenceSound == \A u \in User : ~disturbed[u] =>
    ~ghost[u] /\ SaysWhatIs(u) /\ HeardOrReached(u)

LEMMA PhaseMoves ==
    ASSUME TypeOK, [Next]_vars, NEW k \in Conn, phase[k] \notin Before
    PROVE  phase'[k] \notin Before
BY DEF TypeOK, Before, Next, vars, registry, RegisterLoad, RegisterStore, UnregisterLock,
       UnregisterStore, ClientEvent, Touch, Check, WriteReceipt, SendToUser, Deliver, Finish,
       ToggleGhost

\* What the two writes of the registry do to the map and to the walks of it.
LEMMA RegisterEffect ==
    ASSUME Inv, NEW k \in Conn, RegisterStore(k)
    PROVE  /\ clients' = [clients EXCEPT ![UserOf[k]] = @ \cup {k}]
           /\ \A j \in Job : \/ left'[j] = left[j]
                             \/ /\ left[j] \cap clients[UserOf[k]] # {}
                                /\ left'[j] = left[j] \cup {k}
           /\ phase' = [phase EXCEPT ![k] = "on"]
           /\ UNCHANGED <<users, todo, view>>
<1>0. /\ UserOf[k] \in User /\ clients \in [User -> SUBSET Conn]
      /\ left \in [Job -> SUBSET Conn]
  BY HubAssumption DEF Inv, TypeOK
<1>1. phase[k] = "loaded none" => clients[UserOf[k]] = {}
  BY DEF Inv, LockSound
<1> QED
  BY <1>0, <1>1 DEF RegisterStore, WriteMap, Walking

LEMMA UnregisterEffect ==
    ASSUME Inv, NEW k \in Conn, UnregisterStore(k)
    PROVE  /\ clients' = [clients EXCEPT ![UserOf[k]] = @ \ {k}]
           /\ \A j \in Job : left'[j] = left[j] \/ left'[j] = left[j] \ {k}
           /\ phase' = [phase EXCEPT ![k] = "gone"]
           /\ UNCHANGED <<users, todo, view>>
<1>0. /\ UserOf[k] \in User /\ clients \in [User -> SUBSET Conn]
      /\ left \in [Job -> SUBSET Conn]
  BY HubAssumption DEF Inv, TypeOK
<1> QED
  BY <1>0 DEF UnregisterStore, WriteMap, Walking

LEMMA NextAimSound == Inv /\ AimSound /\ [Next]_vars => AimSound'
<1> SUFFICES ASSUME Inv, AimSound, [Next]_vars PROVE AimSound'
  OBVIOUS
<1>0. /\ TypeOK /\ NoLostConn
      /\ UserOf \in [Conn -> User]
      /\ phase \in [Conn -> {"new", "loaded", "loaded none", "on", "leaving", "gone"}]
      /\ clients \in [User -> SUBSET Conn]
      /\ todo \in [Job -> SUBSET User] /\ left \in [Job -> SUBSET Conn]
      /\ view \in [Conn -> [User -> {"unknown"} \cup Presence]]
  BY HubAssumption DEF Inv, TypeOK
<1>1. \A u \in User : \A k \in clients'[u] : UserOf[k] = u
  <2>1. ASSUME NEW k \in Conn, RegisterStore(k) \/ UnregisterStore(k)
        PROVE  \A u \in User : \A v \in clients'[u] : UserOf[v] = u
    <3>1. \A u \in User : \A v \in clients[u] : UserOf[v] = u
      BY DEF AimSound
    <3>2. \A u \in User : clients'[u] \subseteq clients[u] \cup {v \in {k} : UserOf[v] = u}
      <4>1. CASE RegisterStore(k)
        <5>1. clients' = [clients EXCEPT ![UserOf[k]] = @ \cup {k}]
          BY <4>1, RegisterEffect
        <5> QED
          BY <1>0, <5>1
      <4>2. CASE UnregisterStore(k)
        <5>1. clients' = [clients EXCEPT ![UserOf[k]] = @ \ {k}]
          BY <4>2, UnregisterEffect
        <5> QED
          BY <1>0, <5>1
      <4> QED
        BY <2>1, <4>1, <4>2
    <3> QED
      BY <3>1, <3>2
  <2>2. CASE UNCHANGED clients
    BY <2>2 DEF AimSound
  <2> QED
    BY <2>1, <2>2 DEF Next, vars, registry, RegisterLoad, UnregisterLock, ClientEvent, Touch,
       Check, WriteReceipt, SendToUser, Deliver, Finish, ToggleGhost
<1>2. \A j \in Job : Subject(j)' \notin todo'[j]
  <2>1. ASSUME NEW i \in Job, Check(i) PROVE \A j \in Job : Subject(j) \notin todo'[j]
    BY <1>0, <2>1 DEF AimSound, Check, Peers
  <2>2. ASSUME NEW i \in Job, (\E u \in User : SendToUser(i, u)) \/ Finish(i)
        PROVE  \A j \in Job : Subject(j) \notin todo'[j]
    <3>1. \A j \in Job : todo'[j] \subseteq todo[j]
      BY <1>0, <2>2 DEF SendToUser, Finish
    <3> QED
      BY <3>1 DEF AimSound
  <2>3. CASE UNCHANGED todo
    BY <2>3 DEF AimSound
  <2> QED
    BY <2>1, <2>2, <2>3 DEF Subject, Next, vars, RegisterLoad, RegisterStore, UnregisterLock,
       UnregisterStore, ClientEvent, Touch, WriteReceipt, Deliver, ToggleGhost
<1>3. \A j \in Job : \A k \in left'[j] : UserOf[k] # Subject(j)' /\ phase'[k] \notin Before
  <2> SUFFICES ASSUME NEW j \in Job, NEW k \in left'[j]
               PROVE  UserOf[k] # Subject(j) /\ phase'[k] \notin Before
    BY DEF Subject
  <2>1. CASE k \in left[j]
    BY <1>0, <2>1, PhaseMoves DEF AimSound
  <2>2. ASSUME NEW v \in Conn, RegisterStore(v) \/ UnregisterStore(v), k \notin left[j]
        PROVE  UserOf[k] # Subject(j) /\ phase'[k] \notin Before
    <3>1. ~UnregisterStore(v)
      BY <1>0, <2>2, UnregisterEffect
    <3>2. left[j] \cap clients[UserOf[v]] # {} /\ k = v /\ phase' = [phase EXCEPT ![v] = "on"]
      <4>1. /\ phase' = [phase EXCEPT ![v] = "on"]
            /\ \/ left'[j] = left[j]
               \/ left[j] \cap clients[UserOf[v]] # {} /\ left'[j] = left[j] \cup {v}
        BY <2>2, <3>1, RegisterEffect
      <4> QED
        BY <2>2, <4>1
    <3>3. UserOf[v] # Subject(j)
      <4>1. PICK l \in left[j] : l \in clients[UserOf[v]]
        BY <3>2
      <4>2. UserOf[l] = UserOf[v]
        BY <1>0, <4>1 DEF AimSound
      <4>3. UserOf[l] # Subject(j)
        BY <4>1 DEF AimSound
      <4> QED
        BY <4>2, <4>3
    <3>4. phase'[k] = "on"
      BY <1>0, <3>2
    <3> QED
      BY <3>2, <3>3, <3>4 DEF Before
  <2>3. ASSUME NEW i \in Job, NEW u \in User, SendToUser(i, u), k \notin left[j]
        PROVE  UserOf[k] # Subject(j) /\ phase'[k] \notin Before
    <3>1. i = j /\ u \in todo[j] /\ k \in clients[u] /\ phase' = phase
      BY <1>0, <2>3 DEF SendToUser, registry
    <3>2. UserOf[k] = u /\ u # Subject(j)
      BY <3>1 DEF AimSound
    <3>3. phase[k] \in {"on", "leaving"}
      BY <1>0, <3>1, <3>2 DEF NoLostConn
    <3> QED
      BY <3>1, <3>2, <3>3 DEF Before
  <2>4. ASSUME NEW i \in Job, NEW v \in Conn, Deliver(i, v) PROVE k \in left[j]
    BY <1>0, <2>4 DEF Deliver
  <2>5. CASE UNCHANGED left
    BY <2>1, <2>5
  <2> QED
    BY <2>1, <2>2, <2>3, <2>4, <2>5 DEF Next, vars, RegisterLoad, UnregisterLock, ClientEvent,
       Touch, Check, WriteReceipt, Finish, ToggleGhost
<1>4. \A k \in Conn, u \in User :
         (phase'[k] \in Before \/ UserOf[k] = u) => view'[k][u] = "unknown"
  <2> SUFFICES ASSUME NEW k \in Conn, NEW u \in User, phase'[k] \in Before \/ UserOf[k] = u
               PROVE  view'[k][u] = "unknown"
    OBVIOUS
  <2>1. view[k][u] = "unknown"
    BY <1>0, PhaseMoves DEF AimSound
  <2>2. ASSUME NEW j \in Job, NEW v \in Conn, Deliver(j, v) PROVE view'[k][u] = view[k][u]
    <3>1. v \in left[j] /\ phase' = phase
      BY <2>2 DEF Deliver, registry
    <3>2. UserOf[v] # Subject(j) /\ phase[v] \notin Before
      BY <3>1 DEF AimSound
    <3> QED
      BY <1>0, <2>2, <3>1, <3>2 DEF Deliver
  <2>3. CASE UNCHANGED view
    BY <2>1, <2>3
  <2> QED
    BY <2>1, <2>2, <2>3 DEF Next, vars, RegisterLoad, RegisterStore, UnregisterLock,
       UnregisterStore, ClientEvent, Touch, Check, WriteReceipt, SendToUser, Finish, ToggleGhost
<1> QED
  BY <1>1, <1>2, <1>3, <1>4 DEF AimSound

-----------------------------------------------------------------------------
SoundFor(u) == ~ghost[u] /\ SaysWhatIs(u) /\ HeardOrReached(u)

\* A step that ends and begins no presence job of u, takes nobody off the
\* list of one, and does not take u on line or off.
LEMMA PresenceKept ==
    ASSUME NEW u \in User, SoundFor(u), ghost'[u] = ghost[u],
           clients'[u] = {} <=> clients[u] = {},
           PresenceJobsOf(u)' = PresenceJobsOf(u),
           \A k \in Conn : phase'[k] = "on" /\ view'[k][u] # "unknown" =>
               /\ phase[k] = "on" /\ view'[k][u] = view[k][u]
               /\ \A j \in PresenceJobsOf(u) : Reaches(j, k) => Reaches(j, k)'
    PROVE  SoundFor(u)'
<1>1. SaysWhatIs(u)'
  BY DEF SoundFor, SaysWhatIs
<1>2. HeardOrReached(u)'
  BY DEF SoundFor, HeardOrReached
<1> QED
  BY <1>1, <1>2 DEF SoundFor

LEMMA JobsKept ==
    ASSUME NEW u \in User, NEW j \in Job, \A i \in Job : i # j => stage'[i] = stage[i],
           j \in PresenceJobsOf(u)' <=> j \in PresenceJobsOf(u)
    PROVE  PresenceJobsOf(u)' = PresenceJobsOf(u)
BY DEF PresenceJobsOf, JobsOf, Subject, Running

LEMMA JobPresence ==
    ASSUME Inv, AimSound, NEW u \in User, ~disturbed'[u], SoundFor(u), NEW j \in Job,
           \/ Touch(j) \/ Check(j) \/ WriteReceipt(j) \/ Finish(j)
           \/ \E v \in User : SendToUser(j, v)
           \/ \E v \in Conn : Deliver(j, v)
    PROVE  SoundFor(u)'
<1>0. /\ UserOf \in [Conn -> User] /\ NoLostConn
      /\ stage \in [Job -> Stage] /\ todo \in [Job -> SUBSET User]
      /\ left \in [Job -> SUBSET Conn] /\ clients \in [User -> SUBSET Conn]
      /\ view \in [Conn -> [User -> {"unknown"} \cup Presence]]
      /\ disturbed \in [User -> BOOLEAN]
      /\ Subject(j) \in User
  BY HubAssumption, JobParts DEF Inv, TypeOK
<1>1. /\ UNCHANGED <<ghost, clients, phase>>
      /\ Running(j)
  BY DEF Touch, Check, WriteReceipt, Finish, SendToUser, Deliver, registry, users, Running
<1>2. \A i \in Job : i # j => /\ stage'[i] = stage[i]
                              /\ todo'[i] = todo[i]
                              /\ left'[i] = left[i]
  BY <1>0 DEF Touch, Check, WriteReceipt, Finish, SendToUser, Deliver
<1>3. \A i \in Job, k \in Conn : i # j => (Reaches(i, k)' <=> Reaches(i, k))
  BY <1>2 DEF Reaches
<1>4. CASE j \notin PresenceJobsOf(u)
  <2>1. j[2] \notin Presence \/ Subject(j) # u
    BY <1>1, <1>4 DEF PresenceJobsOf, JobsOf
  <2>2. \A k \in Conn : view'[k][u] = view[k][u]
    <3>1. ASSUME NEW v \in Conn, Deliver(j, v) PROVE \A k \in Conn : view'[k][u] = view[k][u]
      <4>1. view' = view \/ (Subject(j) # u /\ view' = [view EXCEPT ![v][Subject(j)] = j[2]])
        BY <2>1, <3>1 DEF Deliver
      <4> QED
        BY <1>0, <4>1
    <3> QED
      BY <3>1 DEF Touch, Check, WriteReceipt, Finish, SendToUser
  <2>3. PresenceJobsOf(u)' = PresenceJobsOf(u)
    BY <1>2, <1>4, <2>1, JobsKept DEF PresenceJobsOf, JobsOf, Subject
  <2>4. \A i \in PresenceJobsOf(u) : i \in Job /\ i # j
    BY <1>4 DEF PresenceJobsOf, JobsOf
  <2> QED
    BY <1>1, <1>3, <2>2, <2>3, <2>4, PresenceKept
<1>5. CASE j \in PresenceJobsOf(u)
  <2>1. j[2] \in Presence /\ Subject(j) = u
    BY <1>5 DEF PresenceJobsOf, JobsOf
  <2>2. PresenceJobsOf(u) = {j} /\ (j[2] = "online" <=> clients[u] # {})
    BY <1>5 DEF SoundFor, SaysWhatIs
  <2>3. ASSUME Running(j)', \A k \in Conn : view'[k][u] = view[k][u],
               \A k \in Conn : phase[k] = "on" /\ view[k][u] # "unknown" /\ Reaches(j, k)
                                 => Reaches(j, k)'
        PROVE  SoundFor(u)'
    <3>1. PresenceJobsOf(u)' = PresenceJobsOf(u)
      BY <1>2, <1>5, <2>1, <2>3, JobsKept DEF PresenceJobsOf, JobsOf, Subject
    <3> QED
      BY <1>1, <2>2, <2>3, <3>1, PresenceKept
  <2>4. ASSUME ~Running(j)', UNCHANGED view, \A k \in Conn : ~Reaches(j, k)
        PROVE  SoundFor(u)'
    <3>1. PresenceJobsOf(u)' = {}
      BY <1>2, <2>2, <2>4 DEF PresenceJobsOf, JobsOf, Subject, Running
    <3>2. \A k \in Conn : phase[k] = "on" /\ view[k][u] # "unknown"
                             => (view[k][u] = "online" <=> clients[u] # {})
      BY <2>2, <2>4 DEF SoundFor, HeardOrReached
    <3> QED
      BY <1>1, <2>4, <3>1, <3>2 DEF SoundFor, SaysWhatIs, HeardOrReached
  <2>5. CASE Touch(j)
    <3>1. stage'[j] = "check" /\ view' = view
      BY <1>0, <2>5 DEF Touch
    <3> QED
      BY <2>3, <3>1 DEF Running, Reaches
  <2>6. CASE Check(j)
    <3>1. ~ghost[Subject(j)]
      BY <2>1 DEF SoundFor
    <3>2. stage'[j] = "send" /\ view' = view
      BY <1>0, <2>1, <2>6, <3>1 DEF Check, AfterCheck, Unsuppressed, Presence
    <3>3. todo'[j] = User \ {u}
      BY <1>0, <2>1, <2>6, <3>2 DEF Check, Passed, Peers
    <3>4. \A k \in Conn : view[k][u] # "unknown" => UserOf[k] \in User \ {u}
      BY <1>0 DEF AimSound
    <3>5. \A k \in Conn : view[k][u] # "unknown" => Reaches(j, k)'
      BY <3>2, <3>3, <3>4 DEF Reaches
    <3> QED
      BY <2>3, <3>2, <3>5 DEF Running
  <2>7. CASE WriteReceipt(j)
    <3>1. (\A k \in Conn : ~Reaches(j, k)) /\ view' = view
      BY <2>7 DEF WriteReceipt, Reaches
    <3> QED
      BY <2>3, <2>4, <3>1
  <2>8. ASSUME NEW v \in User, SendToUser(j, v) PROVE SoundFor(u)'
    <3>1. /\ stage[j] = "send" /\ stage'[j] = "send" /\ view' = view
          /\ todo'[j] = todo[j] \ {v} /\ left[j] = {} /\ left'[j] = clients[v]
      BY <1>0, <2>8 DEF SendToUser
    <3>2. \A k \in Conn : phase[k] = "on" /\ UserOf[k] = v => k \in clients[v]
      BY <1>0 DEF NoLostConn
    <3>3. \A k \in Conn : phase[k] = "on" /\ Reaches(j, k) => Reaches(j, k)'
      BY <3>1, <3>2 DEF Reaches
    <3> QED
      BY <2>3, <3>1, <3>3 DEF Running
  <2>9. ASSUME NEW v \in Conn, Deliver(j, v) PROVE SoundFor(u)'
    <3>1. /\ stage[j] = "send" /\ stage'[j] = "send"
          /\ todo' = todo /\ left'[j] = left[j] \ {v}
          /\ view' = [view EXCEPT ![v][u] = j[2]]
      BY <1>0, <2>1, <2>9 DEF Deliver
    <3>2. PresenceJobsOf(u)' = PresenceJobsOf(u)
      BY <1>2, <1>5, <2>1, <3>1, JobsKept DEF PresenceJobsOf, JobsOf, Subject, Running
    <3>3. SaysWhatIs(u)'
      BY <1>1, <3>2 DEF SoundFor, SaysWhatIs
    <3>4. \A k \in Conn : k # v => view'[k] = view[k] /\ (Reaches(j, k) => Reaches(j, k)')
      BY <1>0, <3>1 DEF Reaches
    <3>5. view'[v][u] = j[2]
      BY <1>0, <3>1
    <3>6. HeardOrReached(u)'
      <4> SUFFICES ASSUME NEW k \in Conn, phase[k] = "on", view'[k][u] # "unknown",
                          ~Reaches(j, k)'
                   PROVE  view'[k][u] = "online" <=> clients[u] # {}
        BY <1>1, <2>2, <3>2 DEF HeardOrReached
      <4>1. CASE k = v
        BY <2>2, <3>5, <4>1
      <4>2. CASE k # v
        BY <2>2, <3>4, <4>2 DEF SoundFor, HeardOrReached
      <4> QED
        BY <4>1, <4>2
    <3> QED
      BY <1>1, <3>3, <3>6 DEF SoundFor
  <2>10. CASE Finish(j)
    <3>1. /\ stage[j] = "send" /\ left[j] = {} /\ view' = view
          /\ stage' = [stage EXCEPT ![j] = Finished(j)]
          /\ disturbed' = [disturbed EXCEPT ![u] = @ \/ (todo[j] # {} /\ j[2] \in Presence)]
      BY <2>1, <2>10 DEF Finish
    <3>2. todo[j] = {}
      BY <1>0, <2>1, <3>1
    <3>3. stage'[j] \in {"none", "done"}
      BY <1>0, <3>1, FinishedType
    <3> QED
      BY <2>4, <3>1, <3>2, <3>3 DEF Reaches, Running
  <2> QED
    BY <2>5, <2>6, <2>7, <2>8, <2>9, <2>10
<1> QED
  BY <1>4, <1>5

\* Register and Unregister.  The job that they start is the only one of its
\* user, or the user is disturbed from then on.
LEMMA SpawnPresence ==
    ASSUME Inv, AimSound, NEW j \in Job, j[2] \in Presence, Spawn(j), UNCHANGED users,
           ~disturbed'[Subject(j)], ~ghost[Subject(j)],
           j[2] = "online" <=> clients'[Subject(j)] # {}
    PROVE  SoundFor(Subject(j))'
<1> DEFINE u == Subject(j)
<1>0. /\ stage \in [Job -> Stage] /\ disturbed \in [User -> BOOLEAN]
      /\ u \in User /\ ghost' = ghost
  BY JobParts DEF Inv, TypeOK, users
<1>1. \A i \in JobsOf(u) : i[2] \in Presence => ~Running(i)
  BY <1>0 DEF Spawn
<1>2. stage'[j] = "touch" /\ \A i \in Job : i # j => stage'[i] = stage[i]
  BY <1>0 DEF Spawn, Stage
<1>3. PresenceJobsOf(u)' = {j}
  BY <1>1, <1>2 DEF PresenceJobsOf, JobsOf, Subject, Running
<1>4. SaysWhatIs(u)'
  BY <1>3 DEF SaysWhatIs
<1>5. HeardOrReached(u)'
  BY <1>2, <1>3 DEF HeardOrReached, Reaches
<1> QED
  BY <1>0, <1>4, <1>5 DEF SoundFor

LEMMA RegistryPresence ==
    ASSUME Inv, AimSound, NEW u \in User, ~disturbed[u], ~disturbed'[u], SoundFor(u), NEW c \in Conn,
           RegisterStore(c) \/ UnregisterStore(c)
    PROVE  SoundFor(u)'
<1>0. /\ UserOf \in [Conn -> User] /\ NoLostConn /\ SpawnSound
      /\ stage \in [Job -> Stage] /\ left \in [Job -> SUBSET Conn]
      /\ phase \in [Conn -> {"new", "loaded", "loaded none", "on", "leaving", "gone"}]
      /\ clients \in [User -> SUBSET Conn]
  BY HubAssumption DEF Inv, TypeOK
<1>1. UNCHANGED <<users, todo, view>> /\ ghost' = ghost
  <2>1. UNCHANGED <<users, todo, view>>
    BY RegisterEffect, UnregisterEffect
  <2> QED
    BY <2>1 DEF users
<1>2. ASSUME NEW k \in Conn, phase'[k] = "on", view'[k][u] # "unknown"
      PROVE  k # c /\ phase[k] = "on"
  <2>1. CASE RegisterStore(c)
    <3>1. phase' = [phase EXCEPT ![c] = "on"]
      BY <2>1, RegisterEffect
    <3>2. phase[c] \in Before
      BY <2>1 DEF RegisterStore, Before
    <3> QED
      BY <1>0, <1>1, <1>2, <3>1, <3>2 DEF AimSound
  <2>2. CASE UnregisterStore(c)
    <3>1. phase' = [phase EXCEPT ![c] = "gone"]
      BY <2>2, UnregisterEffect
    <3> QED
      BY <1>0, <1>2, <3>1
  <2> QED
    BY <2>1, <2>2
<1>3. \A j \in Job : \A k \in left[j] : k # c => k \in left'[j]
  <2>1. CASE RegisterStore(c)
    BY <2>1, RegisterEffect
  <2>2. CASE UnregisterStore(c)
    BY <2>2, UnregisterEffect
  <2> QED
    BY <2>1, <2>2
\* A store that starts no job of u.
<1>4. ASSUME clients'[u] = {} <=> clients[u] = {},
             \A j \in JobsOf(u) : j[2] \in Presence => stage'[j] = stage[j]
      PROVE  SoundFor(u)'
  <2>1. PresenceJobsOf(u)' = PresenceJobsOf(u)
    BY <1>4 DEF PresenceJobsOf, JobsOf, Subject, Running
  <2>2. \A k \in Conn : phase'[k] = "on" /\ view'[k][u] # "unknown" =>
               /\ phase[k] = "on" /\ view'[k][u] = view[k][u]
               /\ \A j \in PresenceJobsOf(u) : Reaches(j, k) => Reaches(j, k)'
    BY <1>1, <1>2, <1>3, <1>4 DEF Reaches, PresenceJobsOf, JobsOf
  <2> QED
    BY <1>1, <1>4, <2>1, <2>2, PresenceKept
<1>5. CASE RegisterStore(c)
  <2> DEFINE j == <<c, "online">>
  <2>1. j \in Job /\ j[2] = "online" /\ Subject(j) = UserOf[c]
    BY DEF Job, Subject
  <2>2. Spawn(j) /\ clients' = [clients EXCEPT ![UserOf[c]] = @ \cup {c}]
    BY <1>5, RegisterEffect DEF RegisterStore
  <2>3. CASE UserOf[c] = u
    <3>1. clients'[u] # {}
      BY <1>0, <2>2, <2>3
    <3> QED
      BY <1>1, <2>1, <2>2, <2>3, <3>1, SpawnPresence DEF SoundFor, Presence
  <2>4. CASE UserOf[c] # u
    <3>1. clients'[u] = clients[u]
      BY <1>0, <2>2, <2>4
    <3>2. \A i \in JobsOf(u) : stage'[i] = stage[i]
      BY <1>0, <2>1, <2>2, <2>4 DEF Spawn, JobsOf
    <3> QED
      BY <1>4, <3>1, <3>2
  <2> QED
    BY <2>3, <2>4
<1>6. CASE UnregisterStore(c)
  <2> DEFINE j == <<c, "offline">>
  <2>1. j \in Job /\ j[2] = "offline" /\ Subject(j) = UserOf[c]
    BY DEF Job, Subject
  <2>2. /\ clients' = [clients EXCEPT ![UserOf[c]] = @ \ {c}]
        /\ IF LastConn(c) THEN Spawn(j) ELSE UNCHANGED stage
    BY <1>6, UnregisterEffect DEF UnregisterStore
  <2>3. CASE UserOf[c] = u /\ LastConn(c)
    <3>1. clients'[u] = {}
      BY <1>0, <2>2, <2>3 DEF LastConn
    <3> QED
      BY <1>1, <2>1, <2>2, <2>3, <3>1, SpawnPresence DEF SoundFor, Presence
  <2>4. CASE ~(UserOf[c] = u /\ LastConn(c))
    <3>1. clients'[u] = {} <=> clients[u] = {}
      BY <1>0, <2>2, <2>4 DEF LastConn
    <3>2. \A i \in JobsOf(u) : stage'[i] = stage[i]
      BY <1>0, <2>1, <2>2, <2>4 DEF Spawn, JobsOf
    <3> QED
      BY <1>4, <3>1, <3>2
  <2> QED
    BY <2>3, <2>4
<1> QED
  BY <1>5, <1>6

LEMMA DisturbedStays ==
    ASSUME TypeOK, [Next]_vars, NEW u \in User, disturbed[u]
    PROVE  disturbed'[u]
<1>0. disturbed \in [User -> BOOLEAN]
  BY DEF TypeOK
<1>1. ASSUME NEW j \in Job, Spawn(j) PROVE disturbed'[u]
  BY <1>0, <1>1 DEF Spawn
<1>2. ASSUME NEW k \in Conn, RegisterStore(k) \/ UnregisterStore(k) PROVE disturbed'[u]
  BY <1>1, <1>2, PresenceJobs DEF RegisterStore, UnregisterStore
<1>3. ASSUME NEW j \in Job, Finish(j) PROVE disturbed'[u]
  BY <1>0, <1>3 DEF Finish
<1>4. ASSUME NEW v \in User, ToggleGhost(v) PROVE disturbed'[u]
  BY <1>0, <1>4 DEF ToggleGhost
<1> QED
  BY <1>2, <1>3, <1>4
     DEF Next, vars, RegisterLoad, UnregisterLock, ClientEvent, Touch, Check, WriteReceipt,
         SendToUser, Deliver

LEMMA NextPresenceSound == Inv /\ AimSound /\ PresenceSound /\ [Next]_vars => PresenceSound'
<1> SUFFICES ASSUME Inv, AimSound, PresenceSound, [Next]_vars, NEW u \in User, ~disturbed'[u]
             PROVE  SoundFor(u)'
  BY DEF PresenceSound, SoundFor
<1>0. /\ TypeOK
      /\ phase \in [Conn -> {"new", "loaded", "loaded none", "on", "leaving", "gone"}]
      /\ stage \in [Job -> Stage] /\ ghost \in [User -> BOOLEAN]
      /\ disturbed \in [User -> BOOLEAN]
  BY DEF Inv, TypeOK
<1>1. ~disturbed[u] /\ SoundFor(u)
  <2>1. ~disturbed[u]
    BY <1>0, DisturbedStays
  <2> QED
    BY <2>1 DEF PresenceSound, SoundFor
\* Nobody comes on line and no presence job moves.
<1>2. ASSUME UNCHANGED <<clients, view, todo, left>>, ghost'[u] = ghost[u],
             \A j \in Job : j[2] \in Presence => stage'[j] = stage[j],
             \A k \in Conn : phase'[k] = "on" => phase[k] = "on"
      PROVE  SoundFor(u)'
  <2>1. PresenceJobsOf(u)' = PresenceJobsOf(u)
    BY <1>2 DEF PresenceJobsOf, JobsOf, Subject, Running
  <2>2. \A j \in PresenceJobsOf(u), k \in Conn : Reaches(j, k) => Reaches(j, k)'
    BY <1>2 DEF Reaches, PresenceJobsOf, JobsOf
  <2> QED
    BY <1>1, <1>2, <2>1, <2>2, PresenceKept
<1>3. ASSUME NEW k \in Conn, RegisterLoad(k) \/ UnregisterLock(k) PROVE SoundFor(u)'
  <2>1. UNCHANGED <<clients, view, todo, left, ghost, stage>>
    BY <1>3 DEF RegisterLoad, UnregisterLock, users
  <2>2. \A v \in Conn : phase'[v] = "on" => phase[v] = "on"
    BY <1>0, <1>3 DEF RegisterLoad, UnregisterLock
  <2> QED
    BY <1>2, <2>1, <2>2
<1>4. ASSUME NEW k \in Conn, RegisterStore(k) \/ UnregisterStore(k) PROVE SoundFor(u)'
  BY <1>1, <1>4, RegistryPresence
<1>5. ASSUME NEW k \in Conn, NEW e \in {"read", "typing"}, ClientEvent(k, e) PROVE SoundFor(u)'
  <2>1. /\ UNCHANGED <<clients, view, todo, left, ghost, phase>>
        /\ stage' = [stage EXCEPT ![<<k, e>>] = "check"]
    BY <1>5 DEF ClientEvent, registry, users
  <2>2. \A j \in Job : j[2] \in Presence => j # <<k, e>>
    BY DEF Presence
  <2>3. \A j \in Job : j[2] \in Presence => stage'[j] = stage[j]
    BY <1>0, <2>1, <2>2
  <2> QED
    BY <1>2, <2>1, <2>3
<1>6. ASSUME NEW j \in Job,
             \/ Touch(j) \/ Check(j) \/ WriteReceipt(j) \/ Finish(j)
             \/ \E v \in User : SendToUser(j, v)
             \/ \E v \in Conn : Deliver(j, v)
      PROVE  SoundFor(u)'
  BY <1>1, <1>6, JobPresence
<1>7. ASSUME NEW v \in User, ToggleGhost(v) PROVE SoundFor(u)'
  <2>1. v # u
    BY <1>0, <1>7 DEF ToggleGhost
  <2>2. UNCHANGED <<clients, view, todo, left, stage, phase>> /\ ghost'[u] = ghost[u]
    BY <1>0, <1>7, <2>1 DEF ToggleGhost, registry
  <2> QED
    BY <1>2, <2>2
<1>8. CASE UNCHANGED vars
  BY <1>2, <1>8 DEF vars, registry, users
<1> QED
  BY <1>3, <1>4, <1>5, <1>6, <1>7, <1>8 DEF Next

LEMMA InitPresence == Init => AimSound /\ PresenceSound
<1> SUFFICES ASSUME Init PROVE AimSound /\ PresenceSound
  OBVIOUS
<1>1. AimSound
  BY DEF Init, AimSound
<1>2. \A u \in User : PresenceJobsOf(u) = {}
  BY DEF Init, PresenceJobsOf, JobsOf, Running
<1>3. PresenceSound
  BY <1>2 DEF Init, PresenceSound, SaysWhatIs, HeardOrReached
<1> QED
  BY <1>1, <1>3

\* Presence is right in the end although no order holds between the presence
\* goroutines, the walks of the registry take no lock, and the process may be
\* about to be stopped: who has been told anything of a user whose jobs did
\* not overlap and were not cut short, and whose ghost mode did not change,
\* has been told the truth.
THEOREM PresenceIsTrue == Spec => []PresenceConverges
<1>1. AimSound /\ PresenceSound => PresenceConverges
  <2> SUFFICES ASSUME PresenceSound, NEW u \in User, NEW k \in Conn, Settled(u), ~disturbed[u],
                      phase[k] = "on", view[k][u] # "unknown"
               PROVE  view[k][u] = "online" <=> clients[u] # {}
    BY DEF PresenceConverges
  <2>1. PresenceJobsOf(u) = {}
    BY DEF Settled, PresenceJobsOf
  <2> QED
    BY <2>1 DEF PresenceSound, HeardOrReached
<1> QED
  BY <1>1, Invariance, InitPresence, NextAimSound, NextPresenceSound, PTL DEF Spec
=============================================================================
