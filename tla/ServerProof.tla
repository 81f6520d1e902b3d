---------------------------- MODULE ServerProof ----------------------------
(***************************************************************************)
(* What is proved of the life of server processes: the schema a process    *)
(* serves is complete, migrations take effect in order, a script runs      *)
(* again for the two known reasons only, and media rows have their files.  *)
(***************************************************************************)
EXTENDS Server, TLAPS

USE MigrationsAssumption, MediaAssumption, ServerAssumption

Serving == {"listen", "up", "draining"}

\* A process that migrates stands where the scripts before it have taken
\* effect; one that serves has seen them all.
AtSound ==
    \A p \in Process :
        /\ pc[p] = "apply" => at[p] <= N
        /\ pc[p] \in {"check", "apply"} => 1 .. (at[p] - 1) \subseteq effect
        /\ pc[p] \in Serving => 1 .. N \subseteq effect

\* The scripts that have taken effect are the first ones.
PrefixSound == \E k \in 0 .. N : effect = 1 .. k

\* A record is of a script that has taken effect, and only lost ones have none.
RecordSound == record \subseteq effect
LostSound   == effect \subseteq record \cup lost

\* An upload has what its place in the handler says.
UploadSound ==
    \A r \in Upload :
        /\ request[r] = "none" => file[r] = "none"
        /\ request[r] = "copied" => file[r] = "whole" \/ (MayFail /\ file[r] = "spoiled")

MigrationInv == AtSound /\ PrefixSound /\ RecordSound
RerunInv     == LostSound /\ RerunExplained
MediaInv     == UploadSound /\ MediaIsWhole

-----------------------------------------------------------------------------
\* Every step is a migration step of one process, one of its other steps,
\* or a step of an upload; only the first kind touches the schema.
MigrationStep(p) == MigrationsNext(p) /\ UNCHANGED <<media, on>>

MediaStep == \/ \E r \in Upload : CreateFile(r) \/ CopyFile(r) \/ InsertRow(r) \/ UploadFails(r)
             \/ \E R \in SUBSET Upload : Cut(R)
             \/ UNCHANGED media

LEMMA StepKinds ==
    ASSUME [Next]_vars
    PROVE  MediaStep
<1>1. CASE UNCHANGED vars
  BY <1>1 DEF vars, MediaStep
<1>2. ASSUME NEW p \in Process, MigrationStep(p) PROVE MediaStep
  BY <1>2 DEF MigrationStep, MediaStep
<1>3. ASSUME NEW p \in Process, Listen(p) \/ Signal(p) PROVE MediaStep
  BY <1>3 DEF Listen, Signal, MediaStep
<1>4. ASSUME NEW p \in Process, Stop(p) \/ Kill(p) PROVE MediaStep
  <2>1. Unanswered(p) \in SUBSET Upload
    BY DEF Unanswered, InFlight
  <2> QED
    BY <1>4, <2>1 DEF Stop, Kill, MediaStep
<1>5. ASSUME NEW p \in Process, NEW r \in Upload, BeginUpload(r, p) PROVE MediaStep
  BY <1>5 DEF BeginUpload, MediaStep
<1>6. ASSUME NEW r \in Upload, UploadStep(r) PROVE MediaStep
  BY <1>6 DEF UploadStep, MediaStep
<1> QED
  BY <1>1, <1>2, <1>3, <1>4, <1>5, <1>6 DEF Next, MigrationStep

\* A step that is no migration step leaves the migration alone; it moves a
\* process on from "listen", or down.
OtherStep ==
    /\ UNCHANGED migration
    /\ \/ UNCHANGED pc
       \/ \E p \in Process :
             \/ pc[p] \in Serving /\ \E place \in {"up", "draining", "down"} : Goto(p, place)
             \/ Goto(p, "down")

LEMMA OtherSteps ==
    ASSUME [Next]_vars
    PROVE  (\E p \in Process : MigrationStep(p)) \/ OtherStep
<1>1. CASE UNCHANGED vars
  BY <1>1 DEF vars, OtherStep
<1>2. ASSUME NEW p \in Process, Listen(p) PROVE OtherStep
  BY <1>2 DEF Listen, OtherStep, Serving
<1>3. ASSUME NEW p \in Process, Signal(p) PROVE OtherStep
  BY <1>3 DEF Signal, OtherStep, Serving
<1>4. ASSUME NEW p \in Process, Stop(p) \/ Kill(p) PROVE OtherStep
  BY <1>4 DEF Stop, Kill, OtherStep
<1>5. ASSUME NEW p \in Process, NEW r \in Upload, BeginUpload(r, p) PROVE OtherStep
  BY <1>5 DEF BeginUpload, OtherStep
<1>6. ASSUME NEW r \in Upload, UploadStep(r) PROVE OtherStep
  BY <1>6 DEF UploadStep, OtherStep
<1> QED
  BY <1>1, <1>2, <1>3, <1>4, <1>5, <1>6 DEF Next, MigrationStep

-----------------------------------------------------------------------------
LEMMA InitInv == Init => TypeOK /\ MigrationInv /\ RerunInv /\ MediaInv
<1> SUFFICES ASSUME Init PROVE TypeOK /\ MigrationInv /\ RerunInv /\ MediaInv
  OBVIOUS
<1> USE DEF Init, MigrationsInit, MediaInit
<1>1. TypeOK
  BY DEF TypeOK, MigrationsTypeOK, MediaTypeOK, Pc, Request
<1>2. AtSound
  BY DEF AtSound, Serving
<1>3. PrefixSound
  <2>1. effect = 1 .. 0
    OBVIOUS
  <2> QED
    BY <2>1 DEF PrefixSound
<1>4. RerunInv /\ RecordSound
  BY DEF RerunInv, LostSound, RecordSound, RerunExplained
<1>5. MediaInv
  BY DEF MediaInv, UploadSound, MediaIsWhole
<1> QED
  BY <1>1, <1>2, <1>3, <1>4, <1>5 DEF MigrationInv

LEMMA NextMediaType ==
    ASSUME MediaTypeOK, MediaStep
    PROVE  MediaTypeOK'
<1> USE DEF MediaTypeOK, Request, Becomes
<1>1. ASSUME NEW r \in Upload, CreateFile(r) PROVE MediaTypeOK'
  BY <1>1 DEF CreateFile
<1>2. ASSUME NEW r \in Upload, CopyFile(r) PROVE MediaTypeOK'
  BY <1>2 DEF CopyFile
<1>3. ASSUME NEW r \in Upload, InsertRow(r) PROVE MediaTypeOK'
  BY <1>3 DEF InsertRow
<1>4. ASSUME NEW r \in Upload, UploadFails(r) PROVE MediaTypeOK'
  BY <1>4 DEF UploadFails
<1>5. ASSUME NEW R \in SUBSET Upload, Cut(R) PROVE MediaTypeOK'
  BY <1>5 DEF Cut
<1>6. CASE UNCHANGED media
  BY <1>6 DEF media
<1> QED
  BY <1>1, <1>2, <1>3, <1>4, <1>5, <1>6 DEF MediaStep

LEMMA NextMedia ==
    ASSUME MediaTypeOK, MediaInv, MediaStep
    PROVE  MediaInv'
<1> USE DEF MediaTypeOK, MediaInv, UploadSound, MediaIsWhole, Becomes
<1>1. ASSUME NEW r \in Upload, CreateFile(r) PROVE MediaInv'
  BY <1>1 DEF CreateFile
<1>2. ASSUME NEW r \in Upload, CopyFile(r) PROVE MediaInv'
  BY <1>2 DEF CopyFile
<1>3. ASSUME NEW r \in Upload, InsertRow(r) PROVE MediaInv'
  BY <1>3 DEF InsertRow
<1>4. ASSUME NEW r \in Upload, UploadFails(r) PROVE MediaInv'
  BY <1>4 DEF UploadFails, InFlight
<1>5. ASSUME NEW R \in SUBSET Upload, Cut(R) PROVE MediaInv'
  BY <1>5 DEF Cut
<1>6. CASE UNCHANGED media
  BY <1>6 DEF media
<1> QED
  BY <1>1, <1>2, <1>3, <1>4, <1>5, <1>6 DEF MediaStep

-----------------------------------------------------------------------------
\* The transaction of a script: the next one takes effect, or one that has
\* already; a script without its record is lost.
LEMMA ScriptStep ==
    ASSUME MigrationsTypeOK, MigrationInv, NEW p \in Process, ApplyScript(p)
    PROVE  /\ at[p] \in 1 .. N
           /\ \/ effect' = effect
              \/ effect = 1 .. (at[p] - 1) /\ effect' = 1 .. at[p]
           /\ effect' = effect \cup {at[p]}
           /\ record \subseteq record' /\ record' \subseteq record \cup {at[p]}
           /\ lost \subseteq lost' /\ at[p] \in record' \cup lost'
<1> DEFINE i == at[p]
<1>1. i \in 1 .. N /\ 1 .. (i - 1) \subseteq effect /\ effect' = effect \cup {i}
  BY DEF ApplyScript, MigrationInv, AtSound, MigrationsTypeOK
<1>2. PICK k \in 0 .. N : effect = 1 .. k
  BY DEF MigrationInv, PrefixSound
<1>3. i \in effect => effect' = effect
  BY <1>1
<1>4. ASSUME i \notin effect PROVE effect = 1 .. (i - 1) /\ effect' = 1 .. i
  <2>1. k < i
    BY <1>1, <1>2, <1>4
  <2>2. \A j \in 1 .. (i - 1) : j <= k
    BY <1>1, <1>2
  <2>3. k = i - 1
    BY <1>1, <2>1, <2>2
  <2>4. 1 .. i = 1 .. (i - 1) \cup {i}
    BY <1>1
  <2> QED
    BY <1>1, <1>2, <2>3, <2>4
<1>5. /\ record \subseteq record' /\ record' \subseteq record \cup {i}
      /\ lost \subseteq lost' /\ i \in record' \cup lost'
  BY DEF ApplyScript, InsertRecord
<1> QED
  BY <1>1, <1>3, <1>4, <1>5

LEMMA NextType ==
    ASSUME TypeOK, MigrationInv, [Next]_vars
    PROVE  TypeOK'
<1> USE DEF TypeOK, MigrationsTypeOK, Pc, Goto, NextFile
<1>1. MediaTypeOK'
  BY StepKinds, NextMediaType
<1>2. (on \in [Upload -> Process \cup {NoProcess}])'
  BY DEF Next, vars, Listen, Signal, Stop, Kill, BeginUpload, UploadStep
<1>3. MigrationsTypeOK'
  <2>1. CASE OtherStep
    BY <2>1 DEF OtherStep, migration, schema, Serving
  <2>2. ASSUME NEW p \in Process, MigrationsNext(p) PROVE MigrationsTypeOK'
    <3>1. CASE Start(p)
      BY <3>1 DEF Start, schema
    <3>2. CASE CheckVersion(p)
      BY <3>2 DEF CheckVersion, schema
    <3>3. CASE ApplyScript(p)
      <4>1. at[p] \in 1 .. N
        BY <3>3, ScriptStep
      <4>2. (pc \in [Process -> Pc] /\ at \in [Process -> 1 .. (N + 1)])'
        BY <3>3, <4>1 DEF ApplyScript
      <4>3. (effect \in SUBSET (1 .. N) /\ record \in SUBSET (1 .. N) /\ lost \in SUBSET (1 .. N))'
        BY <3>3, <4>1 DEF ApplyScript, InsertRecord
      <4>4. (raced \in SUBSET Process)'
        BY <3>3 DEF ApplyScript, Migrating
      <4> QED
        BY <4>2, <4>3, <4>4
    <3>4. CASE ScriptFails(p) \/ MigrationFails(p) \/ Migrated(p)
      BY <3>4 DEF ScriptFails, MigrationFails, Migrated, migration, schema
    <3> QED
      BY <2>2, <3>1, <3>2, <3>3, <3>4 DEF MigrationsNext
  <2> QED
    BY <2>1, <2>2, OtherSteps DEF MigrationStep
<1> QED
  BY <1>1, <1>2, <1>3

LEMMA NextMigration ==
    ASSUME TypeOK, MigrationInv, [Next]_vars
    PROVE  MigrationInv'
<1> USE DEF TypeOK, MigrationsTypeOK, Serving, Goto, NextFile
<1>1. CASE OtherStep
  BY <1>1 DEF OtherStep, migration, schema, MigrationInv, AtSound, PrefixSound, RecordSound
<1>2. ASSUME NEW p \in Process, MigrationsNext(p) PROVE MigrationInv'
  <2>1. CASE Start(p)
    <3>1. AtSound'
      BY <2>1 DEF Start, schema, MigrationInv, AtSound
    <3> QED
      BY <2>1, <3>1 DEF Start, schema, MigrationInv, PrefixSound, RecordSound
  <2>2. CASE CheckVersion(p)
    <3>1. PrefixSound' /\ RecordSound'
      BY <2>2 DEF CheckVersion, schema, MigrationInv, PrefixSound, RecordSound
    <3>2. at[p] \in record => 1 .. at[p] \subseteq effect
      BY <2>2 DEF CheckVersion, MigrationInv, AtSound, RecordSound
    <3>3. AtSound'
      BY <2>2, <3>2 DEF CheckVersion, schema, MigrationInv, AtSound
    <3> QED
      BY <3>1, <3>3 DEF MigrationInv
  <2>3. CASE ApplyScript(p)
    <3>1. /\ at[p] \in 1 .. N
          /\ effect' = effect \/ effect' = 1 .. at[p]
          /\ effect' = effect \cup {at[p]}
          /\ record' \subseteq record \cup {at[p]}
      BY <2>3, ScriptStep
    <3>2. PrefixSound'
      BY <3>1 DEF MigrationInv, PrefixSound
    <3>3. RecordSound'
      BY <3>1 DEF MigrationInv, RecordSound
    <3>4. AtSound'
      <4>1. 1 .. at[p] \subseteq effect'
        BY <2>3, <3>1 DEF ApplyScript, MigrationInv, AtSound
      <4>2. ASSUME NEW q \in Process, q # p PROVE pc'[q] = pc[q] /\ at'[q] = at[q]
        BY <2>3, <4>2 DEF ApplyScript
      <4>3. pc'[p] = "check" /\ at'[p] = at[p] + 1
        BY <2>3 DEF ApplyScript
      <4> QED
        BY <3>1, <4>1, <4>2, <4>3 DEF MigrationInv, AtSound
    <3> QED
      BY <3>2, <3>3, <3>4 DEF MigrationInv
  <2>4. CASE ScriptFails(p) \/ MigrationFails(p)
    BY <2>4 DEF ScriptFails, MigrationFails, migration, schema, MigrationInv, AtSound, PrefixSound,
       RecordSound
  <2>5. CASE Migrated(p)
    <3>1. at[p] = N + 1 /\ 1 .. N \subseteq effect
      BY <2>5 DEF Migrated, MigrationInv, AtSound
    <3>2. AtSound'
      BY <2>5, <3>1 DEF Migrated, migration, schema, MigrationInv, AtSound
    <3> QED
      BY <2>5, <3>2 DEF Migrated, migration, schema, MigrationInv, PrefixSound, RecordSound
  <2> QED
    BY <1>2, <2>1, <2>2, <2>3, <2>4, <2>5 DEF MigrationsNext
<1> QED
  BY <1>1, <1>2, OtherSteps DEF MigrationStep

LEMMA NextRerun ==
    ASSUME TypeOK, MigrationInv, RerunInv, [Next]_vars
    PROVE  RerunInv'
<1> USE DEF TypeOK, MigrationsTypeOK, Goto, NextFile, RerunInv
<1>1. CASE OtherStep
  BY <1>1 DEF OtherStep, Serving, migration, schema, LostSound, RerunExplained
<1>2. ASSUME NEW p \in Process, MigrationsNext(p) PROVE RerunInv'
  <2>1. CASE Start(p)
    BY <2>1 DEF Start, schema, LostSound, RerunExplained
  <2>2. CASE CheckVersion(p)
    BY <2>2 DEF CheckVersion, schema, LostSound, RerunExplained
  <2>3. CASE ApplyScript(p)
    <3>1. /\ effect' = effect \cup {at[p]}
          /\ record \subseteq record'
          /\ lost \subseteq lost' /\ at[p] \in record' \cup lost'
      BY <2>3, ScriptStep
    <3>2. LostSound'
      BY <3>1 DEF LostSound
    <3>3. ASSUME NEW q \in Process, pc'[q] = "apply" PROVE q \in raced'
      BY <2>3, <3>3 DEF ApplyScript, Migrating
    <3> QED
      BY <3>2, <3>3 DEF RerunExplained
  <2>4. CASE ScriptFails(p) \/ MigrationFails(p) \/ Migrated(p)
    BY <2>4 DEF ScriptFails, MigrationFails, Migrated, migration, schema, LostSound, RerunExplained
  <2> QED
    BY <1>2, <2>1, <2>2, <2>3, <2>4 DEF MigrationsNext
<1> QED
  BY <1>1, <1>2, OtherSteps DEF MigrationStep

LEMMA NextMediaInv ==
    ASSUME TypeOK, MediaInv, [Next]_vars
    PROVE  MediaInv'
BY StepKinds, NextMedia DEF TypeOK

\* The schema changes by a script that is the next one.
LEMMA OrderStep ==
    ASSUME TypeOK, MigrationInv, [Next]_vars
    PROVE  [Order!Next]_effect
<1>1. CASE OtherStep
  BY <1>1 DEF OtherStep, migration, schema
<1>2. ASSUME NEW p \in Process, MigrationsNext(p) PROVE [Order!Next]_effect
  <2>1. CASE ApplyScript(p)
    BY <2>1, ScriptStep DEF TypeOK, Order!Next, Order!Apply
  <2>2. CASE Start(p) \/ CheckVersion(p) \/ ScriptFails(p) \/ MigrationFails(p) \/ Migrated(p)
    BY <2>2 DEF Start, CheckVersion, ScriptFails, MigrationFails, Migrated, migration, schema
  <2> QED
    BY <1>2, <2>1, <2>2 DEF MigrationsNext
<1> QED
  BY <1>1, <1>2, OtherSteps DEF MigrationStep

-----------------------------------------------------------------------------
LEMMA Invariance == Spec => [](TypeOK /\ MigrationInv /\ RerunInv /\ MediaInv)
<1>1. TypeOK /\ MigrationInv /\ RerunInv /\ MediaInv /\ [Next]_vars
        => (TypeOK /\ MigrationInv /\ RerunInv /\ MediaInv)'
  BY NextType, NextMigration, NextRerun, NextMediaInv
<1> QED
  BY <1>1, InitInv, PTL DEF Spec

\* The variables keep their types: main, the runner and the uploads of any
\* number of processes.
THEOREM TypeCorrect == Spec => []TypeOK
BY Invariance, PTL

\* A process that listens or serves has the complete schema under it
\* (RunMigrations is over before ListenAndServe).
THEOREM SchemaIsComplete == Spec => []ServesMigrated
<1>1. TypeOK /\ MigrationInv => ServesMigrated
  BY DEF TypeOK, MigrationsTypeOK, MigrationInv, AtSound, Serving, ServesMigrated
<1> QED
  BY <1>1, Invariance, PTL

\* A script runs again only if its record was lost or another process
\* committed it meanwhile.
THEOREM RerunsAreExplained == Spec => []RerunExplained
<1>1. RerunInv => RerunExplained
  BY DEF RerunInv
<1> QED
  BY <1>1, Invariance, PTL

\* A row of the table media has its whole file, but for an error of Seek or Close
\* that nobody looked at, and an answered upload has its row.
THEOREM RowsHaveFiles == Spec => []MediaIsWhole
<1>1. MediaInv => MediaIsWhole
  BY DEF MediaInv
<1> QED
  BY <1>1, Invariance, PTL

\* The schema grows one script at a time, in order, whoever migrates.
THEOREM MigrationsAreInOrder == Spec => ImplementsInOrder
<1>1. Init => Order!Init
  BY DEF Init, MigrationsInit, Order!Init
<1>2. TypeOK /\ MigrationInv /\ [Next]_vars => [Order!Next]_effect
  BY OrderStep
<1> QED
  BY <1>1, <1>2, Invariance, PTL DEF Spec, ImplementsInOrder, Order!Spec
=============================================================================
