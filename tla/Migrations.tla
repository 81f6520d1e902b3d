---------------------------- MODULE Migrations -----------------------------
(***************************************************************************)
(* RunMigrations (internal/database/database.go), which every process runs *)
(* when it starts (cmd/syncslate/main.go).  A process may die or fail at   *)
(* any statement and be started again; a second one may be started next    *)
(* to it, over the same file.                                              *)
(*                                                                         *)
(* The *.up.sql files are numbered in the order of their names, and no two *)
(* have the same version.  SQLite runs a script and the insert of its      *)
(* record as one transaction: a write lock from the first write, all or    *)
(* nothing at the end.  Hence the transaction is one step.                 *)
(***************************************************************************)
EXTENDS Naturals

CONSTANTS Process,    \* processes that run the server; each may start many times
          N,          \* the number of *.up.sql files
          Rerunnable, \* the scripts that say IF NOT EXISTS only; ALTER TABLE may not run twice
          Faults      \* whether statements may fail and processes be killed

ASSUME MigrationsAssumption ==
    /\ N \in Nat
    /\ Rerunnable \subseteq 1 .. N
    /\ Faults \in BOOLEAN

VARIABLES pc,         \* where each process is in main
          at,         \* the migration a process is at
          effect,     \* the migrations the schema shows
          record,     \* table schema_migrations
          lost,       \* history: migrations committed without a record
          raced       \* history: processes that met the commit of another while migrating

schema    == <<effect, record, lost>>
migration == <<at, schema, raced>>

Pc        == {"down", "check", "apply", "listen", "up", "draining"}
Migrating == {p \in Process : pc[p] \in {"check", "apply"}}

MigrationsTypeOK ==
    /\ pc \in [Process -> Pc]
    /\ at \in [Process -> 1 .. (N + 1)]
    /\ effect \in SUBSET (1 .. N)
    /\ record \in SUBSET (1 .. N)
    /\ lost \in SUBSET (1 .. N)
    /\ raced \in SUBSET Process

MigrationsInit ==
    /\ pc = [p \in Process |-> "down"]
    /\ at = [p \in Process |-> 1]
    /\ effect = {}
    /\ record = {}
    /\ lost = {}
    /\ raced = {}

Goto(p, place) == pc' = [pc EXCEPT ![p] = place]
NextFile(p)    == at' = [at EXCEPT ![p] = @ + 1]

-----------------------------------------------------------------------------
\* The files are listed and sorted, schema_migrations is created if missing.
Start(p) ==
    /\ pc[p] = "down"
    /\ Goto(p, "check")
    /\ at' = [at EXCEPT ![p] = 1]
    /\ raced' = raced \ {p}
    /\ UNCHANGED schema

CheckVersion_Latest(p) ==
    /\ pc[p] = "check"
    /\ at[p] <= N
    /\ IF at[p] \in record /\ \A i \in record : i <= at[p]
       THEN NextFile(p) /\ UNCHANGED pc
       ELSE Goto(p, "apply") /\ UNCHANGED at
    /\ UNCHANGED <<schema, raced>>
CheckVersion_PastEnd(p) ==
    /\ pc[p] = "check"
    /\ at[p] <= N + 1
    /\ IF at[p] \in record
       THEN NextFile(p) /\ UNCHANGED pc
       ELSE Goto(p, "apply") /\ UNCHANGED at
    /\ UNCHANGED <<schema, raced>>
CheckVersion(p) ==
    /\ pc[p] = "check"
    /\ at[p] <= N
    /\ IF at[p] \in record
       THEN NextFile(p) /\ UNCHANGED pc
       ELSE Goto(p, "apply") /\ UNCHANGED at
    /\ UNCHANGED <<schema, raced>>

\* The record of version i is inserted twice over, with and without a
\* timestamp; the second error is ignored and the transaction commits.
InsertRecord(i) ==
    \/ record' = record \cup {i} /\ UNCHANGED lost
    \/ /\ Faults
       /\ UNCHANGED record
       /\ lost' = IF i \in record THEN lost ELSE lost \cup {i}

ApplyScript_Continues(p) ==
    LET i == at[p] IN
    /\ pc[p] = "apply"
    /\ \/ effect' = effect \cup {i} /\ InsertRecord(i)
       \/ Faults /\ UNCHANGED schema
    /\ NextFile(p)
    /\ Goto(p, "check")
    /\ raced' = raced \cup (Migrating \ {p})
\* The script runs for the first time, or does nothing the second time.
ApplyScript(p) ==
    LET i == at[p] IN
    /\ pc[p] = "apply"
    /\ i \notin effect \/ i \in Rerunnable
    /\ effect' = effect \cup {i}
    /\ InsertRecord(i)
    /\ NextFile(p)
    /\ Goto(p, "check")
    /\ raced' = raced \cup (Migrating \ {p})

\* A column is added twice: the script is rolled back and the process exits.
ScriptFails(p) ==
    /\ pc[p] = "apply"
    /\ at[p] \in effect \ Rerunnable
    /\ Goto(p, "down")
    /\ UNCHANGED migration

\* Any statement may fail, and the process exits.
MigrationFails(p) ==
    /\ Faults
    /\ p \in Migrating
    /\ Goto(p, "down")
    /\ UNCHANGED migration

Migrated(p) ==
    /\ pc[p] = "check"
    /\ at[p] > N
    /\ Goto(p, "listen")
    /\ UNCHANGED migration

MigrationsNext(p) ==
    \/ Start(p) \/ CheckVersion(p) \/ ApplyScript(p) \/ ScriptFails(p)
    \/ MigrationFails(p) \/ Migrated(p)
=============================================================================
