------------------------------- MODULE Server -------------------------------
(***************************************************************************)
(* The life of server processes (cmd/syncslate/main.go) over one database  *)
(* file, one upload directory and one port: a process migrates, listens,   *)
(* serves requests, and is stopped by a signal or killed.  Uploads stand   *)
(* for the requests: they are the ones with something to leave half done.  *)
(***************************************************************************)
EXTENDS Migrations, Media

CONSTANT NoProcess

ASSUME ServerAssumption == NoProcess \notin Process

VARIABLE on           \* the process that serves, or served, each upload

vars == <<pc, migration, media, on>>

TypeOK ==
    /\ MigrationsTypeOK
    /\ MediaTypeOK
    /\ on \in [Upload -> Process \cup {NoProcess}]

Init ==
    /\ MigrationsInit
    /\ MediaInit
    /\ on = [r \in Upload |-> NoProcess]

\* The requests that process p has not answered.
Unanswered(p) == {r \in InFlight : on[r] = p}

-----------------------------------------------------------------------------
\* ListenAndServe binds the port, or fails and ends the process.
Listen(p) ==
    /\ pc[p] = "listen"
    /\ Goto(p, IF \E q \in Process : pc[q] = "up" THEN "down" ELSE "up")
    /\ UNCHANGED <<migration, media, on>>

\* A signal: Shutdown closes the listener first, which frees the port.
Signal(p) ==
    /\ pc[p] = "up"
    /\ Goto(p, "draining")
    /\ UNCHANGED <<migration, media, on>>

\* Shutdown waits for the requests under way, but no more than ten seconds;
\* main returns in either case.
Stop_Waits(p) ==
    /\ pc[p] = "draining"
    /\ Unanswered(p) = {}
    /\ Goto(p, "down")
    /\ UNCHANGED <<migration, media, on>>
Stop(p) ==
    /\ pc[p] = "draining"
    /\ Goto(p, "down")
    /\ Cut(Unanswered(p))
    /\ UNCHANGED <<migration, on>>

\* A crash, a SIGKILL, or a signal before Notify has asked for it.
Kill(p) ==
    /\ Faults
    /\ pc[p] # "down"
    /\ Goto(p, "down")
    /\ Cut(Unanswered(p))
    /\ UNCHANGED <<migration, on>>

BeginUpload(r, p) ==
    /\ pc[p] = "up"
    /\ CreateFile(r)
    /\ on' = [on EXCEPT ![r] = p]
    /\ UNCHANGED <<pc, migration>>

UploadStep(r) ==
    /\ CopyFile(r) \/ InsertRow(r) \/ UploadFails(r)
    /\ UNCHANGED <<pc, migration, on>>

-----------------------------------------------------------------------------
Next ==
    \/ \E p \in Process : \/ MigrationsNext(p) /\ UNCHANGED <<media, on>>
                          \/ Listen(p) \/ Signal(p) \/ Stop(p) \/ Kill(p)
                          \/ \E r \in Upload : BeginUpload(r, p)
    \/ \E r \in Upload : UploadStep(r)

Spec == Init /\ [][Next]_vars

\* The ten seconds of Shutdown pass.  Requests need not make progress.
FairSpec == Spec /\ \A p \in Process : WF_vars(Stop(p))

-----------------------------------------------------------------------------
\* RunMigrations returns nil only when every script has taken effect: nobody
\* serves an older schema, whoever else fails, dies or migrates meanwhile.
ServesMigrated ==
    \A p \in Process : pc[p] \in {"listen", "up", "draining"} => effect = 1 .. N

\* A script runs for a second time only if its record was lost (the errors
\* of both inserts are ignored), or if another process committed it while
\* this one was migrating.
RerunExplained ==
    \A p \in Process :
        (pc[p] = "apply" /\ at[p] \in effect) => at[p] \in lost \/ p \in raced

\* The file comes before the row (media/service.go:73, 82): what can be
\* looked up can be served, through crashes, failures and shutdowns, and an
\* answered upload can be looked up.  Only the two errors that CopyFile names
\* spoil a file that has a row.
MediaIsWhole ==
    \A r \in Upload : /\ r \in row => file[r] = "whole" \/ (MayFail /\ file[r] = "spoiled")
                      /\ request[r] = "answered" => r \in row

\* The schema goes from one version to the next whoever migrates.
Order == INSTANCE InOrder WITH N <- N, effect <- effect
ImplementsInOrder == Order!Spec

\* Nothing holds up a shutdown for ever.
ShutdownEnds == \A p \in Process : pc[p] = "draining" ~> pc[p] = "down"
=============================================================================
