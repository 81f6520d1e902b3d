------------------------------- MODULE Media -------------------------------
(***************************************************************************)
(* The media service (internal/media/service.go) over its file store       *)
(* (internal/media/store.go): an upload is copied into a file of its own   *)
(* first, and then gets its row in the table media.  A download looks up   *)
(* the row and opens the file it names.                                    *)
(*                                                                         *)
(* A request that is too large or of another type changes nothing and is   *)
(* left out.  An upload is a request and its fresh media id.               *)
(***************************************************************************)
CONSTANTS Upload,
          MayFail     \* whether a statement or an operation on a file may fail

ASSUME MediaAssumption == MayFail \in BOOLEAN

VARIABLES request,    \* where each upload is; "cut": it ended without its answer
          file,       \* what the store has of it; "spoiled": copied to the end,
                      \* and yet not what was sent
          row         \* table media

media == <<request, file, row>>

Request  == {"none", "copying", "copied", "answered", "refused", "cut"}
InFlight == {r \in Upload : request[r] \in {"copying", "copied"}}

MediaTypeOK ==
    /\ request \in [Upload -> Request]
    /\ file \in [Upload -> {"none", "part", "spoiled", "whole"}]
    /\ row \in SUBSET Upload

MediaInit ==
    /\ request = [r \in Upload |-> "none"]
    /\ file = [r \in Upload |-> "none"]
    /\ row = {}

Becomes(r, state) == request' = [request EXCEPT ![r] = state]

-----------------------------------------------------------------------------
\* os.Create
CreateFile(r) ==
    /\ request[r] = "none"
    /\ Becomes(r, "copying")
    /\ file' = [file EXCEPT ![r] = "part"]
    /\ UNCHANGED row

\* io.Copy to its end.  Two errors are not looked at: that of Seek, after
\* which the first 512 bytes are missing, and that of Close.
CopyFile(r) ==
    /\ request[r] = "copying"
    /\ Becomes(r, "copied")
    /\ \/ file' = [file EXCEPT ![r] = "whole"]
       \/ MayFail /\ file' = [file EXCEPT ![r] = "spoiled"]
    /\ UNCHANGED row

InsertRow_AnyTime(r) ==
    /\ r \in InFlight
    /\ row' = row \cup {r}
    /\ Becomes(r, "answered")
    /\ UNCHANGED file
InsertRow(r) ==
    /\ request[r] = "copied"
    /\ row' = row \cup {r}
    /\ Becomes(r, "answered")
    /\ UNCHANGED file

\* The copy or the insert fails: what is in the store stays there.
UploadFails(r) ==
    /\ MayFail
    /\ r \in InFlight
    /\ Becomes(r, "refused")
    /\ UNCHANGED <<file, row>>

\* The requests R end with their process.
Cut(R) ==
    /\ request' = [r \in Upload |-> IF r \in R THEN "cut" ELSE request[r]]
    /\ UNCHANGED <<file, row>>
=============================================================================
