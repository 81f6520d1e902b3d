----------------------------- MODULE MC_Server ------------------------------
(***************************************************************************)
(* Two processes over three migrations, the last of which adds a column,   *)
(* and two uploads.                                                        *)
(***************************************************************************)
EXTENDS Server

CONSTANTS p1, p2, r1, r2
=============================================================================
