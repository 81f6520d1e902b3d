---------------------------- MODULE MC_Messages ----------------------------
(***************************************************************************)
(* Small instances of Messages.  Workers 1 and 3 are two WebSockets of one *)
(* user; worker 2 is the HTTP fallback of the other.                       *)
(***************************************************************************)
EXTENDS Messages

CONSTANTS alice, bob

MCUserOf == [w \in Worker |-> IF w = 2 THEN bob ELSE alice]
MCVia    == [w \in Worker |-> IF w = 2 THEN "http" ELSE "ws"]
=============================================================================
