------------------------------- MODULE MC_Hub -------------------------------
(***************************************************************************)
(* Small instances of Hub: one user has the connections a1 and a2, the     *)
(* other b1.                                                               *)
(***************************************************************************)
EXTENDS Hub

CONSTANTS alice, bob, a1, a2, b1

MCUserOf == [k \in Conn |-> IF k = b1 THEN bob ELSE alice]

\* a1, which is like a2, connects first.  Once both have connected nobody
\* switches ghost mode, reads or types, no lookup fails, and b1 stays.
MCPresenceOnly ==
    /\ toggles = 0
    /\ blind = {}
    /\ \A j \in Job : Running(j) => j[2] \in Presence
    /\ phase[b1] \notin {"leaving", "gone"}
MCBounds == phase[a2] = "new" \/ (phase[a1] # "new" /\ MCPresenceOnly)

\* No guard reads lastSeen or receipts.
MCView == <<registry, ghost, stage, todo, left, view, disturbed, blind, toggles, crashed>>
=============================================================================
