--------------------------- MODULE MC_Membership ---------------------------
(***************************************************************************)
(* Small instances of Membership: worker 1 and 3 act for one user, worker  *)
(* 2 for the other; a third user is only added and removed.                *)
(***************************************************************************)
EXTENDS Membership, TLC

CONSTANTS alice, bob, carol

MCUserOf   == [w \in Worker |-> IF w = 2 THEN bob ELSE alice]
MCPair     == {<<alice, bob>>, <<bob, alice>>}
MCSymmetry == Permutations(Chat)
=============================================================================
