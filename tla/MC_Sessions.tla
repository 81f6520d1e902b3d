---------------------------- MODULE MC_Sessions ----------------------------
(***************************************************************************)
(* Small instances of Sessions: two accounts that would have the same name *)
(* (they differ in case), or two with names of their own.                  *)
(***************************************************************************)
EXTENDS Sessions, TLC

CONSTANTS alice, bob, u1, u2, t1, t2, t3, t4, w1, w2

MCSameName == [u \in User |-> alice]
MCOwnName  == [u \in User |-> IF u = u1 THEN alice ELSE bob]

\* Tokens and workers are interchangeable.
MCSymmetry == Permutations({t1, t2, t3, t4}) \cup Permutations({w1, w2})
=============================================================================
