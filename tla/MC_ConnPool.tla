---------------------------- MODULE MC_ConnPool ----------------------------
(***************************************************************************)
(* A small instance of ConnPool.                                           *)
(***************************************************************************)
EXTENDS ConnPool, TLC

CONSTANTS l1, l2, l3, s1, c1, c2, c3
=============================================================================
