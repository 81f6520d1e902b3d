---------------------------- MODULE MC_History ----------------------------
(***************************************************************************)
(* Small instances of History: the messages are interchangeable, senders   *)
(* stamp and insert them in any order.                                     *)
(***************************************************************************)
EXTENDS History, TLC

MCSymmetry == Permutations(Message)
=============================================================================
