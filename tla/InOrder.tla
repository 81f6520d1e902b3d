------------------------------ MODULE InOrder ------------------------------
(***************************************************************************)
(* What the migration runner promises of the schema: the migrations take   *)
(* effect in the order of their numbers, each once, none is skipped, and   *)
(* none is undone.                                                         *)
(***************************************************************************)
EXTENDS Naturals

CONSTANT N          \* the migrations are 1 to N

VARIABLE effect     \* the migrations that have taken effect

Init == effect = {}

Apply(n) ==
    /\ effect = 1 .. (n - 1)
    /\ effect' = 1 .. n

Next == \E n \in 1 .. N : Apply(n)

Spec == Init /\ [][Next]_effect
=============================================================================
