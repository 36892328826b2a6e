------------------------------ MODULE MCAccountMC ------------------------------
(* Instances of MCAccount for TLC. *)
EXTENDS MCAccountInv, TLC

CONSTANTS mc, w1, l0, l1, l2, other

TwoBlocks == [c \in Clusters |-> IF c = mc THEN "10.0.0.0/16" ELSE "10.1.0.0/16"]

\* New lists differ in nothing but their ID.
NewLists == Permutations({l1, l2})
=============================================================================
