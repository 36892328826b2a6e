------------------------------ MODULE PrefixListMC -----------------------------
(* Instances of PrefixList for TLC. *)
EXTENDS PrefixListInv, TLC

CONSTANTS mc, w1, l0, l1, l2, other

TwoBlocks == [c \in Clusters |-> IF c = mc THEN "10.0.0.0/16" ELSE "10.1.0.0/16"]
=============================================================================
