------------------------------ MODULE OperatorMC ------------------------------
(* Instances of Operator for TLC: workload clusters beside a management        *)
(* cluster that is set up already, or the management cluster on its own.       *)
EXTENDS PromiseInv

CONSTANTS mc, wc, g0, g1, g2

\* Each workload cluster in an account of its own, or all in one.
TwoAccounts == [c \in Clusters |-> IF c = mc THEN "mc-account" ELSE "wc-account"]
OneAccount == [c \in Clusters |-> "mc-account"]

\* The gateways belong to the account of the management cluster.
MCGateways == [t \in Gateways |-> "mc-account"]

\* The VPCs have CIDR blocks of their own.
OwnCidrs == [c \in Clusters |-> IF c = mc THEN "10.0.0.0/16" ELSE "10.1.0.0/16"]

NoChanges == {}
LateMode == {<<"None", "GiantSwarmManaged">>}
=============================================================================
