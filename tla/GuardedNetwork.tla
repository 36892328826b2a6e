---------------------------- MODULE GuardedNetwork ----------------------------
(***************************************************************************)
(* What the operator promises, without caches, copies, queues or calls: a  *)
(* cluster is guarded before it is put on the network, is put there once,  *)
(* is taken off it entirely before its guard is lifted, and while guarded  *)
(* it may come back. The guard is what keeps its owner from removing it.   *)
(***************************************************************************)
CONSTANT Clusters

VARIABLES guarded,  \* clusters their owner cannot remove
          attached, \* clusters whose VPC is attached to a gateway
          listed    \* clusters whose CIDR block is routed by the prefix list

vars == <<guarded, attached, listed>>

Init == /\ listed \subseteq attached /\ attached \subseteq guarded
        /\ guarded \subseteq Clusters

Guard(c) ==
  /\ c \notin guarded /\ guarded' = guarded \cup {c}
  /\ UNCHANGED <<attached, listed>>

Connect(c) ==
  /\ c \in guarded /\ c \notin attached /\ attached' = attached \cup {c}
  /\ UNCHANGED <<guarded, listed>>

List(c) ==
  /\ c \in attached /\ c \notin listed /\ listed' = listed \cup {c}
  /\ UNCHANGED <<guarded, attached>>

Unlist(c) ==
  /\ c \in listed /\ listed' = listed \ {c}
  /\ UNCHANGED <<guarded, attached>>

Disconnect(c) ==
  /\ c \in attached /\ c \notin listed /\ attached' = attached \ {c}
  /\ UNCHANGED <<guarded, listed>>

Release(c) ==
  /\ c \in guarded /\ c \notin attached /\ guarded' = guarded \ {c}
  /\ UNCHANGED <<attached, listed>>

Next == \E c \in Clusters : \/ Guard(c) \/ Connect(c) \/ List(c)
                            \/ Unlist(c) \/ Disconnect(c) \/ Release(c)

Spec == Init /\ [][Next]_vars
=============================================================================
