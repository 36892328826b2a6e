----------------------------- MODULE AttachmentsInv ----------------------------
(***************************************************************************)
(* The inductive invariant of Attachments: whose role a client can have    *)
(* assumed, and which attachments there can be of a VPC.                   *)
(***************************************************************************)
EXTENDS Attachments

\* The cached clients have assumed no role: only copies of them are called through.
PoolInv == \A n \in Names : pool[n] \subseteq {NewEC2Client(n)}

\* The worker's copy is of its cluster's name, and of that cluster's account if of any;
\* nobody takes the name while the worker is at it.
Working == aw.pc \notin {"idle", "panic"}
ClientInv ==
  /\ client = {} \/ \E c \in client : client = {c}
  /\ \A n \in Names : vpc[n] # NoVPC => VPCAccount[vpc[n]] = identity[n]
  /\ Working =>
       /\ life[aw.n] # "gone" /\ vpc[aw.n] # NoVPC
       /\ \A c \in client : c.name = aw.n /\ c.account \in {NoAccount, identity[aw.n]}

\* What is not a stray is one of a kind, and in force only while a cluster has the VPC.
Listed(a) == att[a].state # "none"
Own(a) == Listed(a) /\ a \notin strays
OwnInv ==
  /\ \A a \in strays : Listed(a)
  /\ \A a, b \in IDs : Own(a) /\ Own(b) /\ att[a].vpc = att[b].vpc => a = b
  /\ At("Create") => \A a \in IDs : Own(a) => att[a].vpc # vpc[aw.n]

\* What a describe call did not return before attachments are deleted is a stray.
DetachInv == At("Delete") => InForce(vpc[aw.n]) \subseteq strays \cup aw.found

AttInv == TypeOK /\ PoolInv /\ ClientInv /\ OwnInv /\ DetachInv /\ ReleasedMeansDetached
=============================================================================
