------------------------------ MODULE Attachments ------------------------------
(***************************************************************************)
(* attachTransitGateway and detachTransitGateway call by call, through the *)
(* clients of AwsClients: AwsNetwork takes each as one step on the one     *)
(* attachment a VPC can have; here EC2 lists attachments that were deleted *)
(* or rejected for a while, and others attach and detach too. One gateway, *)
(* visible to every account.                                               *)
(***************************************************************************)
EXTENDS AwsClients, Subnets

CONSTANTS
  VPCs,          \* VPCs, which their owners may bring and use again
  VPCAccount,    \* the account of each
  NoVPC,         \* no VPC yet
  IDs,           \* bound: attachments there are at a time
  MaxFaults,     \* bound: failures
  MaxForeign,    \* bound: attachments made, deleted or rejected by others
  MaxLives       \* bound: clusters created again under a name used before

ASSUME AttachmentsAssumption ==
  /\ VPCAccount \in [VPCs -> Accounts] /\ NoVPC \notin VPCs
  /\ MaxFaults \in Nat /\ MaxForeign \in Nat /\ MaxLives \in Nat

VARIABLES
  att,        \* the attachments of the gateway
  strays,     \* those made by hand, or by calls whose caller gave up
  life, mode, \* of each cluster
  vpc,        \* the VPC in each AWSCluster
  network,    \* whether its subnets are known
  aw,         \* the worker
  late,       \* VPCs AWS may still attach although the caller gave up
  faults, foreign, lives

bounds == <<faults, foreign, lives>>
attVars == <<clientVars, att, strays, life, mode, vpc, network, aw, late, bounds>>

Modes == {"UserManaged", "GiantSwarmManaged"}
States == {"pendingAcceptance", "available", "deleting", "deleted", "rejected"}
NoAttachment == [state |-> "none", vpc |-> NoVPC]
Attachment == {NoAttachment} \cup [state: States, vpc: VPCs]

\* found: the attachments a describe call returned and that are still to delete.
TypeOK ==
  /\ ClientsTypeOK
  /\ att \in [IDs -> Attachment] /\ strays \subseteq IDs
  /\ life \in [Names -> {"live", "deleting", "gone"}] /\ mode \in [Names -> Modes]
  /\ vpc \in [Names -> VPCs \cup {NoVPC}] /\ network \in [Names -> BOOLEAN]
  /\ aw \in [pc: {"idle", "Subnets", "Attach", "Create", "Publish", "Detach", "Delete", "panic"},
             n: Names, found: SUBSET IDs]
  /\ late \subseteq VPCs
  /\ faults \in Nat /\ foreign \in Nat /\ lives \in Nat

Idle == [pc |-> "idle", n |-> CHOOSE n \in Names : TRUE, found |-> {}]
Goto(stage) == aw' = [aw EXCEPT !.pc = stage]
At(stage) == aw.pc = stage

InForce(v) == {a \in IDs : att[a].vpc = v /\ att[a].state \in {"pendingAcceptance", "available"}}

Init ==
  /\ ClientsInit
  /\ att = [a \in IDs |-> NoAttachment] /\ strays = {}
  /\ life = [n \in Names |-> "live"] /\ mode \in [Names -> Modes]
  /\ vpc = [n \in Names |-> NoVPC] /\ network = [n \in Names |-> FALSE]
  /\ aw = Idle /\ late = {}
  /\ faults = 0 /\ foreign = 0 /\ lives = 0

-----------------------------------------------------------------------------
(* The worker.                                                             *)

\* Register attaches once there is a VPC; Unregister has nothing to detach
\* without one, and the cluster's finalizers go.
Register(n) ==
  /\ At("idle") /\ life[n] = "live" /\ vpc[n] # NoVPC
  /\ GetClient(n) /\ aw' = [pc |-> "Subnets", n |-> n, found |-> {}]
  /\ UNCHANGED <<att, strays, life, mode, vpc, network, late, bounds>>

Unregister(n) ==
  /\ At("idle") /\ life[n] = "deleting" /\ vpc[n] # NoVPC
  /\ GetClient(n) /\ aw' = [pc |-> "Detach", n |-> n, found |-> {}]
  /\ UNCHANGED <<att, strays, life, mode, vpc, network, late, bounds>>

\* Mutant: only a cluster of the other mode may go without a VPC.
NothingToDetachManaged(n) == vpc[n] = NoVPC /\ mode[n] = "GiantSwarmManaged"

NothingToDetach(n) == vpc[n] = NoVPC

UnregisterWithoutVPC(n) ==
  /\ At("idle") /\ life[n] = "deleting" /\ NothingToDetach(n)
  /\ life' = [life EXCEPT ![n] = "gone"]
  /\ UNCHANGED <<clientVars, att, strays, mode, vpc, network, aw, late, bounds>>

\* Tagged subnets do, or those the AWSCluster knows; with neither it is an error.
DescribeSubnets ==
  /\ At("Subnets") /\ Call
  /\ Goto("Attach") \/ (~network[aw.n] /\ aw' = Idle)
  /\ UNCHANGED <<att, strays, life, mode, vpc, network, late, bounds>>

\* Mutant: only what is available is asked for.
DescribedAvailable(n) ==
  {a \in IDs : /\ att[a].state = "available" /\ att[a].vpc = vpc[n]
               /\ \A c \in client : CalledIn(c) = VPCAccount[vpc[n]]}

\* What the describe call returns: the attachments of the gateway and the VPC,
\* in any state, that belong to the account the call is made in.
Described(n) ==
  {a \in IDs : /\ att[a].state # "none" /\ att[a].vpc = vpc[n]
               /\ \A c \in client : CalledIn(c) = VPCAccount[vpc[n]]}

\* Mutant: a new attachment is made unless one is in force.
DescribeInForce ==
  LET found == Described(aw.n)
      next == IF found \cap InForce(vpc[aw.n]) = {} THEN "Create"
              ELSE IF mode[aw.n] = "UserManaged" /\ Cardinality(found) > 1 THEN "panic"
              ELSE "idle"
  IN  /\ At("Attach") /\ Call
      /\ IF next = "idle" THEN aw' = Idle ELSE Goto(next)
      /\ UNCHANGED <<att, strays, life, mode, vpc, network, late, bounds>>

\* One attachment is taken as it is. With more the caller gets no attachment and
\* no error, which Register ignores in one mode and dereferences in the other.
DescribeToAttach ==
  LET found == Described(aw.n)
      one == CHOOSE a \in found : TRUE
      next == IF found = {} THEN "Create"
              ELSE IF mode[aw.n] = "GiantSwarmManaged" THEN "idle"
              ELSE IF Cardinality(found) > 1 THEN "panic"
              ELSE IF att[one].state = "pendingAcceptance" THEN "Publish" ELSE "idle"
  IN  /\ At("Attach") /\ Call
      /\ IF next = "idle" THEN aw' = Idle ELSE Goto(next)
      /\ UNCHANGED <<att, strays, life, mode, vpc, network, late, bounds>>

\* EC2 attaches a VPC once, for a caller of its account, under an ID that nobody
\* remembers.
Attaches(v, a) ==
  /\ InForce(v) = {} /\ att[a] = NoAttachment /\ a \notin aw.found
  /\ \E s \in {"pendingAcceptance", "available"} : att' = [att EXCEPT ![a] = [state |-> s, vpc |-> v]]

CreateAttachment ==
  /\ At("Create") /\ Call
  /\ \/ /\ \A c \in client : CalledIn(c) = VPCAccount[vpc[aw.n]]
        /\ \E a \in IDs :
             /\ Attaches(vpc[aw.n], a)
             /\ IF mode[aw.n] = "UserManaged" /\ att'[a].state = "pendingAcceptance"
                THEN Goto("Publish") ELSE aw' = Idle
     \/ /\ InForce(vpc[aw.n]) # {} \/ \E c \in client : CalledIn(c) # VPCAccount[vpc[aw.n]]
        /\ aw' = Idle /\ UNCHANGED att
  /\ UNCHANGED <<strays, life, mode, vpc, network, late, bounds>>

Publish ==
  /\ At("Publish") /\ PublishSNSMessage /\ aw' = Idle
  /\ UNCHANGED <<att, strays, life, mode, vpc, network, late, bounds>>

DescribeToDetach ==
  /\ At("Detach") /\ Call
  /\ aw' = [aw EXCEPT !.pc = "Delete", !.found = Described(aw.n)]
  /\ UNCHANGED <<att, strays, life, mode, vpc, network, late, bounds>>

\* EC2 does not delete what was deleted, rejected or forgotten, and may refuse to
\* delete twice. The first error ends the loop, and Unregister.
DeleteAttachment ==
  /\ At("Delete") /\ Call
  /\ \E a \in aw.found :
       \/ /\ att[a].state \in {"pendingAcceptance", "available", "deleting"}
          /\ att' = [att EXCEPT ![a].state = "deleting"]
          /\ aw' = [aw EXCEPT !.found = @ \ {a}]
       \/ att[a].state \in {"none", "deleting", "deleted", "rejected"} /\ aw' = Idle /\ UNCHANGED att
  /\ UNCHANGED <<strays, life, mode, vpc, network, late, bounds>>

\* The finalizers go when the loop is through, and the cluster with them.
Detached ==
  /\ At("Delete") /\ aw.found = {} /\ aw' = Idle
  /\ life' = [life EXCEPT ![aw.n] = "gone"]
  /\ UNCHANGED <<clientVars, att, strays, mode, vpc, network, late, bounds>>

\* A call fails and the request is put back; EC2 may still attach.
Fail ==
  /\ aw.pc \notin {"idle", "panic"} /\ faults < MaxFaults /\ faults' = faults + 1
  /\ aw' = Idle
  /\ late' \in {late, IF At("Create") THEN late \cup {vpc[aw.n]} ELSE late}
  /\ UNCHANGED <<clientVars, att, strays, life, mode, vpc, network, foreign, lives>>

\* The process ends: by itself on the nil attachment and when the SNS client
\* cannot assume its role, or anywhere from outside.
ProcessEnds ==
  /\ ClientsRestart /\ aw' = Idle
  /\ \/ At("panic") /\ UNCHANGED faults
     \/ ~At("panic") /\ faults < MaxFaults /\ faults' = faults + 1
  /\ UNCHANGED <<att, strays, life, mode, vpc, network, late, foreign, lives>>

-----------------------------------------------------------------------------
(* What happens around the operator.                                       *)

Moves(a, from, to) ==
  /\ att[a].state = from
  /\ att' = [att EXCEPT ![a] = IF to = "none" THEN NoAttachment ELSE [@ EXCEPT !.state = to]]
  /\ strays' = IF to = "none" THEN strays \ {a} ELSE strays
  /\ UNCHANGED <<clientVars, life, mode, vpc, network, aw, late, faults, lives>>

\* EC2 in its own time: what is over is listed for a while and then forgotten.
EC2Moves(a) ==
  /\ \/ Moves(a, "deleting", "deleted")
     \/ Moves(a, "deleted", "none") \/ Moves(a, "rejected", "none")
  /\ UNCHANGED foreign

\* The owner of the gateway accepts or rejects, others attach and delete.
OthersMove(a) ==
  /\ foreign < MaxForeign /\ foreign' = foreign + 1
  /\ \/ Moves(a, "pendingAcceptance", "available") \/ Moves(a, "pendingAcceptance", "rejected")
     \/ Moves(a, "available", "deleted")

AttachStray(v, a) ==
  /\ Attaches(v, a) /\ strays' = strays \cup {a}
  /\ \/ v \in late /\ late' = late \ {v} /\ UNCHANGED foreign
     \/ foreign < MaxForeign /\ foreign' = foreign + 1 /\ UNCHANGED late
  /\ UNCHANGED <<clientVars, life, mode, vpc, network, aw, faults, lives>>

\* CAPA makes or adopts a VPC of the cluster's account, then its subnets; it
\* can remove a VPC without attachments.
VPCReady(n, v) ==
  /\ life[n] = "live" /\ vpc[n] = NoVPC /\ VPCAccount[v] = identity[n]
  /\ \A m \in Names : life[m] # "gone" => vpc[m] # v
  /\ vpc' = [vpc EXCEPT ![n] = v]
  /\ UNCHANGED <<clientVars, att, strays, life, mode, network, aw, late, bounds>>

NetworkReady(n) ==
  /\ vpc[n] # NoVPC /\ ~network[n] /\ network' = [network EXCEPT ![n] = TRUE]
  /\ UNCHANGED <<clientVars, att, strays, life, mode, vpc, aw, late, bounds>>

RequestDeletion(n) ==
  /\ life[n] = "live" /\ life' = [life EXCEPT ![n] = "deleting"]
  /\ UNCHANGED <<clientVars, att, strays, mode, vpc, network, aw, late, bounds>>

\* The name is used again, by a cluster of whatever account and mode.
CreateAgain(n) ==
  /\ life[n] = "gone" /\ lives < MaxLives /\ lives' = lives + 1
  /\ \E x \in Accounts : identity' = [identity EXCEPT ![n] = x]
  /\ \E m \in Modes : mode' = [mode EXCEPT ![n] = m]
  /\ life' = [life EXCEPT ![n] = "live"]
  /\ vpc' = [vpc EXCEPT ![n] = NoVPC] /\ network' = [network EXCEPT ![n] = FALSE]
  /\ UNCHANGED <<pool, client, sns, att, strays, aw, late, faults, foreign>>

CacheExpires(n) ==
  Expire(n) /\ UNCHANGED <<att, strays, life, mode, vpc, network, aw, late, bounds>>
-----------------------------------------------------------------------------
Work == \/ DescribeSubnets \/ DescribeToAttach \/ CreateAttachment \/ Publish
        \/ DescribeToDetach \/ DeleteAttachment \/ Detached
Take(n) == Register(n) \/ Unregister(n) \/ UnregisterWithoutVPC(n)
Panic == At("panic") /\ ProcessEnds
Provision(n) == NetworkReady(n) \/ \E v \in VPCs : VPCReady(n, v)

Next ==
  \/ Work \/ Fail \/ ProcessEnds
  \/ \E n \in Names : Take(n) \/ Provision(n) \/ RequestDeletion(n) \/ CreateAgain(n) \/ CacheExpires(n)
  \/ \E a \in IDs : EC2Moves(a) \/ OthersMove(a) \/ \E v \in VPCs : AttachStray(v, a)

\* Requests are taken in turn, also again when a resync brings them back; a
\* process that ended is started again; CAPA and EC2 do their part. Others owe
\* nothing, and the cache needs no expiry.
Spec ==
  /\ Init /\ [][Next]_attVars /\ WF_attVars(Work) /\ WF_attVars(Panic)
  /\ \A n \in Names : SF_attVars(Take(n)) /\ WF_attVars(Provision(n))
  /\ \A a \in IDs : WF_attVars(EC2Moves(a))

-----------------------------------------------------------------------------
(* Properties                                                              *)

\* Every call is made in the account of the cluster the request is for, also when
\* its name was another's within the lifetime of a cached client (main.go): in
\* another account there would be nothing to see and nothing to delete.
CallsInOwnAccount ==
  aw.pc \notin {"idle", "panic"} =>
    \A c \in client : c.name = aw.n /\ CalledIn(c) = identity[aw.n]

\* A VPC that no cluster has any more is attached only by what others did or by a
\* call that landed late: before its cluster went every attachment listed was
\* deleted, or the removal failed and was tried again (detachTransitGateway).
ReleasedMeansDetached ==
  \A v \in VPCs :
    (\A n \in Names : life[n] # "gone" => vpc[n] # v) => InForce(v) \subseteq strays

\* Register gets no attachment and no error, and the process ends, only with an
\* attachment that the operator did not make, or made in a call it had given up.
PanicsAreForeign == [][~At("panic") /\ aw'.pc = "panic" => strays # {}]_attVars

\* A live cluster's VPC is attached in the end, also after an attachment was
\* rejected or deleted by others: EC2 forgets it, and then a new one is made.
AttachedInTheEnd == \A n \in Names : life[n] = "live" ~> life[n] # "live" \/ InForce(vpc[n]) # {}

\* A cluster whose deletion was requested is released in the end, although what
\* EC2 lists and will not delete again makes the removal fail for a while.
ReleasedInTheEnd == \A n \in Names : life[n] = "deleting" ~> life[n] = "gone"

Zones == {"a", "b"}
SubnetLists ==
  UNION {{[i \in 1..k |-> [id |-> i, az |-> z[i], isPublic |-> p[i]]] :
            z \in [1..k -> Zones], p \in [1..k -> BOOLEAN]} : k \in 0..4}
FirstOf(s, eligible) ==
  {i \in eligible : \A j \in eligible : s[j].az = s[i].az => i <= j}
Ordered(q) == \A i, j \in DOMAIN q : i < j => q[i] < q[j]
RightChoice ==
  \A s \in SubnetLists :
    LET default == AttachmentSubnets(<<>>, s)
        tagged == AttachmentSubnets(s, <<>>)
    IN  /\ ToSet(default) = FirstOf(s, {i \in DOMAIN s : ~s[i].isPublic}) /\ Ordered(default)
        /\ ToSet(tagged) = FirstOf(s, DOMAIN s) /\ Ordered(tagged)

\* The subnets an attachment is made with are the first private one of each zone
\* that has one, in the order of the AWSCluster, whatever subnets it has; of
\* tagged subnets, the first of each zone.
SubnetsRight == At("Create") => RightChoice
=============================================================================
