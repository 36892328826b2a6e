--------------------------- MODULE AttachmentsProofs ---------------------------
(***************************************************************************)
(* For any names, accounts, VPCs and bounds: calls are made in the account *)
(* of the cluster they are for, what the operator attached it detaches,    *)
(* and it does not attach a VPC twice. First what each step does to one    *)
(* piece of state, then the parts of AttInv, one lemma each.               *)
(***************************************************************************)
EXTENDS AttachmentsInv, TLAPS, FiniteSetTheorems, SequenceTheorems, WellFoundedInduction

USE ClientsAssumption, AttachmentsAssumption

-----------------------------------------------------------------------------
(* The clients.                                                            *)

LEMMA AtMostOne == ASSUME NEW S, S = {} \/ \E x \in S : S = {x} PROVE Cardinality(S) <= 1
<1>1. CASE S = {}
  BY <1>1, FS_EmptySet
<1>2. ASSUME NEW x \in S, S = {x} PROVE Cardinality(S) <= 1
  <2>1. Cardinality({x}) = 1
    BY FS_Singleton
  <2> QED
    BY <1>2, <2>1
<1> QED
  BY <1>1, <1>2

LEMMA BoundFields ==
  ASSUME NEW c \in Client, identity \in [Names -> Accounts]
  PROVE  /\ Bound(c) \in Client /\ Bound(c).name = c.name /\ Bound(c).account = CalledIn(c)
         /\ CalledIn(c) \in Accounts
  BY DEF Client, Bound, CalledIn, GetAWSClusterRoleIdentity

\* A call is made through the one client the worker has, or through none.
LEMMA CallEffect ==
  ASSUME TypeOK, ClientInv, Call
  PROVE  /\ UNCHANGED <<identity, pool, sns>> /\ client' \subseteq Client
         /\ client' = {} \/ \E c \in client' : client' = {c}
         /\ \A d \in client' : \E c \in client : d.name = c.name /\ d.account = CalledIn(c)
<1>1. identity \in [Names -> Accounts] /\ client \subseteq Client
  BY DEF TypeOK, ClientsTypeOK
<1>2. client' = {Bound(c) : c \in client} /\ UNCHANGED <<identity, pool, sns>>
  BY DEF Call
<1>3. client' = {} \/ \E c \in client' : client' = {c}
  BY <1>2 DEF ClientInv
<1> QED
  BY <1>1, <1>2, <1>3, BoundFields

LEMMA GetClientEffect ==
  ASSUME TypeOK, PoolInv, NEW n \in Names, GetClient(n)
  PROVE  /\ client' = {NewEC2Client(n)} /\ PoolInv' /\ UNCHANGED <<identity, sns>>
         /\ pool' \in [Names -> SUBSET Client]
<1>1. pool \in [Names -> SUBSET Client] /\ pool[n] \subseteq {NewEC2Client(n)}
  BY DEF TypeOK, ClientsTypeOK, PoolInv
<1>2. NewEC2Client(n) \in Client
  BY DEF NewEC2Client, Client
<1>3. pool' = [pool EXCEPT ![n] = {NewEC2Client(n)}] /\ client' = {NewEC2Client(n)} /\ UNCHANGED <<identity, sns>>
  BY <1>1 DEF GetClient
<1>4. PoolInv'
  BY <1>1, <1>3 DEF PoolInv, NewEC2Client
<1> QED
  BY <1>1, <1>2, <1>3, <1>4

\* In the working state every call goes to the account of the cluster's VPC.
LEMMA OwnAccount ==
  ASSUME TypeOK, ClientInv, Working, NEW c \in client
  PROVE  /\ c.name = aw.n /\ CalledIn(c) = identity[aw.n] /\ CalledIn(c) = VPCAccount[vpc[aw.n]]
  BY DEF TypeOK, ClientsTypeOK, ClientInv, CalledIn, GetAWSClusterRoleIdentity

-----------------------------------------------------------------------------
(* The worker.                                                             *)

Stages == {"idle", "Subnets", "Attach", "Create", "Publish", "Detach", "Delete", "panic"}
Workers == [pc: Stages, n: Names, found: SUBSET IDs]

LEMMA GotoFields ==
  ASSUME TypeOK, NEW stage, Goto(stage)
  PROVE  /\ aw'.pc = stage /\ aw'.n = aw.n /\ aw'.found = aw.found
         /\ stage \in Stages => aw' \in Workers
  BY DEF TypeOK, Goto, Stages, Workers

LEMMA IdleFields == ASSUME aw' = Idle PROVE aw'.pc = "idle" /\ aw' \in Workers
  BY DEF Idle, Workers, Stages

LEMMA FoundFields ==
  ASSUME TypeOK, NEW f \in SUBSET IDs
  PROVE  /\ aw' = [aw EXCEPT !.pc = "Delete", !.found = f]
              => aw'.pc = "Delete" /\ aw'.n = aw.n /\ aw'.found = f /\ aw' \in Workers
         /\ aw' = [aw EXCEPT !.found = f]
              => aw'.pc = aw.pc /\ aw'.n = aw.n /\ aw'.found = f /\ aw' \in Workers
  BY DEF TypeOK, Workers, Stages

-----------------------------------------------------------------------------
(* The attachments.                                                        *)

LEMMA AttachesEffect ==
  ASSUME TypeOK, NEW v \in VPCs, NEW a \in IDs, Attaches(v, a)
  PROVE  /\ att' \in [IDs -> Attachment] /\ att'[a] \in [state: {"pendingAcceptance", "available"}, vpc: {v}]
         /\ InForce(v) = {} /\ att[a].state = "none" /\ a \notin aw.found
         /\ \A b \in IDs \ {a} : att'[b] = att[b]
  BY DEF Attaches, TypeOK, Attachment, States, NoAttachment

LEMMA MovesEffect ==
  ASSUME TypeOK, NEW a \in IDs, NEW from \in States, NEW to \in States \cup {"none"}, Moves(a, from, to)
  PROVE  /\ att' \in [IDs -> Attachment] /\ att[a].state = from /\ att'[a].state = to
         /\ to # "none" => att'[a].vpc = att[a].vpc
         /\ strays' = IF to = "none" THEN strays \ {a} ELSE strays
         /\ \A b \in IDs \ {a} : att'[b] = att[b]
<1>1. att \in [IDs -> Attachment] /\ att[a].state = from /\ att[a] \in Attachment
  BY DEF TypeOK, Moves
<1>2. att[a] \in [state: States, vpc: VPCs]
  BY <1>1 DEF Attachment, NoAttachment, States
<1>3. att' = [att EXCEPT ![a] = IF to = "none" THEN NoAttachment ELSE [att[a] EXCEPT !.state = to]]
      /\ strays' = IF to = "none" THEN strays \ {a} ELSE strays
  BY <1>1 DEF Moves
<1>4. to # "none" => /\ [att[a] EXCEPT !.state = to] \in [state: States, vpc: VPCs]
                     /\ [att[a] EXCEPT !.state = to].state = to
                     /\ [att[a] EXCEPT !.state = to].vpc = att[a].vpc
  BY <1>2
<1>5. att' \in [IDs -> Attachment]
  BY <1>1, <1>3, <1>4 DEF Attachment
<1> QED
  BY <1>1, <1>3, <1>4, <1>5 DEF NoAttachment

LEMMA DeletedEffect ==
  ASSUME TypeOK, NEW a \in IDs, att[a].state \in {"pendingAcceptance", "available", "deleting"},
         att' = [att EXCEPT ![a].state = "deleting"]
  PROVE  /\ att' \in [IDs -> Attachment] /\ att'[a].state = "deleting" /\ att'[a].vpc = att[a].vpc
         /\ \A b \in IDs \ {a} : att'[b] = att[b]
<1>1. att \in [IDs -> Attachment] /\ att[a] \in [state: States, vpc: VPCs]
  BY DEF TypeOK, Attachment, NoAttachment, States
<1>2. att' = [att EXCEPT ![a] = [att[a] EXCEPT !.state = "deleting"]]
      /\ [att[a] EXCEPT !.state = "deleting"] \in [state: States, vpc: VPCs]
      /\ [att[a] EXCEPT !.state = "deleting"].state = "deleting"
      /\ [att[a] EXCEPT !.state = "deleting"].vpc = att[a].vpc
  BY <1>1 DEF States
<1> QED
  BY <1>1, <1>2 DEF Attachment

-----------------------------------------------------------------------------
(* The steps, and where the worker's calls lead.                           *)

LEMMA AttSteps ==
  ASSUME [Next]_attVars
  PROVE  \/ \E n \in Names : Register(n) \/ Unregister(n) \/ UnregisterWithoutVPC(n)
         \/ DescribeSubnets \/ DescribeToAttach \/ CreateAttachment \/ Publish
         \/ DescribeToDetach \/ DeleteAttachment \/ Detached \/ Fail \/ ProcessEnds
         \/ \E a \in IDs : EC2Moves(a) \/ OthersMove(a) \/ \E v \in VPCs : AttachStray(v, a)
         \/ \E n \in Names : \/ NetworkReady(n) \/ RequestDeletion(n) \/ CreateAgain(n) \/ CacheExpires(n)
                             \/ \E v \in VPCs : VPCReady(n, v)
         \/ UNCHANGED attVars
  BY DEF Next, Work, Take, Provision

LEMMA TakeMove ==
  ASSUME NEW n \in Names, Register(n) \/ Unregister(n)
  PROVE  /\ aw.pc = "idle" /\ aw'.pc \in {"Subnets", "Detach"} /\ aw'.n = n /\ aw' \in Workers
         /\ life[n] # "gone" /\ vpc[n] # NoVPC /\ GetClient(n)
         /\ UNCHANGED <<att, strays, life, mode, vpc, network, late, bounds>>
  BY DEF Register, Unregister, At, Workers, Stages

LEMMA SubnetsMove ==
  ASSUME TypeOK, DescribeSubnets
  PROVE  /\ aw.pc = "Subnets" /\ aw' \in Workers
         /\ aw'.pc = "idle" \/ (aw'.pc = "Attach" /\ aw'.n = aw.n)
  BY GotoFields, IdleFields DEF DescribeSubnets, At, Stages

LEMMA AttachMove ==
  ASSUME TypeOK, DescribeToAttach
  PROVE  /\ aw.pc = "Attach" /\ aw' \in Workers
         /\ \/ aw'.pc = "idle"
            \/ aw'.pc \in {"Create", "Publish", "panic"} /\ aw'.n = aw.n
         /\ aw'.pc = "Create" => Described(aw.n) = {}
         /\ aw'.pc = "panic" => Cardinality(Described(aw.n)) > 1
<1> DEFINE found == Described(aw.n)
           one == CHOOSE a \in found : TRUE
           next == IF found = {} THEN "Create"
                   ELSE IF mode[aw.n] = "GiantSwarmManaged" THEN "idle"
                   ELSE IF Cardinality(found) > 1 THEN "panic"
                   ELSE IF att[one].state = "pendingAcceptance" THEN "Publish" ELSE "idle"
<1>1. aw.pc = "Attach" /\ IF next = "idle" THEN aw' = Idle ELSE Goto(next)
  BY DEF DescribeToAttach, At
<1>2. /\ next \in {"Create", "Publish", "panic", "idle"}
      /\ next = "Create" => found = {}
      /\ next = "panic" => Cardinality(found) > 1
  OBVIOUS
<1> HIDE DEF next
<1>3. CASE next = "idle"
  BY <1>1, <1>3, IdleFields
<1>4. CASE next # "idle"
  BY <1>1, <1>2, <1>4, GotoFields DEF Stages
<1> QED
  BY <1>1, <1>2, <1>3, <1>4

LEMMA CreateMove ==
  ASSUME TypeOK, CreateAttachment
  PROVE  /\ aw.pc = "Create" /\ aw' \in Workers
         /\ aw'.pc = "idle" \/ (aw'.pc = "Publish" /\ aw'.n = aw.n)
         /\ UNCHANGED att \/ \E a \in IDs : Attaches(vpc[aw.n], a)
  BY GotoFields, IdleFields DEF CreateAttachment, At, Stages

LEMMA DetachMove ==
  ASSUME TypeOK, DescribeToDetach
  PROVE  /\ aw.pc = "Detach" /\ aw'.pc = "Delete" /\ aw'.n = aw.n /\ aw'.found = Described(aw.n)
         /\ aw' \in Workers
<1>1. Described(aw.n) \in SUBSET IDs
  BY DEF Described
<1> QED
  BY <1>1, FoundFields DEF DescribeToDetach, At

LEMMA DeleteMove ==
  ASSUME TypeOK, DeleteAttachment
  PROVE  /\ aw.pc = "Delete" /\ aw' \in Workers
         /\ \/ aw'.pc = "idle" /\ UNCHANGED att
            \/ \E a \in aw.found :
                 /\ att[a].state \in {"pendingAcceptance", "available", "deleting"}
                 /\ att' = [att EXCEPT ![a].state = "deleting"]
                 /\ aw'.pc = "Delete" /\ aw'.n = aw.n /\ aw'.found = aw.found \ {a}
<1>1. aw.pc = "Delete"
  BY DEF DeleteAttachment, At
<1>2. PICK a \in aw.found :
        \/ /\ att[a].state \in {"pendingAcceptance", "available", "deleting"}
           /\ att' = [att EXCEPT ![a].state = "deleting"]
           /\ aw' = [aw EXCEPT !.found = @ \ {a}]
        \/ aw' = Idle /\ UNCHANGED att
  BY DEF DeleteAttachment
<1>3. CASE aw' = [aw EXCEPT !.found = @ \ {a}]
  <2>1. aw.found \ {a} \in SUBSET IDs /\ aw' = [aw EXCEPT !.found = aw.found \ {a}]
    BY <1>3 DEF TypeOK
  <2>2. aw'.pc = aw.pc /\ aw'.n = aw.n /\ aw'.found = aw.found \ {a} /\ aw' \in Workers
    BY <2>1, FoundFields
  <2> QED
    BY <1>1, <1>2, <2>2, IdleFields
<1> QED
  BY <1>1, <1>2, <1>3, IdleFields

LEMMA LeaveMove ==
  ASSUME Publish \/ Detached \/ Fail \/ ProcessEnds
  PROVE  aw'.pc = "idle" /\ aw' \in Workers
  BY IdleFields DEF Publish, Detached, Fail, ProcessEnds

-----------------------------------------------------------------------------
(* Whose role a client has assumed.                                        *)

LEMMA PoolStep == ASSUME TypeOK, PoolInv, [Next]_attVars PROVE PoolInv' /\ pool' \in [Names -> SUBSET Client]
<1>1. pool \in [Names -> SUBSET Client]
  BY DEF TypeOK, ClientsTypeOK
<1>2. ASSUME NEW n \in Names, Register(n) \/ Unregister(n) PROVE PoolInv' /\ pool' \in [Names -> SUBSET Client]
  BY <1>2, TakeMove, GetClientEffect
<1>3. CASE UNCHANGED pool
  BY <1>1, <1>3 DEF PoolInv
<1>4. ASSUME NEW n \in Names, CacheExpires(n) PROVE PoolInv' /\ pool' \in [Names -> SUBSET Client]
  BY <1>1, <1>4 DEF CacheExpires, Expire, PoolInv
<1>5. CASE ProcessEnds
  BY <1>5 DEF ProcessEnds, ClientsRestart, PoolInv
<1>6. CASE DescribeSubnets \/ DescribeToAttach \/ CreateAttachment \/ DescribeToDetach \/ DeleteAttachment
  BY <1>3, <1>6 DEF DescribeSubnets, DescribeToAttach, CreateAttachment, DescribeToDetach, DeleteAttachment, Call
<1>7. CASE Publish \/ Detached \/ Fail \/ UNCHANGED attVars
  BY <1>3, <1>7 DEF Publish, PublishSNSMessage, Detached, Fail, attVars, clientVars
<1>8. ASSUME NEW n \in Names,
             \/ UnregisterWithoutVPC(n) \/ NetworkReady(n) \/ RequestDeletion(n) \/ CreateAgain(n)
             \/ \E v \in VPCs : VPCReady(n, v)
      PROVE  UNCHANGED pool
  BY <1>8 DEF UnregisterWithoutVPC, NetworkReady, RequestDeletion, CreateAgain, VPCReady, clientVars
<1>9. ASSUME NEW a \in IDs, EC2Moves(a) \/ OthersMove(a) \/ \E v \in VPCs : AttachStray(v, a)
      PROVE  UNCHANGED pool
  BY <1>9 DEF EC2Moves, OthersMove, Moves, AttachStray, clientVars
<1> QED
  BY <1>2, <1>3, <1>4, <1>5, <1>6, <1>7, <1>8, <1>9, AttSteps

\* A call the worker makes binds its client to the account of its cluster.
LEMMA CallKeepsClient ==
  ASSUME TypeOK, ClientInv, Call, Working, UNCHANGED <<life, vpc>>,
         aw'.pc = "idle" \/ aw'.n = aw.n
  PROVE  ClientInv' /\ client' \subseteq Client /\ UNCHANGED <<identity, sns>>
<1>1. /\ UNCHANGED <<identity, pool, sns>> /\ client' \subseteq Client
      /\ client' = {} \/ \E c \in client' : client' = {c}
      /\ \A d \in client' : \E c \in client : d.name = c.name /\ d.account = CalledIn(c)
  BY CallEffect
<1>2. \A d \in client' : d.name = aw.n /\ d.account = identity[aw.n]
  BY <1>1, OwnAccount
<1> QED
  BY <1>1, <1>2 DEF ClientInv, Working

LEMMA ClientStep ==
  ASSUME TypeOK, PoolInv, ClientInv, [Next]_attVars
  PROVE  ClientInv' /\ client' \subseteq Client /\ sns' \in BOOLEAN /\ identity' \in [Names -> Accounts]
<1>1. /\ identity \in [Names -> Accounts] /\ client \subseteq Client /\ sns \in BOOLEAN /\ aw.n \in Names
      /\ life \in [Names -> {"live", "deleting", "gone"}] /\ vpc \in [Names -> VPCs \cup {NoVPC}]
  BY DEF TypeOK, ClientsTypeOK
<1> DEFINE Goal == ClientInv' /\ client' \subseteq Client /\ sns' \in BOOLEAN /\ identity' \in [Names -> Accounts]
<1>2. ASSUME NEW n \in Names, Register(n) \/ Unregister(n) PROVE Goal
  <2>1. /\ client' = {NewEC2Client(n)} /\ UNCHANGED <<identity, sns, life, vpc>>
        /\ aw'.n = n /\ life[n] # "gone" /\ vpc[n] # NoVPC
    BY <1>2, TakeMove, GetClientEffect
  <2>2. NewEC2Client(n) \in Client /\ NewEC2Client(n).name = n /\ NewEC2Client(n).account = NoAccount
    BY DEF NewEC2Client, Client
  <2> QED
    BY <1>1, <2>1, <2>2 DEF ClientInv
<1>3. CASE DescribeSubnets \/ DescribeToAttach \/ CreateAttachment \/ DescribeToDetach \/ DeleteAttachment
  <2>1. Call /\ UNCHANGED <<life, vpc>>
    BY <1>3 DEF DescribeSubnets, DescribeToAttach, CreateAttachment, DescribeToDetach, DeleteAttachment
  <2>2. Working /\ (aw'.pc = "idle" \/ aw'.n = aw.n)
    BY <1>3, SubnetsMove, AttachMove, CreateMove, DetachMove, DeleteMove DEF Working
  <2> QED
    BY <1>1, <2>1, <2>2, CallKeepsClient
<1>4. ASSUME aw'.pc = "idle", client' = client \/ client' = {}, sns' \in BOOLEAN, UNCHANGED <<identity, vpc>>
      PROVE  Goal
  BY <1>1, <1>4 DEF ClientInv, Working
<1>5. CASE Publish \/ Detached \/ Fail \/ ProcessEnds
  <2>1. /\ client' = client \/ client' = {}
        /\ sns' \in BOOLEAN /\ UNCHANGED <<identity, vpc>>
    BY <1>1, <1>5 DEF Publish, PublishSNSMessage, Detached, Fail, ProcessEnds, ClientsRestart, clientVars
  <2> QED
    BY <1>4, <1>5, <2>1, LeaveMove
<1>6. ASSUME UNCHANGED <<identity, client, sns, aw, vpc>>,
             \A n \in Names : life[n] # "gone" /\ Working => life'[n] # "gone"
      PROVE  Goal
  BY <1>1, <1>6 DEF ClientInv, Working
<1>7. ASSUME NEW a \in IDs, EC2Moves(a) \/ OthersMove(a) \/ \E v \in VPCs : AttachStray(v, a) PROVE Goal
  BY <1>6, <1>7 DEF EC2Moves, OthersMove, Moves, AttachStray, clientVars
<1>8. ASSUME NEW n \in Names, NetworkReady(n) \/ RequestDeletion(n) \/ CacheExpires(n) PROVE Goal
  BY <1>1, <1>6, <1>8 DEF NetworkReady, RequestDeletion, CacheExpires, Expire, clientVars
<1>9. ASSUME NEW n \in Names, UnregisterWithoutVPC(n) PROVE Goal
  BY <1>1, <1>6, <1>9 DEF UnregisterWithoutVPC, clientVars, At, Working
<1>10. ASSUME NEW n \in Names, NEW v \in VPCs, VPCReady(n, v) PROVE Goal
  <2>1. UNCHANGED <<identity, client, sns, aw, life>> /\ vpc' = [vpc EXCEPT ![n] = v]
        /\ VPCAccount[v] = identity[n] /\ v # NoVPC
    BY <1>10 DEF VPCReady, clientVars
  <2> QED
    BY <1>1, <2>1 DEF ClientInv, Working
<1>11. ASSUME NEW n \in Names, CreateAgain(n) PROVE Goal
  <2>1. /\ UNCHANGED <<client, sns, aw>> /\ vpc' = [vpc EXCEPT ![n] = NoVPC] /\ life[n] = "gone"
        /\ life' = [life EXCEPT ![n] = "live"]
    BY <1>11 DEF CreateAgain
  <2>2. PICK x \in Accounts : identity' = [identity EXCEPT ![n] = x]
    BY <1>11 DEF CreateAgain
  <2>3. Working => aw.n # n
    BY <2>1 DEF ClientInv
  <2>4. \A m \in Names \ {n} : identity'[m] = identity[m] /\ vpc'[m] = vpc[m] /\ life'[m] = life[m]
    BY <1>1, <2>1, <2>2
  <2>5. vpc'[n] = NoVPC /\ identity' \in [Names -> Accounts]
    BY <1>1, <2>1, <2>2
  <2> QED
    BY <1>1, <2>1, <2>3, <2>4, <2>5 DEF ClientInv, Working
<1>12. CASE UNCHANGED attVars
  BY <1>6, <1>12 DEF attVars, clientVars
<1> QED
  BY <1>2, <1>3, <1>5, <1>7, <1>8, <1>9, <1>10, <1>11, <1>12, AttSteps

-----------------------------------------------------------------------------
(* What becomes of the attachments.                                        *)

\* Nothing is listed or in force that was not before.
Shrinks ==
  /\ \A b \in IDs : Listed(b)' => Listed(b) /\ att'[b].vpc = att[b].vpc /\ (b \in strays => b \in strays')
  /\ \A v \in VPCs : InForce(v)' \subseteq InForce(v)
  /\ strays' \subseteq strays
  /\ (\A b \in strays : Listed(b)) => \A b \in strays' : Listed(b)'

LEMMA UntouchedShrinks == ASSUME UNCHANGED <<att, strays>> PROVE Shrinks
  BY DEF Shrinks, Listed, InForce

LEMMA MovesShrink ==
  ASSUME TypeOK, NEW a \in IDs, NEW from \in States, NEW to \in States \cup {"none"}, Moves(a, from, to),
         to \in {"pendingAcceptance", "available"} => from = "pendingAcceptance"
  PROVE  Shrinks /\ att' \in [IDs -> Attachment]
<1>1. /\ att' \in [IDs -> Attachment] /\ att[a].state = from /\ att'[a].state = to
      /\ to # "none" => att'[a].vpc = att[a].vpc
      /\ strays' = IF to = "none" THEN strays \ {a} ELSE strays
      /\ \A b \in IDs \ {a} : att'[b] = att[b]
  BY MovesEffect
<1>2. from # "none" /\ strays \subseteq IDs
  BY DEF States, TypeOK
<1>3. \A v \in VPCs : InForce(v)' \subseteq InForce(v)
  BY <1>1 DEF InForce
<1>4. \A b \in IDs : Listed(b)' => Listed(b) /\ att'[b].vpc = att[b].vpc /\ (b \in strays => b \in strays')
  BY <1>1, <1>2 DEF Listed
<1>5. (\A b \in strays : Listed(b)) => \A b \in strays' : Listed(b)'
  BY <1>1, <1>2 DEF Listed
<1> QED
  BY <1>1, <1>3, <1>4, <1>5 DEF Shrinks

LEMMA DeletionShrinks ==
  ASSUME TypeOK, NEW a \in IDs, att[a].state \in {"pendingAcceptance", "available", "deleting"},
         att' = [att EXCEPT ![a].state = "deleting"], UNCHANGED strays
  PROVE  Shrinks /\ att' \in [IDs -> Attachment] /\ \A v \in VPCs : a \notin InForce(v)'
<1>1. /\ att' \in [IDs -> Attachment] /\ att'[a].state = "deleting" /\ att'[a].vpc = att[a].vpc
      /\ \A b \in IDs \ {a} : att'[b] = att[b]
  BY DeletedEffect
<1>2. strays \subseteq IDs
  BY DEF TypeOK
<1> QED
  BY <1>1, <1>2 DEF Shrinks, Listed, InForce

LEMMA AttEffect ==
  ASSUME TypeOK, ClientInv, [Next]_attVars
  PROVE  /\ att' \in [IDs -> Attachment] /\ strays' \subseteq IDs
         /\ \/ Shrinks
            \/ CreateAttachment /\ UNCHANGED strays /\ \E a \in IDs : Attaches(vpc[aw.n], a)
            \/ \E v \in VPCs, a \in IDs : AttachStray(v, a)
<1> DEFINE Goal == /\ att' \in [IDs -> Attachment] /\ strays' \subseteq IDs
                   /\ \/ Shrinks
                      \/ CreateAttachment /\ UNCHANGED strays /\ \E a \in IDs : Attaches(vpc[aw.n], a)
                      \/ \E v \in VPCs, a \in IDs : AttachStray(v, a)
<1>1. att \in [IDs -> Attachment] /\ strays \subseteq IDs /\ aw.found \subseteq IDs
  BY DEF TypeOK
<1>2. UNCHANGED <<att, strays>> => Goal
  BY <1>1, UntouchedShrinks
<1>3. ASSUME NEW n \in Names,
             \/ Register(n) \/ Unregister(n) \/ UnregisterWithoutVPC(n) \/ NetworkReady(n)
             \/ RequestDeletion(n) \/ CreateAgain(n) \/ CacheExpires(n) \/ \E v \in VPCs : VPCReady(n, v)
      PROVE  Goal
  BY <1>2, <1>3 DEF Register, Unregister, UnregisterWithoutVPC, NetworkReady, RequestDeletion, CreateAgain,
                    CacheExpires, VPCReady
<1>4. CASE \/ DescribeSubnets \/ DescribeToAttach \/ Publish \/ DescribeToDetach \/ Detached \/ Fail
           \/ ProcessEnds \/ UNCHANGED attVars
  BY <1>2, <1>4 DEF DescribeSubnets, DescribeToAttach, Publish, DescribeToDetach, Detached, Fail, ProcessEnds, attVars
<1>5. CASE CreateAttachment
  <2>1. UNCHANGED strays /\ (UNCHANGED att \/ \E a \in IDs : Attaches(vpc[aw.n], a))
    BY <1>5, CreateMove DEF CreateAttachment
  <2>2. ASSUME NEW a \in IDs, Attaches(vpc[aw.n], a) PROVE att' \in [IDs -> Attachment]
    <3>1. vpc[aw.n] \in VPCs
      BY <1>5, CreateMove DEF ClientInv, Working, TypeOK
    <3> QED
      BY <2>2, <3>1, AttachesEffect
  <2> QED
    BY <1>1, <1>2, <1>5, <2>1, <2>2
<1>6. CASE DeleteAttachment
  BY <1>1, <1>2, <1>6, DeleteMove, DeletionShrinks DEF DeleteAttachment
<1>7. ASSUME NEW a \in IDs, EC2Moves(a) \/ OthersMove(a) PROVE Goal
  <2>1. \E from \in States, to \in States \cup {"none"} :
          Moves(a, from, to) /\ (to \in {"pendingAcceptance", "available"} => from = "pendingAcceptance")
    BY <1>7 DEF EC2Moves, OthersMove, States
  <2>2. strays' \subseteq IDs
    BY <1>1, <2>1 DEF Moves
  <2> QED
    BY <2>1, <2>2, MovesShrink
<1>8. ASSUME NEW a \in IDs, NEW v \in VPCs, AttachStray(v, a) PROVE Goal
  BY <1>1, <1>8, AttachesEffect DEF AttachStray
<1> QED
  BY <1>3, <1>4, <1>5, <1>6, <1>7, <1>8, AttSteps

\* A VPC keeps the cluster that has it until that is through with detaching it.
LEMMA OwnersKept ==
  ASSUME TypeOK, [Next]_attVars, ~Detached, NEW n \in Names, life[n] # "gone", vpc[n] # NoVPC
  PROVE  life'[n] # "gone" /\ vpc'[n] = vpc[n]
<1>1. life \in [Names -> {"live", "deleting", "gone"}] /\ vpc \in [Names -> VPCs \cup {NoVPC}]
  BY DEF TypeOK
<1>2. CASE UNCHANGED <<life, vpc>>
  BY <1>2
<1>3. ASSUME NEW m \in Names,
             \/ UnregisterWithoutVPC(m) \/ NetworkReady(m) \/ RequestDeletion(m) \/ CreateAgain(m)
             \/ CacheExpires(m) \/ \E v \in VPCs : VPCReady(m, v)
      PROVE  life'[n] # "gone" /\ vpc'[n] = vpc[n]
  BY <1>1, <1>3 DEF UnregisterWithoutVPC, NothingToDetach, NetworkReady, RequestDeletion, CreateAgain,
                    CacheExpires, VPCReady
<1>4. ASSUME NEW m \in Names, Register(m) \/ Unregister(m) PROVE UNCHANGED <<life, vpc>>
  BY <1>4 DEF Register, Unregister
<1>5. CASE \/ DescribeSubnets \/ DescribeToAttach \/ CreateAttachment \/ Publish \/ DescribeToDetach
           \/ DeleteAttachment \/ Fail \/ ProcessEnds \/ UNCHANGED attVars
  BY <1>2, <1>5 DEF DescribeSubnets, DescribeToAttach, CreateAttachment, Publish, DescribeToDetach,
                    DeleteAttachment, Fail, ProcessEnds, attVars
<1>6. ASSUME NEW a \in IDs, EC2Moves(a) \/ OthersMove(a) \/ \E v \in VPCs : AttachStray(v, a)
      PROVE  UNCHANGED <<life, vpc>>
  BY <1>6 DEF EC2Moves, OthersMove, Moves, AttachStray
<1> QED
  BY <1>2, <1>3, <1>4, <1>5, <1>6, AttSteps

\* What the worker has described is all there is of the VPC.
LEMMA DescribedIsListed ==
  ASSUME TypeOK, ClientInv, Working
  PROVE  Described(aw.n) = {a \in IDs : Listed(a) /\ att[a].vpc = vpc[aw.n]}
  BY OwnAccount DEF Described, Listed

\* Others leave the worker where it is.
LEMMA WorkerSteps ==
  ASSUME [Next]_attVars
  PROVE  \/ DescribeSubnets \/ DescribeToAttach \/ CreateAttachment \/ DescribeToDetach \/ DeleteAttachment
         \/ \E n \in Names : Register(n) \/ Unregister(n)
         \/ aw'.pc = "idle"
         \/ UNCHANGED aw
<1>1. CASE Publish \/ Detached \/ Fail \/ ProcessEnds
  BY <1>1, LeaveMove
<1>2. ASSUME NEW n \in Names,
             \/ UnregisterWithoutVPC(n) \/ NetworkReady(n) \/ RequestDeletion(n) \/ CreateAgain(n)
             \/ CacheExpires(n) \/ \E v \in VPCs : VPCReady(n, v)
      PROVE  UNCHANGED aw
  BY <1>2 DEF UnregisterWithoutVPC, NetworkReady, RequestDeletion, CreateAgain, CacheExpires, VPCReady
<1>3. ASSUME NEW a \in IDs, EC2Moves(a) \/ OthersMove(a) \/ \E v \in VPCs : AttachStray(v, a)
      PROVE  UNCHANGED aw
  BY <1>3 DEF EC2Moves, OthersMove, Moves, AttachStray
<1>4. CASE UNCHANGED attVars
  BY <1>4 DEF attVars
<1> QED
  BY <1>1, <1>2, <1>3, <1>4, AttSteps

\* While the worker is at it, its cluster keeps the VPC, and only its own steps move it.
LEMMA WorkerStays ==
  ASSUME TypeOK, ClientInv, [Next]_attVars, Working, aw'.pc # "idle"
  PROVE  aw'.n = aw.n /\ vpc'[aw.n] = vpc[aw.n]
<1>1. ~Detached /\ aw.n \in Names
  BY LeaveMove DEF TypeOK
<1>2. vpc'[aw.n] = vpc[aw.n]
  BY <1>1, OwnersKept DEF ClientInv
<1>3. aw'.n = aw.n
  BY WorkerSteps, SubnetsMove, AttachMove, CreateMove, DetachMove, DeleteMove, TakeMove DEF Working
<1> QED
  BY <1>2, <1>3

\* A new attachment of v: what it adds.
LEMMA NewAttachment ==
  ASSUME TypeOK, NEW v \in VPCs, NEW a \in IDs, Attaches(v, a)
  PROVE  /\ ~Listed(a) /\ Listed(a)' /\ att'[a].vpc = v /\ InForce(v) = {} /\ InForce(v)' = {a}
         /\ \A b \in IDs \ {a} : Listed(b)' = Listed(b) /\ att'[b].vpc = att[b].vpc
         /\ \A w \in VPCs \ {v} : InForce(w)' = InForce(w)
<1>1. /\ att'[a] \in [state: {"pendingAcceptance", "available"}, vpc: {v}]
      /\ InForce(v) = {} /\ att[a].state = "none"
      /\ \A b \in IDs \ {a} : att'[b] = att[b]
  BY AttachesEffect
<1>2. att'[a].state \in {"pendingAcceptance", "available"} /\ att'[a].vpc = v
  BY <1>1
<1>3. ~Listed(a) /\ Listed(a)' /\ \A b \in IDs \ {a} : Listed(b)' = Listed(b) /\ att'[b].vpc = att[b].vpc
  BY <1>1, <1>2 DEF Listed
<1>4. InForce(v)' = {a}
  BY <1>1, <1>2 DEF InForce
<1>5. \A w \in VPCs \ {v} : InForce(w)' = InForce(w)
  BY <1>1, <1>2 DEF InForce
<1> QED
  BY <1>1, <1>2, <1>3, <1>4, <1>5

-----------------------------------------------------------------------------
(* Which attachments there can be of a VPC.                                *)

LEMMA OwnStep == ASSUME TypeOK, ClientInv, OwnInv, [Next]_attVars PROVE OwnInv'
<1>1. strays \subseteq IDs /\ strays' \subseteq IDs /\ (At("Create") => Working)
  BY AttEffect DEF TypeOK, At, Working
\* The attachment about to be made is the first that is nobody else's.
<1>2. aw'.pc = "Create" => /\ aw'.n = aw.n /\ vpc'[aw.n] = vpc[aw.n]
                           /\ \/ At("Create")
                              \/ /\ \A a \in IDs : Listed(a) => att[a].vpc # vpc[aw.n]
                                 /\ UNCHANGED <<att, strays>>
  <2> SUFFICES ASSUME aw'.pc = "Create"
               PROVE  /\ aw'.n = aw.n /\ vpc'[aw.n] = vpc[aw.n]
                      /\ \/ At("Create")
                         \/ /\ \A a \in IDs : Listed(a) => att[a].vpc # vpc[aw.n]
                            /\ UNCHANGED <<att, strays>>
    OBVIOUS
  <2>1. CASE DescribeToAttach
    <3>1. Working /\ Described(aw.n) = {}
      BY <2>1, AttachMove DEF Working
    <3> QED
      BY <2>1, <3>1, DescribedIsListed, WorkerStays DEF DescribeToAttach
  <2>2. CASE At("Create")
    BY <1>1, <2>2, WorkerStays
  <2>3. DescribeToAttach \/ UNCHANGED aw
    BY WorkerSteps, SubnetsMove, AttachMove, CreateMove, DetachMove, DeleteMove, TakeMove
  <2> QED
    BY <2>1, <2>2, <2>3 DEF At
<1>3. CASE Shrinks
  <2>1. \A a \in IDs : Own(a)' => Own(a) /\ att'[a].vpc = att[a].vpc
    BY <1>3 DEF Shrinks, Own
  <2>2. \A a \in strays' : Listed(a)'
    BY <1>3 DEF Shrinks, OwnInv
  <2>3. aw'.pc = "Create" => \A a \in IDs : Own(a)' => att'[a].vpc # vpc'[aw'.n]
    BY <1>2, <2>1 DEF OwnInv, Own, At
  <2> QED
    BY <2>1, <2>2, <2>3 DEF OwnInv, At
<1>4. CASE CreateAttachment /\ UNCHANGED strays /\ \E a \in IDs : Attaches(vpc[aw.n], a)
  <2>1. PICK a \in IDs, v \in VPCs : v = vpc[aw.n] /\ Attaches(v, a)
    BY <1>4, CreateMove DEF ClientInv, Working, TypeOK
  <2>2. /\ ~Listed(a) /\ Listed(a)' /\ att'[a].vpc = v
        /\ \A b \in IDs \ {a} : Listed(b)' = Listed(b) /\ att'[b].vpc = att[b].vpc
    BY <2>1, NewAttachment
  <2>3. aw'.pc # "Create" /\ At("Create")
    BY <1>4, CreateMove DEF At
  <2>4. \A b \in IDs \ {a} : Own(b)' = Own(b) /\ (Own(b) => att[b].vpc # v)
    BY <1>4, <2>1, <2>2, <2>3 DEF Own, OwnInv
  <2>5. \A b \in strays' : Listed(b)'
    BY <1>1, <1>4, <2>2 DEF OwnInv
  <2> QED
    BY <2>2, <2>3, <2>4, <2>5 DEF OwnInv, At
<1>5. ASSUME NEW v \in VPCs, NEW a \in IDs, AttachStray(v, a) PROVE OwnInv'
  <2>1. Attaches(v, a) /\ strays' = strays \cup {a} /\ UNCHANGED <<aw, vpc>>
    BY <1>5 DEF AttachStray
  <2>2. /\ ~Listed(a) /\ Listed(a)' /\ att'[a].vpc = v
        /\ \A b \in IDs \ {a} : Listed(b)' = Listed(b) /\ att'[b].vpc = att[b].vpc
    BY <2>1, NewAttachment
  <2>3. ~Own(a)' /\ \A b \in IDs \ {a} : Own(b)' = Own(b)
    BY <2>1, <2>2 DEF Own
  <2>4. \A b \in strays' : Listed(b)'
    BY <1>1, <2>1, <2>2 DEF OwnInv
  <2> QED
    BY <2>1, <2>2, <2>3, <2>4 DEF OwnInv, At
<1> QED
  BY <1>3, <1>4, <1>5, AttEffect

LEMMA DetachStep == ASSUME TypeOK, ClientInv, DetachInv, [Next]_attVars PROVE DetachInv'
<1> SUFFICES ASSUME aw'.pc = "Delete" PROVE InForce(vpc[aw.n])' \subseteq strays' \cup aw'.found
  BY DEF DetachInv, At
<1>1. CASE DescribeToDetach
  <2>1. Working /\ aw'.found = Described(aw.n) /\ aw'.n = aw.n /\ UNCHANGED <<att, strays, vpc>>
    BY <1>1, DetachMove DEF DescribeToDetach, Working
  <2>2. InForce(vpc[aw.n]) \subseteq Described(aw.n)
    BY <2>1, DescribedIsListed DEF InForce, Listed
  <2> QED
    BY <2>1, <2>2 DEF InForce
<1>2. CASE DeleteAttachment
  <2>1. PICK a \in aw.found :
          /\ att[a].state \in {"pendingAcceptance", "available", "deleting"}
          /\ att' = [att EXCEPT ![a].state = "deleting"]
          /\ aw.pc = "Delete" /\ aw'.n = aw.n /\ aw'.found = aw.found \ {a}
    BY <1>2, DeleteMove
  <2>2. a \in IDs /\ UNCHANGED <<strays, vpc>>
    BY <1>2 DEF DeleteAttachment, TypeOK
  <2>3. PICK v \in VPCs : v = vpc[aw.n]
    BY <2>1 DEF ClientInv, Working, TypeOK
  <2>4. InForce(v)' \subseteq InForce(v) /\ a \notin InForce(v)'
    BY <2>1, <2>2, DeletionShrinks DEF Shrinks
  <2>5. InForce(v) \subseteq strays \cup aw.found
    BY <2>1, <2>3 DEF DetachInv, At
  <2>6. InForce(v)' \subseteq strays' \cup aw'.found
    BY <2>1, <2>2, <2>4, <2>5
  <2>7. v = vpc'[aw'.n]
    BY <2>1, <2>2, <2>3
  <2> QED
    BY <2>6, <2>7
<1>3. CASE UNCHANGED aw /\ ~CreateAttachment
  <2>1. Working /\ At("Delete")
    BY <1>3 DEF At, Working
  <2>2. PICK v \in VPCs : v = vpc[aw.n]
    BY <2>1 DEF ClientInv, TypeOK
  <2>3. v = vpc'[aw'.n] /\ aw'.found = aw.found
    BY <1>3, <2>1, <2>2, WorkerStays
  <2>4. InForce(v) \subseteq strays \cup aw.found
    BY <2>1, <2>2 DEF DetachInv
  <2>5. CASE Shrinks
    <3>1. \A b \in IDs : b \in InForce(v)' => b \in InForce(v) /\ Listed(b)'
      BY <2>5 DEF Shrinks, InForce, Listed
    <3>2. \A b \in InForce(v)' : b \in IDs
      BY DEF InForce
    <3>3. InForce(v)' \subseteq strays' \cup aw'.found
      BY <2>3, <2>4, <2>5, <3>1, <3>2 DEF Shrinks
    <3> QED
      BY <2>3, <3>3
  <2>6. ASSUME NEW w \in VPCs, NEW a \in IDs, AttachStray(w, a)
        PROVE  InForce(v)' \subseteq strays' \cup aw'.found
    <3>1. Attaches(w, a) /\ strays' = strays \cup {a}
      BY <2>6 DEF AttachStray
    <3> QED
      BY <2>3, <2>4, <3>1, NewAttachment
  <2> QED
    BY <1>3, <2>3, <2>5, <2>6, AttEffect
<1>4. CASE DescribeSubnets \/ DescribeToAttach \/ CreateAttachment
  BY <1>4, SubnetsMove, AttachMove, CreateMove
<1>5. ASSUME NEW n \in Names, Register(n) \/ Unregister(n) PROVE FALSE
  BY <1>5, TakeMove
<1> QED
  BY <1>1, <1>2, <1>3, <1>4, <1>5, WorkerSteps

LEMMA ReleasedStep ==
  ASSUME TypeOK, ClientInv, DetachInv, ReleasedMeansDetached, [Next]_attVars PROVE ReleasedMeansDetached'
<1> SUFFICES ASSUME NEW v \in VPCs, \A n \in Names : life'[n] # "gone" => vpc'[n] # v
             PROVE  InForce(v)' \subseteq strays'
  BY DEF ReleasedMeansDetached
\* If the last cluster that had the VPC goes, it goes with the finalizers.
<1>1. InForce(v) \subseteq strays
  <2>1. CASE \A n \in Names : life[n] # "gone" => vpc[n] # v
    BY <2>1 DEF ReleasedMeansDetached
  <2>2. ASSUME NEW n \in Names, life[n] # "gone", vpc[n] = v PROVE InForce(v) \subseteq strays
    <3>1. Detached
      BY <2>2, OwnersKept
    <3>2. At("Delete") /\ aw.found = {} /\ life' = [life EXCEPT ![aw.n] = "gone"] /\ UNCHANGED vpc
      BY <3>1 DEF Detached
    <3>3. n = aw.n
      BY <2>2, <3>2 DEF TypeOK
    <3> QED
      BY <2>2, <3>2, <3>3 DEF DetachInv
  <2> QED
    BY <2>1, <2>2
<1>2. CASE Shrinks
  <2>1. \A b \in InForce(v)' : b \in IDs /\ Listed(b)'
    BY DEF InForce, Listed
  <2> QED
    BY <1>1, <1>2, <2>1 DEF Shrinks
\* What the operator attaches belongs to a cluster that is there.
<1>3. CASE CreateAttachment /\ \E a \in IDs : Attaches(vpc[aw.n], a)
  <2>1. Working /\ UNCHANGED <<life, vpc, strays>>
    BY <1>3, CreateMove DEF CreateAttachment, Working
  <2>2. PICK a \in IDs, w \in VPCs : w = vpc[aw.n] /\ Attaches(w, a)
    BY <1>3, <2>1 DEF ClientInv, TypeOK
  <2>3. w # v
    BY <2>1, <2>2 DEF ClientInv, TypeOK
  <2> QED
    BY <1>1, <2>1, <2>2, <2>3, NewAttachment
<1>4. ASSUME NEW w \in VPCs, NEW a \in IDs, AttachStray(w, a) PROVE InForce(v)' \subseteq strays'
  <2>1. Attaches(w, a) /\ strays' = strays \cup {a}
    BY <1>4 DEF AttachStray
  <2> QED
    BY <1>1, <2>1, NewAttachment
<1> QED
  BY <1>2, <1>3, <1>4, AttEffect

-----------------------------------------------------------------------------
(* The theorems.                                                           *)

LEMMA TypeStep == ASSUME TypeOK, PoolInv, ClientInv, [Next]_attVars PROVE TypeOK'
<1>1. PoolInv' /\ ClientInv'
  BY PoolStep, ClientStep
<1>2. ClientsTypeOK'
  <2>1. /\ pool' \in [Names -> SUBSET Client] /\ client' \subseteq Client /\ sns' \in BOOLEAN
        /\ identity' \in [Names -> Accounts]
    BY PoolStep, ClientStep
  <2>2. \A n \in Names : Cardinality(pool'[n]) <= 1
    <3>1. \A n \in Names : pool'[n] = {} \/ pool'[n] = {NewEC2Client(n)}
      BY <1>1 DEF PoolInv, NewEC2Client
    <3> QED
      BY <3>1, AtMostOne
  <2>3. Cardinality(client') <= 1
    BY <1>1, AtMostOne DEF ClientInv
  <2> QED
    BY <2>1, <2>2, <2>3 DEF ClientsTypeOK
<1>3. att' \in [IDs -> Attachment] /\ strays' \subseteq IDs
  BY AttEffect
<1>4. aw' \in Workers
  <2>1. aw \in Workers
    BY DEF TypeOK, Workers, Stages
  <2>2. CASE Publish \/ Detached \/ Fail \/ ProcessEnds
    BY <2>2, LeaveMove
  <2>3. CASE DescribeSubnets \/ DescribeToAttach \/ CreateAttachment \/ DescribeToDetach \/ DeleteAttachment
    BY <2>3, SubnetsMove, AttachMove, CreateMove, DetachMove, DeleteMove
  <2>4. ASSUME NEW n \in Names, Register(n) \/ Unregister(n) PROVE aw' \in Workers
    BY <2>4, TakeMove
  <2>5. CASE UNCHANGED aw
    BY <2>1, <2>5
  <2>6. ASSUME NEW n \in Names,
               \/ UnregisterWithoutVPC(n) \/ NetworkReady(n) \/ RequestDeletion(n) \/ CreateAgain(n)
               \/ CacheExpires(n) \/ \E v \in VPCs : VPCReady(n, v)
        PROVE  UNCHANGED aw
    BY <2>6 DEF UnregisterWithoutVPC, NetworkReady, RequestDeletion, CreateAgain, CacheExpires, VPCReady
  <2>7. ASSUME NEW a \in IDs, EC2Moves(a) \/ OthersMove(a) \/ \E v \in VPCs : AttachStray(v, a)
        PROVE  UNCHANGED aw
    BY <2>7 DEF EC2Moves, OthersMove, Moves, AttachStray
  <2>8. CASE UNCHANGED attVars
    BY <2>8, <2>5 DEF attVars
  <2> QED
    BY <2>2, <2>3, <2>4, <2>5, <2>6, <2>7, <2>8, AttSteps
<1> DEFINE RestTyped ==
      /\ life' \in [Names -> {"live", "deleting", "gone"}] /\ mode' \in [Names -> Modes]
      /\ vpc' \in [Names -> VPCs \cup {NoVPC}] /\ network' \in [Names -> BOOLEAN]
      /\ late' \subseteq VPCs /\ faults' \in Nat /\ foreign' \in Nat /\ lives' \in Nat
<1>5. RestTyped
  <2> USE DEF TypeOK, bounds
  <2>1. ASSUME NEW n \in Names, Register(n) \/ Unregister(n) \/ UnregisterWithoutVPC(n) PROVE RestTyped
    BY <2>1 DEF Register, Unregister, UnregisterWithoutVPC
  <2>2. CASE DescribeSubnets \/ DescribeToAttach \/ CreateAttachment \/ DescribeToDetach \/ DeleteAttachment
    BY <2>2 DEF DescribeSubnets, DescribeToAttach, CreateAttachment, DescribeToDetach, DeleteAttachment
  <2>3. CASE Publish \/ Detached \/ ProcessEnds \/ UNCHANGED attVars
    BY <2>3 DEF Publish, Detached, ProcessEnds, attVars
  <2>4. CASE Fail
    <3>1. At("Create") => vpc[aw.n] \in VPCs
      BY DEF At, ClientInv, Working
    <3>2. late' \subseteq VPCs
      BY <2>4, <3>1 DEF Fail
    <3>3. UNCHANGED <<life, mode, vpc, network, foreign, lives>> /\ faults' = faults + 1
      BY <2>4 DEF Fail
    <3> QED
      BY <3>2, <3>3
  <2>5. ASSUME NEW n \in Names, NetworkReady(n) \/ RequestDeletion(n) \/ CacheExpires(n) PROVE RestTyped
    BY <2>5 DEF NetworkReady, RequestDeletion, CacheExpires
  <2>6. ASSUME NEW n \in Names, CreateAgain(n) PROVE RestTyped
    BY <2>6 DEF CreateAgain
  <2>7. ASSUME NEW n \in Names, NEW v \in VPCs, VPCReady(n, v) PROVE RestTyped
    BY <2>7 DEF VPCReady
  <2>8. ASSUME NEW a \in IDs, EC2Moves(a) \/ OthersMove(a) PROVE RestTyped
    BY <2>8 DEF EC2Moves, OthersMove, Moves
  <2>9. ASSUME NEW a \in IDs, NEW v \in VPCs, AttachStray(v, a) PROVE RestTyped
    BY <2>9 DEF AttachStray
  <2> HIDE DEF TypeOK, bounds, RestTyped
  <2> QED
    BY <2>1, <2>2, <2>3, <2>4, <2>5, <2>6, <2>7, <2>8, <2>9, AttSteps
<1> QED
  BY <1>2, <1>3, <1>4, <1>5 DEF TypeOK, Workers, Stages

LEMMA AttInvInit == Init => AttInv
<1> SUFFICES ASSUME Init PROVE AttInv
  OBVIOUS
<1>1. /\ att = [a \in IDs |-> NoAttachment] /\ strays = {} /\ aw = Idle /\ client = {}
      /\ pool = [n \in Names |-> {}] /\ vpc = [n \in Names |-> NoVPC] /\ sns = FALSE
      /\ identity \in [Names -> Accounts] /\ life = [n \in Names |-> "live"]
  BY DEF Init, ClientsInit
<1>2. aw.pc = "idle" /\ aw \in Workers
  BY <1>1 DEF Idle, Workers, Stages
<1>3. \A a \in IDs : ~Listed(a)
  BY <1>1 DEF Listed, NoAttachment
<1>4. ClientsTypeOK
  <2>1. Cardinality({}) <= 1
    BY AtMostOne
  <2> QED
    BY <1>1, <2>1 DEF ClientsTypeOK
<1>5. TypeOK
  BY <1>1, <1>2, <1>4 DEF TypeOK, Workers, Stages, Init, Attachment
<1>6. PoolInv /\ ClientInv /\ OwnInv /\ DetachInv
  BY <1>1, <1>2, <1>3 DEF PoolInv, ClientInv, Working, OwnInv, Own, DetachInv, At
<1>7. ReleasedMeansDetached
  BY <1>3 DEF ReleasedMeansDetached, InForce, Listed
<1> QED
  BY <1>5, <1>6, <1>7 DEF AttInv

LEMMA AttInvStep == AttInv /\ [Next]_attVars => AttInv'
  BY TypeStep, PoolStep, ClientStep, OwnStep, DetachStep, ReleasedStep DEF AttInv

\* The clients, the attachments and the worker's view of them fit together in every
\* state: the invariant the following theorems rest on.
THEOREM AttInvariant == Spec => []AttInv
  BY AttInvInit, AttInvStep, PTL DEF Spec

\* Every variable keeps its type, and there is one cached client per name at most.
THEOREM TypeCorrect == Spec => []TypeOK
<1>1. AttInv => TypeOK
  BY DEF AttInv
<1> QED
  BY <1>1, AttInvariant, PTL

\* Calls are made in the account of the cluster they are for: a cached client never
\* carries the account of a cluster that had the name before (main.go caches it,
\* NewTGWClient copies it, EC2Client.client binds the copy).
THEOREM CallsStayInAccount == Spec => []CallsInOwnAccount
<1>1. AttInv => CallsInOwnAccount
  BY OwnAccount DEF AttInv, CallsInOwnAccount, Working
<1> QED
  BY <1>1, AttInvariant, PTL

\* When the last cluster that has a VPC goes, what is left of its attachments was not
\* the operator's doing, or landed after the operator had given the call up
\* (detachTransitGateway before the finalizers).
THEOREM DetachedBeforeReleased == Spec => []ReleasedMeansDetached
<1>1. AttInv => ReleasedMeansDetached
  BY DEF AttInv
<1> QED
  BY <1>1, AttInvariant, PTL

\* The process ends on the attachment it did not get (attachTransitGateway) only with
\* attachments about that the operator did not make: its own are one to a VPC, counting
\* those that EC2 still lists after they were deleted.
THEOREM PanicNeedsStray == Spec => PanicsAreForeign
<1>1. ASSUME AttInv, [Next]_attVars
      PROVE  [~At("panic") /\ aw'.pc = "panic" => strays # {}]_attVars
  <2> SUFFICES ASSUME ~At("panic"), aw'.pc = "panic", strays = {} PROVE FALSE
    OBVIOUS
  <2>1. TypeOK /\ ClientInv /\ OwnInv
    BY <1>1 DEF AttInv
  <2>2. DescribeToAttach
    BY <1>1, <2>1, WorkerSteps, SubnetsMove, CreateMove, DetachMove, DeleteMove, TakeMove DEF At
  <2>3. Working /\ Cardinality(Described(aw.n)) > 1
    BY <2>1, <2>2, AttachMove DEF Working
  <2>4. Described(aw.n) = {a \in IDs : Listed(a) /\ att[a].vpc = vpc[aw.n]}
    BY <2>1, <2>3, DescribedIsListed
  <2>5. \A a, b \in Described(aw.n) : a = b
    BY <2>1, <2>4 DEF OwnInv, Own
  <2>6. Cardinality(Described(aw.n)) <= 1 /\ Cardinality(Described(aw.n)) \in Nat
    <3>1. CASE Described(aw.n) = {}
      BY <3>1, FS_EmptySet
    <3>2. ASSUME NEW a \in Described(aw.n)
          PROVE  Cardinality(Described(aw.n)) <= 1 /\ Cardinality(Described(aw.n)) \in Nat
      <4>1. Described(aw.n) = {a}
        BY <2>5, <3>2
      <4>2. Cardinality({a}) = 1
        BY FS_Singleton
      <4> QED
        BY <4>1, <4>2
    <3> QED
      BY <3>1, <3>2
  <2> QED
    BY <2>3, <2>6
<1> QED
  BY <1>1, AttInvariant, PTL DEF Spec, PanicsAreForeign

-----------------------------------------------------------------------------
(* The subnets. What the loop collects is proved for a list of any length,  *)
(* by the least number for which it would not hold.                         *)

LEMMA LeastNumber ==
  ASSUME NEW S, S \subseteq Nat, S # {}
  PROVE  \E n \in S : \A m \in S : n <= m
<1> DEFINE R == OpToRel(<, Nat)
<1>1. IsWellFoundedOn(R, Nat)
  BY NatLessThanWellFounded
<1>2. \A m, n \in Nat : m < n => <<m, n>> \in R
  BY DEF OpToRel
<1> HIDE DEF R
<1>3. PICK n \in S : \A m \in S : ~(<<m, n>> \in R)
  BY <1>1, WFMin
<1>4. \A m \in S : ~(m < n)
  BY <1>2, <1>3
<1> QED
  BY <1>4

\* A list can be gone through: the rounds are what their definition says.
LEMMA RoundsDefined ==
  ASSUME NEW S, NEW s \in Seq(S), NEW E
  PROVE  Rounds(s, E) = [i \in 0..Len(s) |->
           IF i = 0 THEN [result |-> <<>>, azMap |-> {}]
                    ELSE Visit(Rounds(s, E)[i - 1], s[i], i \in E)]
<1> DEFINE F(g, i) == IF i = 0 THEN [result |-> <<>>, azMap |-> {}]
                               ELSE Visit(g[i - 1], s[i], i \in E)
           Upto(n) == \E g : g = [i \in 0..n |-> F(g, i)]
           Beyond == {n \in Nat : ~Upto(n)}
<1>1. Beyond = {}
  <2> SUFFICES ASSUME Beyond # {} PROVE FALSE
    OBVIOUS
  <2>1. PICK n \in Beyond : \A m \in Beyond : n <= m
    <3> HIDE DEF Beyond
    <3>1. Beyond \subseteq Nat
      BY DEF Beyond
    <3> QED
      BY <3>1, LeastNumber
  <2>2. n # 0
    <3> DEFINE g == [i \in 0..0 |-> [result |-> <<>>, azMap |-> {}]]
    <3>1. g = [i \in 0..0 |-> F(g, i)]
      OBVIOUS
    <3>2. Upto(0)
      BY <3>1
    <3> QED
      BY <3>2
  <2>3. n \in Nat /\ n - 1 \in Nat /\ ~(n <= n - 1)
    BY <2>1, <2>2
  <2>4. PICK g : g = [i \in 0..(n - 1) |-> F(g, i)]
    BY <2>1, <2>3
  <2> DEFINE h == [i \in 0..n |-> IF i = n THEN F(g, i) ELSE g[i]]
  <2>5. ASSUME NEW i \in 0..n PROVE h[i] = F(h, i)
    <3>1. F(h, i) = F(g, i)
      BY <2>3
    <3> HIDE DEF F
    <3>2. CASE i # n
      <4>1. i \in 0..(n - 1)
        BY <2>3, <3>2
      <4> QED
        BY <2>4, <3>1, <3>2, <4>1
    <3> QED
      BY <3>1, <3>2
  <2>6. h = [i \in 0..n |-> F(h, i)]
    <3> HIDE DEF F
    <3> QED
      BY <2>5
  <2>7. Upto(n)
    <3> HIDE DEF F, h
    <3> QED
      BY <2>6
  <2> QED
    BY <2>1, <2>7
<1>2. Upto(Len(s))
  <2>1. Len(s) \in Nat
    OBVIOUS
  <2> QED
    BY <1>1, <2>1
<1>3. Rounds(s, E) = CHOOSE g : g = [i \in 0..Len(s) |-> F(g, i)]
  BY DEF Rounds
<1> QED
  BY <1>2, <1>3

\* One element more in an ordered list of places.
LEMMA PlaceAdded ==
  ASSUME NEW p \in Seq(Nat), NEW i \in Nat, Ordered(p), \A j \in ToSet(p) : j < i
  PROVE  Append(p, i) \in Seq(Nat) /\ Ordered(Append(p, i)) /\ ToSet(Append(p, i)) = ToSet(p) \cup {i}
<1> DEFINE q == Append(p, i)
           n == Len(p)
<1>1. n \in Nat /\ DOMAIN p = 1..n
  OBVIOUS
<1>2. q \in Seq(Nat) /\ DOMAIN q = 1..(n + 1) /\ q[n + 1] = i /\ \A k \in 1..n : q[k] = p[k]
  <2>1. q \in Seq(Nat) /\ Len(q) = n + 1
    BY AppendProperties
  <2>2. DOMAIN q = 1..(n + 1)
    <3> HIDE DEF q, n
    <3> QED
      BY <2>1
  <2>3. q[n + 1] = i /\ \A k \in 1..n : q[k] = p[k]
    BY AppendProperties
  <2> QED
    BY <2>1, <2>2, <2>3
<1> HIDE DEF q, n
<1>3. ASSUME NEW k \in 1..n PROVE p[k] < i
  <2>1. k \in DOMAIN p
    BY <1>1
  <2>2. p[k] \in ToSet(p)
    BY <2>1, Zenon DEF ToSet
  <2> QED
    BY <2>2
<1>4. 1..(n + 1) = (1..n) \cup {n + 1}
  BY <1>1
<1>5. Ordered(q)
  <2> SUFFICES ASSUME NEW a \in DOMAIN q, NEW b \in DOMAIN q, a < b
               PROVE  q[a] < q[b]
    BY DEF Ordered
  <2>1. a \in 1..n
    BY <1>1, <1>2
  <2>2. CASE b \in 1..n
    BY <1>1, <1>2, <2>1, <2>2 DEF Ordered
  <2>3. CASE b = n + 1
    <3>1. q[a] = p[a] /\ q[b] = i /\ p[a] < i
      BY <1>2, <1>3, <2>1, <2>3, Zenon
    <3> QED
      BY <3>1, Zenon
  <2> QED
    BY <1>2, <1>4, <2>2, <2>3
<1>6. ToSet(q) = {q[k] : k \in 1..(n + 1)} /\ ToSet(p) = {p[k] : k \in 1..n}
  BY <1>1, <1>2 DEF ToSet
<1>7. ToSet(q) = ToSet(p) \cup {i}
  <2>1. {q[k] : k \in 1..(n + 1)} = {q[k] : k \in 1..n} \cup {q[n + 1]}
    BY <1>4, Zenon
  <2>2. {q[k] : k \in 1..n} = {p[k] : k \in 1..n}
    BY <1>2, Zenon
  <2> QED
    BY <1>2, <1>6, <2>1, <2>2, Zenon
<1> QED
  BY <1>2, <1>5, <1>7 DEF q

\* q lists the IDs of the subnets at the places p.
Picks(s, p, q) ==
  /\ q \in Seq({s[j].id : j \in DOMAIN s}) /\ Len(q) = Len(p)
  /\ \A k \in 1..Len(p) : q[k] = s[p[k]].id

\* After i rounds the zones that are taken are those of the eligible subnets so far,
\* and the subnets that were collected are, in their order, the first ones of each.
Collected(s, E, i, acc) ==
  /\ acc.azMap = {s[j].az : j \in E \cap (1..i)}
  /\ \E p \in Seq(Nat) : /\ Ordered(p) /\ ToSet(p) = FirstOf(s, E \cap (1..i))
                         /\ Picks(s, p, acc.result)

LEMMA RoundCollects ==
  ASSUME NEW S, NEW s \in Seq(S), NEW E, NEW i \in 1..Len(s), NEW acc, Collected(s, E, i - 1, acc)
  PROVE  Collected(s, E, i, Visit(acc, s[i], i \in E))
<1> DEFINE before == E \cap (1..(i - 1))
           now == E \cap (1..i)
<1>1. PICK p \in Seq(Nat) : /\ Ordered(p) /\ ToSet(p) = FirstOf(s, before)
                            /\ Picks(s, p, acc.result)
  BY DEF Collected
<1>2. acc.azMap = {s[j].az : j \in before}
  BY DEF Collected
<1>3. /\ i \in Nat /\ before \subseteq Nat /\ \A j \in before : j < i
      /\ now = IF i \in E THEN before \cup {i} ELSE before
  OBVIOUS
<1> HIDE DEF before, now
<1>4. CASE i \in E /\ s[i].az \notin acc.azMap
  <2>1. Visit(acc, s[i], i \in E) = [result |-> Append(acc.result, s[i].id),
                                     azMap |-> acc.azMap \cup {s[i].az}]
    BY <1>4 DEF Visit
  <2>2. \A j \in before : s[j].az # s[i].az
    BY <1>2, <1>4
  <2>3. FirstOf(s, now) = FirstOf(s, before) \cup {i}
    <3>1. now = before \cup {i}
      BY <1>3, <1>4
    <3>2. \A j \in before : j \in Nat /\ j < i /\ j <= i /\ ~(i <= j)
      BY <1>3
    <3>3. \A j \in before : j \in FirstOf(s, now) <=> j \in FirstOf(s, before)
      BY <2>2, <3>1, <3>2 DEF FirstOf
    <3>4. i \in FirstOf(s, now)
      BY <1>3, <2>2, <3>1 DEF FirstOf
    <3> QED
      BY <3>1, <3>3, <3>4 DEF FirstOf
  <2>4. Append(p, i) \in Seq(Nat) /\ Ordered(Append(p, i)) /\ ToSet(Append(p, i)) = FirstOf(s, now)
    BY <1>1, <1>3, <2>3, PlaceAdded DEF FirstOf
  <2>5. Picks(s, Append(p, i), Append(acc.result, s[i].id))
    <3> DEFINE I == {s[j].id : j \in DOMAIN s}
               q == acc.result
    <3>1. /\ q \in Seq(I) /\ Len(q) = Len(p) /\ Len(p) \in Nat /\ s[i].id \in I
          /\ \A k \in 1..Len(p) : q[k] = s[p[k]].id
      BY <1>1 DEF Picks
    <3> HIDE DEF I, q
    <3>2. /\ Append(q, s[i].id) \in Seq(I) /\ Len(Append(q, s[i].id)) = Len(q) + 1
          /\ Append(q, s[i].id)[Len(q) + 1] = s[i].id
          /\ \A k \in 1..Len(q) : Append(q, s[i].id)[k] = q[k]
      BY <3>1
    <3>3. /\ Len(Append(p, i)) = Len(p) + 1 /\ Append(p, i)[Len(p) + 1] = i
          /\ \A k \in 1..Len(p) : Append(p, i)[k] = p[k]
      BY <1>3
    <3>4. \A n \in Nat : 1..(n + 1) = (1..n) \cup {n + 1}
      OBVIOUS
    <3>5. \A k \in 1..Len(p) : Append(q, s[i].id)[k] = s[Append(p, i)[k]].id
      BY <3>1, <3>2, <3>3
    <3>6. Append(q, s[i].id)[Len(p) + 1] = s[Append(p, i)[Len(p) + 1]].id
      BY <3>1, <3>2, <3>3
    <3>7. \A k \in 1..Len(Append(p, i)) : Append(q, s[i].id)[k] = s[Append(p, i)[k]].id
      <4>1. 1..Len(Append(p, i)) = (1..Len(p)) \cup {Len(p) + 1}
        BY <3>1, <3>3, <3>4, Zenon
      <4> QED
        BY <4>1, <3>5, <3>6, Zenon
    <3>8. Len(Append(q, s[i].id)) = Len(Append(p, i))
      BY <3>1, <3>2, <3>3
    <3> QED
      BY <3>2, <3>7, <3>8 DEF Picks, I, q
  <2>6. acc.azMap \cup {s[i].az} = {s[j].az : j \in now}
    BY <1>2, <1>3, <1>4
  <2>7. Collected(s, E, i, [result |-> Append(acc.result, s[i].id), azMap |-> acc.azMap \cup {s[i].az}])
    BY <2>4, <2>5, <2>6 DEF Collected, now
  <2> QED
    BY <2>1, <2>7
<1>5. CASE ~(i \in E /\ s[i].az \notin acc.azMap)
  <2>1. Visit(acc, s[i], i \in E) = acc
    BY <1>5 DEF Visit
  <2>2. i \in E => \E j \in before : s[j].az = s[i].az
    BY <1>2, <1>5
  <2>3. FirstOf(s, now) = FirstOf(s, before)
    <3>1. CASE i \notin E
      BY <1>3, <3>1
    <3>2. CASE i \in E
      <4>1. PICK j \in before : s[j].az = s[i].az
        BY <2>2, <3>2
      <4>2. now = before \cup {i} /\ j \in Nat /\ j < i /\ ~(i <= j)
        BY <1>3, <3>2
      <4>3. i \notin FirstOf(s, now)
        BY <4>1, <4>2 DEF FirstOf
      <4>4. \A k \in before : k \in Nat /\ k <= i
        BY <1>3
      <4>5. \A k \in before : k \in FirstOf(s, now) <=> k \in FirstOf(s, before)
        BY <4>2, <4>4 DEF FirstOf
      <4> QED
        BY <4>2, <4>3, <4>5 DEF FirstOf
    <3> QED
      BY <3>1, <3>2
  <2>4. {s[j].az : j \in now} = {s[j].az : j \in before}
    BY <1>3, <2>2
  <2> QED
    BY <1>1, <1>2, <2>1, <2>3, <2>4 DEF Collected, now
<1> QED
  BY <1>4, <1>5

LEMMA RoundsCollect ==
  ASSUME NEW S, NEW s \in Seq(S), NEW E
  PROVE  Collected(s, E, Len(s), Rounds(s, E)[Len(s)])
<1> DEFINE R == Rounds(s, E)
           Wrong == {i \in 0..Len(s) : ~Collected(s, E, i, R[i])}
<1>1. /\ \A i \in 1..Len(s) : R[i] = Visit(R[i - 1], s[i], i \in E)
      /\ R[0] = [result |-> <<>>, azMap |-> {}]
  <2>1. /\ Len(s) \in Nat /\ 0 \in 0..Len(s)
        /\ \A i \in 1..Len(s) : i \in 0..Len(s) /\ i # 0
    OBVIOUS
  <2> DEFINE F == [i \in 0..Len(s) |-> IF i = 0 THEN [result |-> <<>>, azMap |-> {}]
                                       ELSE Visit(R[i - 1], s[i], i \in E)]
  <2>2. R = F
    BY RoundsDefined
  <2>3. \A i \in 0..Len(s) : F[i] = IF i = 0 THEN [result |-> <<>>, azMap |-> {}]
                                    ELSE Visit(R[i - 1], s[i], i \in E)
    <3> HIDE DEF R
    <3> QED
      OBVIOUS
  <2> HIDE DEF R, F
  <2> QED
    BY <2>1, <2>2, <2>3
<1> HIDE DEF R
<1>2. Collected(s, E, 0, R[0])
  <2>1. 1..0 = {} /\ <<>> \in Seq(Nat)
    OBVIOUS
  <2>2. Ordered(<<>>) /\ ToSet(<<>>) = {} /\ FirstOf(s, {}) = {}
    BY DEF Ordered, ToSet, FirstOf
  <2>3. Picks(s, <<>>, <<>>)
    BY DEF Picks
  <2>4. R[0].azMap = {} /\ R[0].result = <<>> /\ E \cap (1..0) = {}
    BY <1>1, <2>1
  <2> QED
    BY <2>1, <2>2, <2>3, <2>4 DEF Collected
<1>3. Wrong = {}
  <2> SUFFICES ASSUME Wrong # {} PROVE FALSE
    OBVIOUS
  <2>1. PICK i \in Wrong : \A j \in Wrong : i <= j
    <3>1. Wrong \subseteq Nat
      OBVIOUS
    <3> HIDE DEF Wrong
    <3> QED
      BY <3>1, LeastNumber
  <2>2. i \in 1..Len(s) /\ i - 1 \in 0..Len(s) /\ ~(i <= i - 1)
    BY <1>2, <2>1
  <2>3. Collected(s, E, i - 1, R[i - 1])
    BY <2>1, <2>2
  <2>4. Collected(s, E, i, R[i])
    BY <1>1, <2>2, <2>3, RoundCollects
  <2> QED
    BY <2>1, <2>4
<1>4. Len(s) \in 0..Len(s)
  OBVIOUS
<1> QED
  BY <1>3, <1>4 DEF R

\* Of any list of subnets, tagged or not, and any that are eligible, what the loop
\* returns are the IDs of the first eligible one of each zone, in the list's order.
THEOREM FirstPerZoneRight ==
  ASSUME NEW S, NEW s \in Seq(S), NEW E \in SUBSET DOMAIN s
  PROVE  \E p \in Seq(Nat) : /\ Ordered(p) /\ ToSet(p) = FirstOf(s, E)
                             /\ Picks(s, p, FirstPerZone(s, E))
<1>1. E \cap (1..Len(s)) = E
  OBVIOUS
<1> QED
  BY <1>1, RoundsCollect DEF Collected, FirstPerZone

\* In the lists of the run the ID of a subnet is its place.
LEMMA PlacesAreIDs ==
  ASSUME NEW S, NEW s \in Seq(S), NEW E \in SUBSET DOMAIN s, \A i \in DOMAIN s : s[i].id = i
  PROVE  ToSet(FirstPerZone(s, E)) = FirstOf(s, E) /\ Ordered(FirstPerZone(s, E))
<1> DEFINE q == FirstPerZone(s, E)
<1>1. PICK p \in Seq(Nat) : Ordered(p) /\ ToSet(p) = FirstOf(s, E) /\ Picks(s, p, q)
  BY FirstPerZoneRight
<1> HIDE DEF q
<1>2. \A k \in 1..Len(p) : p[k] \in DOMAIN s
  <2>1. \A k \in 1..Len(p) : p[k] \in ToSet(p)
    BY DEF ToSet
  <2> QED
    BY <1>1, <2>1 DEF FirstOf
<1>3. /\ DOMAIN p = 1..Len(p) /\ DOMAIN q = 1..Len(p)
      /\ \A k \in 1..Len(p) : q[k] = p[k]
  <2>1. DOMAIN p = 1..Len(p)
    OBVIOUS
  <2>2. q \in Seq({s[j].id : j \in DOMAIN s}) /\ Len(q) = Len(p)
    BY <1>1 DEF Picks
  <2>3. DOMAIN q = 1..Len(p)
    BY <2>2
  <2>4. \A k \in 1..Len(p) : q[k] = s[p[k]].id
    BY <1>1 DEF Picks
  <2> QED
    BY <2>1, <2>3, <2>4, <1>2
<1> QED
  BY <1>1, <1>3 DEF ToSet, Ordered, q

\* A VPC is attached with the first private subnet of each zone, or the first tagged
\* one, in the order they are listed, whatever subnets there are.
THEOREM SubnetsAlwaysRight == Spec => []SubnetsRight
<1>1. RightChoice
  <2> SUFFICES ASSUME NEW s \in SubnetLists
               PROVE  /\ ToSet(AttachmentSubnets(<<>>, s)) = FirstOf(s, {i \in DOMAIN s : ~s[i].isPublic})
                      /\ Ordered(AttachmentSubnets(<<>>, s))
                      /\ ToSet(AttachmentSubnets(s, <<>>)) = FirstOf(s, DOMAIN s)
                      /\ Ordered(AttachmentSubnets(s, <<>>))
    BY DEF RightChoice
  <2> DEFINE Of(k) == {[i \in 1..k |-> [id |-> i, az |-> z[i], isPublic |-> v[i]]] :
                         z \in [1..k -> Zones], v \in [1..k -> BOOLEAN]}
  <2>0. PICK k \in 0..4 : s \in Of(k)
    BY DEF SubnetLists
  <2>1. PICK z \in [1..k -> Zones], v \in [1..k -> BOOLEAN] :
          s = [i \in 1..k |-> [id |-> i, az |-> z[i], isPublic |-> v[i]]]
    BY <2>0
  <2>2. s \in Seq({s[i] : i \in 1..k}) /\ DOMAIN s = 1..k /\ \A i \in DOMAIN s : s[i].id = i
    BY <2>1
  <2>3. \A E \in SUBSET DOMAIN s :
          ToSet(FirstPerZone(s, E)) = FirstOf(s, E) /\ Ordered(FirstPerZone(s, E))
    BY <2>2, PlacesAreIDs
  <2>4. AttachmentSubnets(<<>>, s) = FirstPerZone(s, Private(s)) /\ Private(s) \in SUBSET DOMAIN s
    BY DEF AttachmentSubnets, PrivateSubnetsByAZ, Private
  <2>5. AttachmentSubnets(s, <<>>) = FirstPerZone(s, DOMAIN s)
    <3>1. CASE s = <<>>
      <4>1. Private(s) = DOMAIN s
        BY <3>1 DEF Private
      <4> QED
        BY <3>1, <4>1 DEF AttachmentSubnets, PrivateSubnetsByAZ
    <3>2. CASE s # <<>>
      BY <3>2 DEF AttachmentSubnets
    <3> QED
      BY <3>1, <3>2
  <2> QED
    BY <2>3, <2>4, <2>5 DEF Private
<1> QED
  BY <1>1, PTL DEF SubnetsRight
=============================================================================
