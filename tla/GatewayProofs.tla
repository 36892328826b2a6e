------------------------------ MODULE GatewayProofs ------------------------------
(***************************************************************************)
(* Gateways are left behind only by failures, the management cluster's own *)
(* does not survive it, and who says to be ready is connected: for every   *)
(* number of clusters and gateways, every cache lag, and any failures and  *)
(* restarts.                                                               *)
(***************************************************************************)
EXTENDS GatewayInv, OperatorProofs, FiniteSetTheorems

USE StoreAssumption, NetworkAssumption

(* The versions of one object, as a set.                                    *)

LEMMA VersionsEnds ==
  ASSUME NEW R, NEW now \in R, NEW later \in Seq(R)
  PROVE  /\ now \in Versions(now, later) /\ Version(now, later, Len(later)) \in Versions(now, later)
         /\ Versions(now, later) \subseteq R
<1>1. Len(later) \in Nat
  OBVIOUS
<1>2. 0 \in 0..Len(later) /\ Len(later) \in 0..Len(later) /\ Version(now, later, 0) = now
  BY <1>1 DEF Version
<1>3. \A i \in 0..Len(later) : Version(now, later, i) \in R
  BY DEF Version
<1> QED
  BY <1>2, <1>3 DEF Versions

LEMMA VersionsMove ==
  ASSUME NEW R, NEW now \in R, NEW later \in Seq(R)
  PROVE  /\ \A r \in R : Versions(now, Append(later, r)) = Versions(now, later) \cup {r}
         /\ later # <<>> => Versions(Head(later), Tail(later)) \subseteq Versions(now, later)
         /\ Versions(now, <<>>) = {now}
<1>1. ASSUME NEW r \in R
      PROVE  Versions(now, Append(later, r)) = Versions(now, later) \cup {r}
  <2>1. /\ Len(later) \in Nat /\ Len(Append(later, r)) = Len(later) + 1
        /\ 0..(Len(later) + 1) = (0..Len(later)) \cup {Len(later) + 1}
        /\ Version(now, Append(later, r), Len(later) + 1) = r
        /\ \A i \in 0..Len(later) : Version(now, Append(later, r), i) = Version(now, later, i)
    BY VersionAppend
  <2> QED
    BY <2>1 DEF Versions
<1>2. ASSUME later # <<>>
      PROVE  Versions(Head(later), Tail(later)) \subseteq Versions(now, later)
  <2>1. \A i \in 0..Len(Tail(later)) :
          /\ i + 1 \in 0..Len(later)
          /\ Version(Head(later), Tail(later), i) = Version(now, later, i + 1)
    BY <1>2, VersionTail
  <2> QED
    BY <2>1 DEF Versions
<1>3. Versions(now, <<>>) = {now}
  <2>1. 0..Len(<<>>) = {0}
    OBVIOUS
  <2> QED
    BY <2>1 DEF Versions, Version
<1> QED
  BY <1>1, <1>2, <1>3

LEMMA FirstVersions ==
  ASSUME NEW now, NEW r
  PROVE  Versions(now, <<r>>) = {now, r}
<1>1. Len(<<r>>) = 1 /\ <<r>>[1] = r
  OBVIOUS
<1>2. 0..1 = {0, 1}
  OBVIOUS
<1>3. Version(now, <<r>>, 0) = now /\ Version(now, <<r>>, 1) = r
  BY <1>1 DEF Version
<1> QED
  BY <1>1, <1>2, <1>3 DEF Versions

-----------------------------------------------------------------------------
(* What a step does to the versions anybody may have read.                  *)

\* The ways in which the store changes: not at all, by a write, by a delivery, and
\* when a new process reads everything again.
ClusterMoves ==
  \/ UNCHANGED <<cluster, cached, feed>>
  \/ UNCHANGED cached /\ \E c \in Clusters : \E r : StoreCluster(c, r)
  \/ UNCHANGED cluster /\ \E c \in Clusters :
       /\ feed[c] # <<>> /\ cached' = [cached EXCEPT ![c] = Head(feed[c])]
       /\ feed' = [feed EXCEPT ![c] = Tail(@)]
  \/ UNCHANGED cluster /\ cached' = cluster /\ feed' = [c \in Clusters |-> <<>>]
AWSMoves ==
  \/ UNCHANGED <<awsCluster, cachedAWS, awsFeed>>
  \/ UNCHANGED cachedAWS /\ \E c \in Clusters : \E r : StoreAWS(c, r)
  \/ UNCHANGED awsCluster /\ \E c \in Clusters :
       /\ awsFeed[c] # <<>> /\ cachedAWS' = [cachedAWS EXCEPT ![c] = Head(awsFeed[c])]
       /\ awsFeed' = [awsFeed EXCEPT ![c] = Tail(@)]
  \/ UNCHANGED awsCluster /\ cachedAWS' = awsCluster /\ awsFeed' = [c \in Clusters |-> <<>>]

LEMMA NTStoreMoves == ASSUME TypeOK, NTStep PROVE ClusterMoves /\ AWSMoves
<1>1. nt.c \in Clusters
  BY DEF TypeOK, NTTypeOK
<1>2. CASE \/ NTInvalidMode \/ NTIDMissing \/ NTNoGateway \/ NTNotReady \/ NTAttach \/ NTNoVPC
           \/ NTPublish \/ NTAddToPrefixList \/ NTUnregister \/ NTRemoveFromPrefixList \/ NTDetach
           \/ NTDeleteGateway \/ \E t \in Gateways : NTFindGateway(t) \/ NTCreateGateway(t)
  BY <1>2 DEF NTInvalidMode, NTIDMissing, NTNoGateway, NTNotReady, NTAttach, NTNoVPC, NTPublish,
     NTAddToPrefixList, NTUnregister, NTRemoveFromPrefixList, NTDetach, NTDeleteGateway,
     NTFindGateway, NTCreateGateway, storeVars, storeButQueue, ClusterMoves, AWSMoves
<1>3. CASE NTModeNotSupported \/ NTSaveGateway \/ NTSavePrefixList
  BY <1>1, <1>3 DEF NTModeNotSupported, NTSaveGateway, NTSavePrefixList, storeButCluster,
     ClusterMoves, AWSMoves
<1>4. CASE NTAddFinalizer \/ NTUpdateStatus \/ NTRemoveFinalizer
  BY <1>1, <1>4 DEF NTAddFinalizer, NTUpdateStatus, NTRemoveFinalizer, StatusUpdated,
     ClusterMoves, AWSMoves
<1>5. CASE NTAddAWSFinalizer \/ NTRemoveAWSFinalizer
  BY <1>1, <1>5 DEF NTAddAWSFinalizer, NTRemoveAWSFinalizer, ClusterMoves, AWSMoves
<1> QED
  BY <1>2, <1>3, <1>4, <1>5 DEF NTStep

LEMMA SHStoreMoves == ASSUME TypeOK, SHStep PROVE ClusterMoves /\ AWSMoves
<1>1. sh.c \in Clusters
  BY DEF TypeOK, SHTypeOK
<1>2. CASE \/ SHShareTransitGateway \/ SHApplyGatewayShare \/ SHSharePrefixList
           \/ SHDeleteGatewayShare \/ SHDeletePrefixListShare
  BY <1>2 DEF SHShareTransitGateway, SHApplyGatewayShare, SHSharePrefixList, SHDeleteGatewayShare,
     SHDeletePrefixListShare, storeVars, ClusterMoves, AWSMoves
<1>3. CASE SHAddFinalizer \/ SHRemoveFinalizer
  BY <1>1, <1>3 DEF SHAddFinalizer, SHRemoveFinalizer, ClusterMoves, AWSMoves
<1>4. CASE SHAddAWSFinalizer \/ SHRemoveAWSFinalizer
  BY <1>1, <1>4 DEF SHAddAWSFinalizer, SHRemoveAWSFinalizer, ClusterMoves, AWSMoves
<1> QED
  BY <1>2, <1>3, <1>4 DEF SHStep

LEMMA StoreMoves == ASSUME TypeOK, [Next]_vars PROVE ClusterMoves /\ AWSMoves
<1>1. CASE NTWork \/ SHWork
  BY <1>1, NTStoreMoves, SHStoreMoves DEF NTWork, SHWork
<1>2. CASE Fault \/ UNCHANGED vars
  BY <1>2
  DEF Fault, NTFault, NTAWSReadFails, SHFault, SHAWSReadFails, vars, storeVars, ClusterMoves, AWSMoves
<1>3. CASE Restart
  BY <1>3 DEF Restart, Relist, ClusterMoves, AWSMoves
<1>4. ASSUME NEW c \in Clusters, NTTake(c) \/ SHTake(c) \/ Deliver(c)
      PROVE  ClusterMoves /\ AWSMoves
  BY <1>4 DEF NTTake, NTGet, StatusUpdated, SHTake, SHGet, Deliver, DeliverCluster, DeliverAWS,
     ClusterMoves, AWSMoves
<1>5. ASSUME NEW c \in Clusters, Provision(c) \/ User(c)
      PROVE  ClusterMoves /\ AWSMoves
  BY <1>5 DEF Provision, CreateAWSCluster, VPCReady, DeleteAWSCluster, RemoveInfrastructure,
     CollectAWSCluster, CollectCluster, User, DeleteCluster, ChangeMode, TogglePause,
     ClusterMoves, AWSMoves
<1>6. ASSUME NEW t \in Gateways, AWS(t)
      PROVE  ClusterMoves /\ AWSMoves
  BY <1>6 DEF AWS, storeVars, ClusterMoves, AWSMoves
<1> QED
  BY <1>1, <1>2, <1>3, <1>4, <1>5, <1>6 DEF Next

LEMMA SeenMoves ==
  ASSUME IInv, IInv', [Next]_vars, NEW c \in Clusters
  PROVE  /\ Seen(c)' \subseteq Seen(c) \cup {cluster'[c]}
         /\ SeenAWS(c)' \subseteq SeenAWS(c) \cup {awsCluster'[c]}
         /\ cluster[c] \in Seen(c) /\ cached[c] \in Seen(c) /\ Seen(c) \subseteq ClusterRec
         /\ awsCluster[c] \in SeenAWS(c) /\ cachedAWS[c] \in SeenAWS(c) /\ SeenAWS(c) \subseteq AWSRec
<1>1. TypeOK /\ TypeOK' /\ ClusterLine(cached[c], feed[c], cluster[c])
      /\ AWSLine(cachedAWS[c], awsFeed[c], awsCluster[c])
  BY DEF IInv, ClusterHistory, AWSHistory
<1>2. /\ cached[c] \in ClusterRec /\ feed[c] \in Seq(ClusterRec) /\ cluster'[c] \in ClusterRec
      /\ cachedAWS[c] \in AWSRec /\ awsFeed[c] \in Seq(AWSRec) /\ awsCluster'[c] \in AWSRec
      /\ cluster \in [Clusters -> ClusterRec] /\ awsCluster \in [Clusters -> AWSRec]
      /\ cached \in [Clusters -> ClusterRec] /\ cachedAWS \in [Clusters -> AWSRec]
      /\ feed \in [Clusters -> Seq(ClusterRec)] /\ awsFeed \in [Clusters -> Seq(AWSRec)]
  BY <1>1 DEF TypeOK, StoreTypeOK
<1>3. /\ cluster[c] \in Seen(c) /\ cached[c] \in Seen(c) /\ Seen(c) \subseteq ClusterRec
      /\ awsCluster[c] \in SeenAWS(c) /\ cachedAWS[c] \in SeenAWS(c) /\ SeenAWS(c) \subseteq AWSRec
  BY <1>1, <1>2, VersionsEnds DEF Seen, SeenAWS, ClusterLine, AWSLine
<1>4. Seen(c)' \subseteq Seen(c) \cup {cluster'[c]}
  <2>1. ClusterMoves
    BY <1>1, StoreMoves
  <2>2. CASE UNCHANGED <<cluster, cached, feed>>
    BY <2>2 DEF Seen
  <2>3. ASSUME NEW d \in Clusters, NEW r, StoreCluster(d, r), UNCHANGED cached
        PROVE  Seen(c)' \subseteq Seen(c) \cup {cluster'[c]}
    <3>1. /\ cached'[c] = cached[c]
          /\ feed'[c] = feed[c] \/ (r = cluster'[c] /\ feed'[c] = Append(feed[c], r))
      BY <1>2, <2>3 DEF StoreCluster
    <3>2. r \in ClusterRec => Versions(cached[c], Append(feed[c], r)) = Seen(c) \cup {r}
      BY <1>2, VersionsMove DEF Seen
    <3>3. Seen(c)' = Versions(cached'[c], feed'[c])
      BY DEF Seen
    <3> QED
      BY <1>2, <3>1, <3>2, <3>3 DEF Seen
  <2>4. ASSUME NEW d \in Clusters, feed[d] # <<>>, cached' = [cached EXCEPT ![d] = Head(feed[d])],
               feed' = [feed EXCEPT ![d] = Tail(@)]
        PROVE  Seen(c)' \subseteq Seen(c) \cup {cluster'[c]}
    <3>1. \/ cached'[c] = cached[c] /\ feed'[c] = feed[c]
          \/ feed[c] # <<>> /\ cached'[c] = Head(feed[c]) /\ feed'[c] = Tail(feed[c])
      BY <1>2, <2>4
    <3>2. feed[c] # <<>> => Versions(Head(feed[c]), Tail(feed[c])) \subseteq Seen(c)
      BY <1>2, VersionsMove DEF Seen
    <3>3. Seen(c)' = Versions(cached'[c], feed'[c])
      BY DEF Seen
    <3> QED
      BY <3>1, <3>2, <3>3 DEF Seen
  <2>5. CASE UNCHANGED cluster /\ cached' = cluster /\ feed' = [d \in Clusters |-> <<>>]
    <3>1. cached'[c] = cluster'[c] /\ feed'[c] = <<>>
      BY <2>5
    <3> QED
      BY <1>2, <3>1, VersionsMove DEF Seen
  <2> QED
    BY <2>1, <2>2, <2>3, <2>4, <2>5 DEF ClusterMoves
<1>5. SeenAWS(c)' \subseteq SeenAWS(c) \cup {awsCluster'[c]}
  <2>1. AWSMoves
    BY <1>1, StoreMoves
  <2>2. CASE UNCHANGED <<awsCluster, cachedAWS, awsFeed>>
    BY <2>2 DEF SeenAWS
  <2>3. ASSUME NEW d \in Clusters, NEW r, StoreAWS(d, r), UNCHANGED cachedAWS
        PROVE  SeenAWS(c)' \subseteq SeenAWS(c) \cup {awsCluster'[c]}
    <3>1. /\ cachedAWS'[c] = cachedAWS[c]
          /\ awsFeed'[c] = awsFeed[c] \/ (r = awsCluster'[c] /\ awsFeed'[c] = Append(awsFeed[c], r))
      BY <1>2, <2>3 DEF StoreAWS
    <3>2. r \in AWSRec => Versions(cachedAWS[c], Append(awsFeed[c], r)) = SeenAWS(c) \cup {r}
      BY <1>2, VersionsMove DEF SeenAWS
    <3>3. SeenAWS(c)' = Versions(cachedAWS'[c], awsFeed'[c])
      BY DEF SeenAWS
    <3> QED
      BY <1>2, <3>1, <3>2, <3>3 DEF SeenAWS
  <2>4. ASSUME NEW d \in Clusters, awsFeed[d] # <<>>,
               cachedAWS' = [cachedAWS EXCEPT ![d] = Head(awsFeed[d])],
               awsFeed' = [awsFeed EXCEPT ![d] = Tail(@)]
        PROVE  SeenAWS(c)' \subseteq SeenAWS(c) \cup {awsCluster'[c]}
    <3>1. \/ cachedAWS'[c] = cachedAWS[c] /\ awsFeed'[c] = awsFeed[c]
          \/ awsFeed[c] # <<>> /\ cachedAWS'[c] = Head(awsFeed[c]) /\ awsFeed'[c] = Tail(awsFeed[c])
      BY <1>2, <2>4
    <3>2. awsFeed[c] # <<>> => Versions(Head(awsFeed[c]), Tail(awsFeed[c])) \subseteq SeenAWS(c)
      BY <1>2, VersionsMove DEF SeenAWS
    <3>3. SeenAWS(c)' = Versions(cachedAWS'[c], awsFeed'[c])
      BY DEF SeenAWS
    <3> QED
      BY <3>1, <3>2, <3>3 DEF SeenAWS
  <2>5. CASE UNCHANGED awsCluster /\ cachedAWS' = awsCluster /\ awsFeed' = [d \in Clusters |-> <<>>]
    <3>1. cachedAWS'[c] = awsCluster'[c] /\ awsFeed'[c] = <<>>
      BY <2>5
    <3> QED
      BY <1>2, <3>1, VersionsMove DEF SeenAWS
  <2> QED
    BY <2>1, <2>2, <2>3, <2>4, <2>5 DEF AWSMoves
<1> QED
  BY <1>3, <1>4, <1>5
-----------------------------------------------------------------------------
(* The worker, reduced to what it has in hand and where it goes.            *)

NTWorkers == [pc: NTStages, c: Clusters, obj: ClusterRec, mode: Modes,
              gw: Gateways \cup {NoGateway}, up: BOOLEAN, vpc: BOOLEAN, again: BOOLEAN]
Onward == {<<"AddAWSFinalizer", "Register">>, <<"Attach", "AddToPrefixList">>, <<"Attach", "Publish">>,
           <<"AddToPrefixList", "SavePrefixList">>, <<"RemoveFromPrefixList", "Detach">>,
           <<"Detach", "DeleteGateway">>, <<"Detach", "RemoveAWSFinalizer">>,
           <<"DeleteGateway", "RemoveAWSFinalizer">>, <<"RemoveAWSFinalizer", "RemoveFinalizer">>}

Ends == nt'.pc = "idle"
GoesOn ==
  /\ <<nt.pc, nt'.pc>> \in Onward
  /\ nt'.c = nt.c /\ nt'.obj = nt.obj /\ nt'.gw = nt.gw /\ nt'.mode = nt.mode
  /\ nt.pc = "AddAWSFinalizer" =>
       /\ Exists(cachedAWS[nt.c])
       /\ \/ Protected(awsCluster'[nt.c])
          \/ Protected(cachedAWS[nt.c]) /\ awsCluster'[nt.c].fins = awsCluster[nt.c].fins
  /\ nt'.pc = "AddToPrefixList" =>
       /\ nt.mode = GSM /\ nt.gw \in Gateways
       /\ \/ attachment'[nt.gw][nt.c] \in {"pendingAcceptance", "available"}
          \/ attachment[nt.gw][nt.c] = "deleting"
  /\ nt'.pc = "Publish" =>
       nt.mode # GSM /\ nt.gw \in Gateways /\ attachment'[nt.gw][nt.c] = "pendingAcceptance"
  /\ nt'.pc = "SavePrefixList" => prefixList'[Cidr[nt.c]] = nt.c
  /\ nt.pc = "DeleteGateway" => nt.obj.tgw \in Gateways /\ gateway'[nt.obj.tgw] = "deleted"
  /\ nt.pc = "Detach" /\ nt'.pc = "RemoveAWSFinalizer" => ~(nt.mode = GSM /\ nt.c = MC)
  /\ nt.pc = "RemoveFromPrefixList" => nt'.vpc = nt.vpc
Protects ==
  /\ nt.pc = "AddFinalizer" /\ nt'.pc = "AddAWSFinalizer" /\ nt'.c = nt.c
  /\ nt'.obj.tgw = cluster[nt.c].tgw /\ nt'.obj.ready \in {nt.obj.ready, cluster[nt.c].ready}
  /\ nt'.obj.mode = cluster[nt.c].mode
Settles(t) ==
  /\ nt.pc = "Register" /\ nt'.pc = "SaveGateway" /\ nt'.c = nt.c /\ nt'.obj = nt.obj
  /\ nt'.mode = nt.obj.mode /\ nt'.gw = t /\ nt.obj.tgw \in {NoGateway, t}
  /\ UNCHANGED cluster /\ nt.obj.mode \in {"UserManaged", GSM}
  /\ \/ UNCHANGED gateway /\ (nt.c = MC => nt.obj.tgw = t) /\ t \in {nt.obj.tgw, cached[MC].tgw}
     \/ /\ nt.c = MC /\ GatewayAccount[t] = Account[MC]
        /\ \A u \in Gateways \ {t} : gateway'[u] = gateway[u]
Names ==
  /\ nt.pc = "SaveGateway" /\ nt'.pc = "Attach" /\ nt'.c = nt.c /\ nt'.mode = nt.mode /\ nt'.gw = nt.gw
  /\ nt'.obj.tgw = nt.gw /\ nt'.obj.ready \in {nt.obj.ready, cluster[nt.c].ready}
  /\ nt'.obj.mode = cluster[nt.c].mode
  /\ cluster'[nt.c] = [cluster[nt.c] EXCEPT !.tgw = nt.gw]
  /\ \A d \in Clusters \ {nt.c} : cluster'[d] = cluster[d]
\* The three ends of a registration that succeeds.
Finishes ==
  \/ nt.pc = "SavePrefixList"
  \/ nt.pc = "Publish" /\ notified' = notified \cup {<<nt.gw, nt.c>>}
  \/ /\ nt.pc = "Attach" /\ nt.mode # GSM /\ nt.gw \in Gateways
     /\ attachment'[nt.gw][nt.c] \in {"available", "deleting"}
Registers ==
  /\ nt.pc \in RegisterStages /\ nt'.pc = "UpdateStatus" /\ nt'.c = nt.c
  /\ nt'.obj.tgw \in {nt.obj.tgw, cluster[nt.c].tgw}
  /\ nt'.obj.mode \in {nt.obj.mode, cluster'[nt.c].mode}
  /\ nt'.obj.ready = "True" => nt.obj.ready = "True" \/ Finishes
Unregisters ==
  /\ nt.pc = "Unregister" /\ nt'.c = nt.c /\ nt'.obj = nt.obj /\ nt'.mode = nt.obj.mode
  /\ nt'.pc \in {"RemoveFromPrefixList", "Detach", "RemoveAWSFinalizer"}
  /\ nt'.pc = "Detach" => nt.obj.mode # GSM
  /\ nt'.vpc = cachedAWS[nt.c].vpc
  /\ IF nt'.pc = "RemoveAWSFinalizer"
     THEN nt.obj.mode \notin {"UserManaged", GSM} \/ ~Exists(cachedAWS[nt.c])
     ELSE Exists(cachedAWS[nt.c])
Takes(c) ==
  /\ nt.pc = "idle" /\ nt'.pc \in {"AddFinalizer", "Unregister"} /\ nt'.c = c
  /\ nt'.obj.tgw = cached[c].tgw /\ nt'.obj.mode = cached[c].mode /\ nt'.obj.fins = cached[c].fins
  /\ Readable(c) /\ (nt'.pc = "AddFinalizer" => cached[c].phase = "live") /\ UNCHANGED sh
  /\ nt'.obj.ready = IF cached[c].ready = "none" THEN "InProgress" ELSE cached[c].ready

LEMMA Typed ==
  ASSUME TypeOK
  PROVE  /\ nt \in NTWorkers /\ nt.c \in Clusters /\ nt.obj \in ClusterRec
         /\ cluster \in [Clusters -> ClusterRec] /\ awsCluster \in [Clusters -> AWSRec]
         /\ cached \in [Clusters -> ClusterRec] /\ cachedAWS \in [Clusters -> AWSRec]
         /\ nt.pc \in {"SaveGateway", "Attach", "Publish"} => nt.gw \in Gateways
         /\ sh.c \in Clusters /\ sh.obj \in ClusterRec
BY DEF TypeOK, StoreTypeOK, NTTypeOK, NTWorkers, SHTypeOK

LEMMA EndsMove == ASSUME NTRetry \/ NTDone PROVE Ends
BY DEF NTRetry, NTDone, NTIdle, Ends

LEMMA RegistersMove ==
  ASSUME TypeOK, nt.pc \in RegisterStages, NEW condition \in Conditions, NEW again \in BOOLEAN,
         \/ NTRegisterFails
         \/ /\ NTRegistered(condition, again)
            /\ condition = "True" => Finishes
  PROVE  Registers
<1> DEFINE o == [nt.obj EXCEPT !.ready = condition]
<1>1. o \in ClusterRec /\ o.tgw = nt.obj.tgw /\ o.mode = nt.obj.mode /\ o.ready = condition
  BY Typed DEF ClusterRec
<1>2. \/ nt' = [nt EXCEPT !.pc = "UpdateStatus", !.again = TRUE]
      \/ /\ nt' = [nt EXCEPT !.pc = "UpdateStatus", !.obj = o, !.again = again]
         /\ condition = "True" => Finishes
  BY DEF NTRegistered, NTRegisterFails
<1> HIDE DEF o
<1>3. nt \in NTWorkers
  BY Typed
<1>4. /\ nt'.pc = "UpdateStatus" /\ nt'.c = nt.c
      /\ nt'.obj = nt.obj \/ (nt'.obj = o /\ (condition = "True" => Finishes))
  BY <1>2, <1>3 DEF NTWorkers
<1> QED
  BY <1>1, <1>4 DEF Registers

LEMMA NTDecides ==
  ASSUME TypeOK, \/ NTInvalidMode \/ NTIDMissing \/ NTNoGateway \/ NTNotReady \/ NTNoVPC \/ NTPublish
  PROVE  Registers
<1>1. nt.pc \in RegisterStages
  BY DEF NTInvalidMode, NTIDMissing, NTNoGateway, NTNotReady, NTNoVPC, NTPublish, NTAt, RegisterStages
<1>2. {"VPCNotReady", "TransitGatewayNotAvailable", "RequiredIDMissing", "True"} \subseteq Conditions
  BY DEF Conditions
<1>3. \/ NTRegisterFails
      \/ NTRegistered("RequiredIDMissing", FALSE) \/ NTRegistered("VPCNotReady", TRUE)
      \/ NTRegistered("TransitGatewayNotAvailable", TRUE)
      \/ NTRegistered("True", TRUE) /\ Finishes
  BY DEF NTInvalidMode, NTIDMissing, NTNoGateway, NTNotReady, NTNoVPC, NTPublish, NTAt,
     PublishSNSMessage, Finishes
<1> QED
  BY <1>1, <1>2, <1>3, RegistersMove

LEMMA NTSettles ==
  ASSUME TypeOK, NEW t \in Gateways, NTFindGateway(t) \/ NTCreateGateway(t)
  PROVE  Settles(t)
<1>1. nt \in NTWorkers /\ nt.obj.mode \in Modes
  BY Typed DEF ClusterRec
<1>2. /\ nt.pc = "Register" /\ UNCHANGED cluster
      /\ \E up \in BOOLEAN : nt' = [nt EXCEPT !.pc = "SaveGateway", !.mode = nt.obj.mode,
                                              !.gw = t, !.up = up]
  BY DEF NTFindGateway, NTCreateGateway, NTAt, storeVars
<1>3. CASE NTFindGateway(t)
  <2>1. /\ UNCHANGED gateway /\ nt.obj.tgw \in {NoGateway, t} /\ (nt.c = MC => nt.obj.tgw = t)
        /\ t \in {nt.obj.tgw, cached[MC].tgw} /\ nt.obj.mode \in {"UserManaged", GSM}
    BY <1>3 DEF NTFindGateway, networkVars, WantedGateway, UsesMC, Managed, GSM
  <2> QED
    BY <1>1, <1>2, <2>1 DEF Settles, NTWorkers
<1>4. CASE NTCreateGateway(t)
  <2>1. /\ nt.c = MC /\ GatewayAccount[t] = Account[MC] /\ nt.obj.tgw = NoGateway
        /\ nt.obj.mode = GSM
        /\ \A u \in Gateways \ {t} : gateway'[u] = gateway[u]
    BY <1>4 DEF NTCreateGateway, CreateGateway, TypeOK, NetworkTypeOK, GSM
  <2> QED
    BY <1>1, <1>2, <2>1 DEF Settles, NTWorkers
<1> QED
  BY <1>3, <1>4

LEMMA NTCalls ==
  ASSUME TypeOK, \/ NTAddAWSFinalizer \/ NTAttach \/ NTAddToPrefixList \/ NTRemoveFromPrefixList
                 \/ NTDetach \/ NTDeleteGateway \/ NTRemoveAWSFinalizer
  PROVE  Ends \/ GoesOn \/ Registers
<1>0. nt \in NTWorkers
  BY Typed
<1>1. CASE NTAddAWSFinalizer
  <2> DEFINE base == cachedAWS[nt.c]
             r == FinalizerAdded(awsCluster[nt.c], base, "nettop")
  <2>1. nt.pc = "AddAWSFinalizer"
    BY <1>1 DEF NTAddAWSFinalizer, NTAt
  <2>2. \/ NTRetry
        \/ /\ nt' = [nt EXCEPT !.pc = "Register"] /\ Exists(base)
           /\ awsCluster' = [awsCluster EXCEPT ![nt.c] = r]
    BY <1>1 DEF NTAddAWSFinalizer, NTGoto, StoreAWS
  <2>3. Protected(r) \/ (Protected(base) /\ r.fins = awsCluster[nt.c].fins)
    BY <1>0, Typed DEF FinalizerAdded, PatchedFins, AWSRec, Protected
  <2> HIDE DEF r
  <2>4. nt.c \in Clusters /\ awsCluster \in [Clusters -> AWSRec]
    BY Typed
  <2>5. CASE NTRetry
    BY <2>5, EndsMove
  <2>6. CASE ~NTRetry
    BY <1>0, <2>1, <2>2, <2>3, <2>4, <2>6 DEF GoesOn, Onward, NTWorkers
  <2> QED
    BY <2>5, <2>6
<1>2. CASE NTAttach
  <2>1. nt.pc = "Attach" /\ nt.pc \in RegisterStages /\ "True" \in Conditions
    BY <1>2 DEF NTAttach, NTAt, RegisterStages, Conditions
  <2>0. /\ nt.gw \in Gateways /\ nt.c \in Clusters
        /\ attachment'[nt.gw][nt.c] \in {"pendingAcceptance", "available", "deleting"}
    BY <1>2, <2>1, Typed DEF NTAttach, Attach, TypeOK, NetworkTypeOK, AttachmentStates
  <2>2. CASE NTRegistered("True", TRUE) /\ nt.mode # GSM
    <3>1. nt'.pc = "UpdateStatus"
      BY <1>0, <2>2 DEF NTRegistered, NTWorkers
    <3>2. nt' # [nt EXCEPT !.pc = "Publish", !.vpc = TRUE]
      BY <1>0, <3>1 DEF NTWorkers
    <3>3. ~Asks(nt.gw, nt.c)
      BY <1>2, <2>2, <3>2 DEF NTAttach, GSM
    <3>4. Finishes
      BY <2>0, <2>1, <2>2, <3>3 DEF Finishes, Asks
    <3> QED
      BY <2>1, <2>2, <3>4, RegistersMove
  <2>3. CASE ~(NTRegistered("True", TRUE) /\ nt.mode # GSM)
    <3>0. IF nt.mode = GSM THEN nt' = [nt EXCEPT !.pc = "AddToPrefixList", !.vpc = TRUE]
          ELSE IF Asks(nt.gw, nt.c) THEN nt' = [nt EXCEPT !.pc = "Publish", !.vpc = TRUE]
          ELSE NTRegistered("True", TRUE)
      BY <1>2 DEF NTAttach, GSM
    <3>1. \/ nt.mode = GSM /\ nt' = [nt EXCEPT !.pc = "AddToPrefixList", !.vpc = TRUE]
          \/ /\ nt.mode # GSM /\ Asks(nt.gw, nt.c)
             /\ nt' = [nt EXCEPT !.pc = "Publish", !.vpc = TRUE]
      BY <2>3, <3>0
    <3>2. /\ nt.gw \in Gateways
          /\ \/ attachment'[nt.gw][nt.c] \in {"pendingAcceptance", "available"}
             \/ attachment[nt.gw][nt.c] = "deleting"
      BY <1>2, <2>1, Typed DEF NTAttach, Attach, TypeOK, NetworkTypeOK, AttachmentStates
    <3>3. CASE nt.mode = GSM
      <4>1. /\ nt'.pc = "AddToPrefixList" /\ nt'.c = nt.c /\ nt'.obj = nt.obj
            /\ nt'.gw = nt.gw /\ nt'.mode = nt.mode
        BY <1>0, <3>1, <3>3 DEF NTWorkers
      <4> QED
        BY <2>1, <3>2, <3>3, <4>1 DEF GoesOn, Onward
    <3>4. CASE nt.mode # GSM
      <4>1. /\ nt'.pc = "Publish" /\ nt'.c = nt.c /\ nt'.obj = nt.obj
            /\ nt'.gw = nt.gw /\ nt'.mode = nt.mode
        BY <1>0, <3>1, <3>4 DEF NTWorkers
      <4> QED
        BY <2>0, <2>1, <3>1, <3>4, <4>1 DEF GoesOn, Onward, Asks
    <3> QED
      BY <3>3, <3>4
  <2> QED
    BY <2>2, <2>3
<1>3. CASE NTAddToPrefixList
  <2>1. nt.pc = "AddToPrefixList" /\ nt.pc \in RegisterStages /\ "InProgress" \in Conditions
    BY <1>3 DEF NTAddToPrefixList, NTAt, RegisterStages, Conditions
  <2>2. NTRegisterFails \/ NTGoto("SavePrefixList")
    BY <1>3 DEF NTAddToPrefixList
  <2>3. NTRegisterFails => Registers
    BY <2>1, RegistersMove
  <2>4. NTRegisterFails \/ prefixList'[Cidr[nt.c]] = nt.c
    BY <1>3, Typed DEF NTAddToPrefixList, AddEntry, TypeOK, NetworkTypeOK, Cidrs, Range
  <2> QED
    BY <1>0, <2>1, <2>2, <2>3, <2>4 DEF NTGoto, GoesOn, Onward, NTWorkers
<1>4. CASE NTRemoveFromPrefixList
  BY <1>0, <1>4, EndsMove DEF NTRemoveFromPrefixList, NTAt, NTGoto, GoesOn, Onward, NTWorkers
<1>5. CASE NTDetach
  BY <1>0, <1>5 DEF NTDetach, NTAt, NTGoto, GoesOn, Onward, NTWorkers, GSM
<1>6. CASE NTDeleteGateway
  <2>1. nt.pc = "DeleteGateway"
    BY <1>6 DEF NTDeleteGateway, NTAt
  <2>2. nt.obj.tgw \in Gateways \cup {NoGateway} /\ gateway \in [Gateways -> GatewayStates]
    BY Typed DEF ClusterRec, TypeOK, NetworkTypeOK
  <2>3. NTRetry \/ /\ nt' = [nt EXCEPT !.pc = "RemoveAWSFinalizer"]
                   /\ nt.obj.tgw # NoGateway
                   /\ gateway' = [gateway EXCEPT ![nt.obj.tgw] = "deleted"]
    BY <1>6 DEF NTDeleteGateway, NTGoto, CanDeleteGateway, DeleteGateway
  <2>4. CASE NTRetry
    BY <2>4, EndsMove
  <2>5. CASE ~NTRetry
    BY <1>0, <2>1, <2>2, <2>3, <2>5 DEF GoesOn, Onward, NTWorkers
  <2> QED
    BY <2>4, <2>5
<1>7. CASE NTRemoveAWSFinalizer
  BY <1>0, <1>7, EndsMove DEF NTRemoveAWSFinalizer, NTAt, NTGoto, GoesOn, Onward, NTWorkers
<1> QED
  BY <1>1, <1>2, <1>3, <1>4, <1>5, <1>6, <1>7

LEMMA NTProtects == ASSUME TypeOK, NTAddFinalizer PROVE Ends \/ Protects
<1>0. nt \in NTWorkers /\ cluster[nt.c] \in ClusterRec /\ nt.obj \in ClusterRec
  BY Typed
<1> DEFINE r == FinalizerAdded(cluster[nt.c], nt.obj, "nettop")
           o == Refreshed(nt.obj, r)
<1>1. /\ r \in ClusterRec /\ r.tgw = cluster[nt.c].tgw /\ r.ready = cluster[nt.c].ready
      /\ r.mode = cluster[nt.c].mode
  BY <1>0 DEF FinalizerAdded, PatchedFins, ClusterRec, Finalizers
<1>2. NTRetry \/ nt' = [nt EXCEPT !.pc = "AddAWSFinalizer", !.obj = o]
  BY DEF NTAddFinalizer
<1> HIDE DEF r
<1>3. o.tgw = r.tgw /\ o.mode = r.mode /\ o.ready \in {nt.obj.ready, r.ready}
  BY <1>1 DEF Refreshed, ClusterRec
<1> HIDE DEF o
<1> QED
  BY <1>0, <1>1, <1>2, <1>3, EndsMove DEF NTAddFinalizer, NTAt, Protects, NTWorkers

LEMMA NTSaves ==
  ASSUME TypeOK
  PROVE  /\ NTSaveGateway => Names \/ Registers
         /\ NTModeNotSupported \/ NTSavePrefixList => Registers
<1>0. nt \in NTWorkers /\ cluster[nt.c] \in ClusterRec /\ nt.obj \in ClusterRec
  BY Typed
<1>c. {"InProgress", "ModeNotSupported"} \subseteq Conditions
  BY DEF Conditions
<1>1. ASSUME NTSaveGateway PROVE Names \/ Registers
  <2> DEFINE r == [cluster[nt.c] EXCEPT !.tgw = nt.gw]
             o == Refreshed(nt.obj, r)
  <2>1. nt.pc = "SaveGateway" /\ nt.pc \in RegisterStages
    BY <1>1 DEF NTSaveGateway, NTAt, RegisterStages
  <2>2. /\ r.tgw = nt.gw /\ r.ready = cluster[nt.c].ready /\ r \in ClusterRec
        /\ r.mode = cluster[nt.c].mode
    BY <1>0 DEF ClusterRec, NTWorkers
  <2>3. NTRegisterFails \/ nt' = [nt EXCEPT !.pc = "Attach", !.obj = o]
    BY <1>1 DEF NTSaveGateway
  <2>4. NTRegisterFails => Registers
    BY <1>c, <2>1, RegistersMove
  <2> HIDE DEF r
  <2>5. o.tgw = r.tgw /\ o.mode = r.mode /\ o.ready \in {nt.obj.ready, r.ready}
    BY <2>2 DEF Refreshed, ClusterRec
  <2> HIDE DEF o
  <2>6. NTRegisterFails \/ (cluster'[nt.c] = r /\ \A d \in Clusters \ {nt.c} : cluster'[d] = cluster[d])
    BY <1>1, Typed DEF NTSaveGateway, StoreCluster, r
  <2> QED
    BY <1>0, <2>1, <2>2, <2>3, <2>4, <2>5, <2>6 DEF Names, NTWorkers, r
<1>2. ASSUME NTModeNotSupported PROVE Registers
  <2> DEFINE r == [cluster[nt.c] EXCEPT !.mode = "None"]
             o == [r EXCEPT !.ready = "ModeNotSupported"]
  <2>1. nt.pc = "Register" /\ nt.pc \in RegisterStages
    BY <1>2 DEF NTModeNotSupported, NTAt, RegisterStages
  <2>2. /\ o.tgw = cluster[nt.c].tgw /\ o.ready = "ModeNotSupported" /\ o \in ClusterRec
        /\ o.mode = r.mode
    BY <1>0 DEF ClusterRec, Conditions, Modes
  <2>3. \/ NTRegisterFails \/ NTRegistered("ModeNotSupported", FALSE)
        \/ /\ nt' = [nt EXCEPT !.pc = "UpdateStatus", !.again = FALSE, !.obj = o]
           /\ cluster' = [cluster EXCEPT ![nt.c] = r]
    BY <1>2 DEF NTModeNotSupported, StoreCluster
  <2>4. NTRegisterFails \/ NTRegistered("ModeNotSupported", FALSE) => Registers
    BY <1>c, <2>1, RegistersMove
  <2> HIDE DEF o, r
  <2>5. nt.c \in Clusters /\ cluster \in [Clusters -> ClusterRec]
    BY Typed
  <2>6. ASSUME nt' = [nt EXCEPT !.pc = "UpdateStatus", !.again = FALSE, !.obj = o],
               cluster' = [cluster EXCEPT ![nt.c] = r]
        PROVE  Registers
    <3>1. nt'.pc = "UpdateStatus" /\ nt'.c = nt.c /\ nt'.obj = o
      BY <1>0, <2>6 DEF NTWorkers
    <3>2. cluster'[nt.c] = r
      BY <2>5, <2>6
    <3> QED
      BY <2>1, <2>2, <3>1, <3>2 DEF Registers
  <2> QED
    BY <2>3, <2>4, <2>6
<1>3. ASSUME NTSavePrefixList PROVE Registers
  <2> DEFINE r == [cluster[nt.c] EXCEPT !.pl = TRUE]
             o == [r EXCEPT !.ready = "True"]
  <2>1. nt.pc = "SavePrefixList" /\ nt.pc \in RegisterStages
    BY <1>3 DEF NTSavePrefixList, NTAt, RegisterStages
  <2>2. o.tgw = cluster[nt.c].tgw /\ o \in ClusterRec /\ o.mode = r.mode
    BY <1>0 DEF ClusterRec, Conditions
  <2>3. \/ NTRegisterFails
        \/ /\ nt' = [nt EXCEPT !.pc = "UpdateStatus", !.again = TRUE, !.obj = o]
           /\ cluster' = [cluster EXCEPT ![nt.c] = r]
    BY <1>3 DEF NTSavePrefixList, StoreCluster
  <2>4. NTRegisterFails => Registers
    BY <1>c, <2>1, RegistersMove
  <2> HIDE DEF o, r
  <2>5. nt.c \in Clusters /\ cluster \in [Clusters -> ClusterRec]
    BY Typed
  <2>6. ASSUME nt' = [nt EXCEPT !.pc = "UpdateStatus", !.again = TRUE, !.obj = o],
               cluster' = [cluster EXCEPT ![nt.c] = r]
        PROVE  Registers
    <3>1. nt'.pc = "UpdateStatus" /\ nt'.c = nt.c /\ nt'.obj = o
      BY <1>0, <2>6 DEF NTWorkers
    <3>2. cluster'[nt.c] = r
      BY <2>5, <2>6
    <3> QED
      BY <2>1, <2>2, <3>1, <3>2 DEF Registers, Finishes
  <2> QED
    BY <2>3, <2>4, <2>6
<1> QED
  BY <1>1, <1>2, <1>3

LEMMA NTUnregisters == ASSUME TypeOK, NTUnregister PROVE Ends \/ Unregisters
<1>0. nt \in NTWorkers /\ nt.obj.mode \in Modes /\ nt.c \in Clusters
      /\ cachedAWS[nt.c].vpc \in BOOLEAN
  BY Typed DEF ClusterRec, AWSRec
<1>1. CASE NTRetry
  BY <1>1, EndsMove
<1>2. CASE ~NTRetry
  <2> DEFINE managed == nt.obj.mode \in {"UserManaged", GSM}
             next == IF ~managed \/ ~Exists(cachedAWS[nt.c]) THEN "RemoveAWSFinalizer"
                     ELSE IF nt.obj.mode = "UserManaged" THEN "Detach" ELSE "RemoveFromPrefixList"
  <2>1. /\ nt.pc = "Unregister"
        /\ nt' = [nt EXCEPT !.pc = next, !.mode = nt.obj.mode, !.vpc = cachedAWS[nt.c].vpc]
    BY <1>2 DEF NTUnregister, NTAt, GSM
  <2>2. /\ next \in {"RemoveFromPrefixList", "Detach", "RemoveAWSFinalizer"}
        /\ next = "Detach" => nt.obj.mode # GSM
        /\ IF next = "RemoveAWSFinalizer"
           THEN nt.obj.mode \notin {"UserManaged", GSM} \/ ~Exists(cachedAWS[nt.c])
           ELSE Exists(cachedAWS[nt.c])
    BY DEF GSM
  <2> HIDE DEF next
  <2> QED
    BY <1>0, <2>1, <2>2 DEF Unregisters, NTWorkers
<1> QED
  BY <1>1, <1>2

LEMMA NTMoves ==
  ASSUME TypeOK, NTStep
  PROVE  \/ Ends \/ GoesOn \/ Protects \/ Names \/ Registers \/ Unregisters
         \/ \E t \in Gateways : Settles(t)
<1>1. NTUpdateStatus \/ NTRemoveFinalizer => Ends
  BY EndsMove DEF NTUpdateStatus, NTRemoveFinalizer
<1> QED
  BY <1>1, NTDecides, NTSettles, NTCalls, NTProtects, NTSaves, NTUnregisters DEF NTStep

LEMMA NTTakes ==
  ASSUME TypeOK, NEW c \in Clusters, NTGet(c), UNCHANGED sh PROVE Ends \/ Takes(c)
<1> DEFINE x == cached[c]
           fresh == [x EXCEPT !.ready = IF @ = "none" THEN "InProgress" ELSE @]
<1>1. /\ fresh \in ClusterRec /\ fresh.tgw = x.tgw /\ fresh.mode = x.mode /\ fresh.fins = x.fins
      /\ fresh.ready = IF x.ready = "none" THEN "InProgress" ELSE x.ready
  <2>1. x \in ClusterRec
    BY Typed
  <2> HIDE DEF x
  <2>2. (IF x.ready = "none" THEN "InProgress" ELSE x.ready) \in Conditions
    BY <2>1 DEF ClusterRec, Conditions
  <2> QED
    BY <2>1, <2>2 DEF ClusterRec
<1>2. NTIdle \in NTWorkers /\ NTIdle.pc = "idle"
  BY NTIdleType DEF NTWorkers, NTIdle
<1>3. \/ nt' = NTIdle
      \/ \E next \in {"AddFinalizer", "Unregister"} :
           /\ nt' = [NTIdle EXCEPT !.pc = next, !.c = c, !.obj = fresh]
           /\ next = "AddFinalizer" => x.phase = "live"
  BY DEF NTGet
<1>4. nt.pc = "idle" /\ Readable(c)
  BY DEF NTGet, NTAt
<1> HIDE DEF fresh
<1> QED
  BY <1>1, <1>2, <1>3, <1>4 DEF Ends, Takes, NTWorkers

LEMMA NTFaultMoves ==
  ASSUME TypeOK, NTFault \/ NTAWSReadFails
  PROVE  /\ nt.pc # "idle"
         /\ Ends \/ Registers \/ (GoesOn /\ nt'.pc = "RemoveFinalizer")
<1>1. "InProgress" \in Conditions
  BY DEF Conditions
<1>2. CASE NTFault
  BY <1>1, <1>2, EndsMove, RegistersMove DEF NTFault, NTAt
<1>3. CASE NTAWSReadFails
  <2>1. nt \in NTWorkers
    BY DEF TypeOK, NTTypeOK, NTWorkers
  <2> QED
    BY <1>3, <2>1 DEF NTAWSReadFails, NTAt, NTGoto, GoesOn, Onward, NTWorkers
<1> QED
  BY <1>2, <1>3
-----------------------------------------------------------------------------
(* What a step of the system does to what the invariant speaks of.          *)

\* The worker stays where it is, ends, or goes one of the ways above.
LEMMA WorkerMoves ==
  ASSUME TypeOK, [Next]_vars
  PROVE  \/ nt' = nt \/ Ends \/ GoesOn \/ Protects \/ Names \/ Registers \/ Unregisters
         \/ (\E t \in Gateways : Settles(t)) \/ \E c \in Clusters : Takes(c)
<1>1. CASE NTWork
  BY <1>1, NTMoves DEF NTWork
<1>2. CASE SHWork \/ UNCHANGED vars
  BY <1>2 DEF SHWork, vars
<1>3. CASE Fault
  BY <1>3, NTFaultMoves DEF Fault
<1>4. CASE Restart
  BY <1>4 DEF Restart, NTIdle, Ends
<1>5. ASSUME NEW c \in Clusters, NTTake(c)
      PROVE  Ends \/ Takes(c)
  BY <1>5, NTTakes DEF NTTake
<1>6. ASSUME NEW c \in Clusters, SHTake(c) \/ Deliver(c) \/ Provision(c) \/ User(c)
      PROVE  nt' = nt
  BY <1>6 DEF SHTake, Deliver, Provision, User
<1>7. ASSUME NEW t \in Gateways, AWS(t)
      PROVE  nt' = nt
  BY <1>7 DEF AWS
<1> QED
  BY <1>1, <1>2, <1>3, <1>4, <1>5, <1>6, <1>7 DEF Next

\* A gateway that is deleted stays so, and one comes to be there only when a
\* registration creates it.
LEMMA GatewayMoves ==
  ASSUME TypeOK, [Next]_vars, NEW t \in Gateways
  PROVE  /\ gateway[t] = "deleted" => gateway'[t] = "deleted"
         /\ gateway'[t] \in {"pending", "available"} =>
              \/ gateway[t] \in {"pending", "available"}
              \/ nt.c = MC /\ nt.pc = "Register" /\ Settles(t)
<1>0. gateway \in [Gateways -> GatewayStates]
  BY DEF TypeOK, NetworkTypeOK
<1>1. CASE NTWork
  <2>1. CASE UNCHANGED gateway
    BY <2>1
  <2>2. CASE NTDeleteGateway
    BY <1>0, <2>2 DEF NTDeleteGateway, DeleteGateway, networkVars
  <2>3. ASSUME NEW u \in Gateways, NTCreateGateway(u)
        PROVE  /\ gateway[t] = "deleted" => gateway'[t] = "deleted"
               /\ gateway'[t] # gateway[t] => nt.c = MC /\ nt.pc = "Register" /\ Settles(t)
    <3>1. Settles(u) /\ nt.c = MC /\ nt.pc = "Register"
      BY <2>3, NTSettles DEF NTCreateGateway, NTAt
    <3> QED
      BY <1>0, <2>3, <3>1 DEF NTCreateGateway, CreateGateway
  <2>4. NTStep => UNCHANGED gateway \/ NTDeleteGateway \/ \E u \in Gateways : NTCreateGateway(u)
    <3>1. NTRemoveFromPrefixList \/ NTDetach \/ NTAttach \/ NTAddToPrefixList \/ NTPublish
            => UNCHANGED gateway
      BY DEF NTRemoveFromPrefixList, NTDetach, NTAttach, NTAddToPrefixList, NTPublish, networkVars,
         RemoveEntry, Detach, Attach, AddEntry, PublishSNSMessage
    <3>2. ASSUME \/ NTAddFinalizer \/ NTAddAWSFinalizer \/ NTModeNotSupported \/ NTInvalidMode
                 \/ NTIDMissing \/ NTNoGateway \/ NTSaveGateway \/ NTNotReady \/ NTNoVPC
                 \/ NTSavePrefixList \/ NTUpdateStatus \/ NTUnregister \/ NTRemoveAWSFinalizer
                 \/ NTRemoveFinalizer \/ \E u \in Gateways : NTFindGateway(u)
          PROVE  UNCHANGED gateway
      BY <3>2 DEF NTAddFinalizer, NTAddAWSFinalizer, NTModeNotSupported, NTInvalidMode, NTIDMissing,
         NTNoGateway, NTSaveGateway, NTNotReady, NTNoVPC, NTSavePrefixList, NTUpdateStatus,
         NTUnregister, NTRemoveAWSFinalizer, NTRemoveFinalizer, NTFindGateway, networkVars
    <3> QED
      BY <3>1, <3>2 DEF NTStep
  <2> QED
    BY <1>0, <1>1, <2>1, <2>2, <2>3, <2>4 DEF NTWork
<1>2. CASE SHWork
  BY <1>2 DEF SHWork, SHStep, SHShareTransitGateway, SHAddFinalizer, SHAddAWSFinalizer,
     SHApplyGatewayShare, SHSharePrefixList, SHDeleteGatewayShare, SHDeletePrefixListShare,
     SHRemoveAWSFinalizer, SHRemoveFinalizer, ApplyResourceShare, DeleteResourceShare, networkVars
<1>3. CASE Fault \/ Restart \/ UNCHANGED vars
  BY <1>3 DEF Fault, NTFault, NTAWSReadFails, SHFault, SHAWSReadFails, Restart, networkVars, vars
<1>4. ASSUME NEW c \in Clusters, NTTake(c) \/ SHTake(c) \/ Deliver(c) \/ Provision(c) \/ User(c)
      PROVE  UNCHANGED gateway
  BY <1>4 DEF NTTake, SHTake, NTGet, SHGet, Deliver, Provision, User, networkVars
<1>5. ASSUME NEW u \in Gateways, AWS(u)
      PROVE  gateway'[t] = gateway[t] \/ (gateway[t] = "pending" /\ gateway'[t] = "available")
  BY <1>0, <1>5 DEF AWS, GatewayAvailable, AttachmentDeleted, AcceptAttachment
<1> QED
  BY <1>1, <1>2, <1>3, <1>4, <1>5 DEF Next

\* An attachment and an entry go only by the worker's calls for that cluster.
LEMMA ConnectionMoves ==
  ASSUME TypeOK, [Next]_vars, NEW c \in Clusters
  PROVE  /\ \A t \in Gateways : Attached(t, c) =>
              attachment'[t][c] \in {"pendingAcceptance", "available"} \/ (nt.c = c /\ nt.pc = "Detach")
         /\ HasEntry(c) => prefixList'[Cidr[c]] = c \/ (nt.c = c /\ nt.pc = "RemoveFromPrefixList")
<1>0. /\ attachment \in [Gateways -> [Clusters -> AttachmentStates]]
      /\ prefixList \in [Cidrs -> Clusters \cup {Nobody}]
      /\ Cidr[c] \in Cidrs /\ nt.c \in Clusters /\ Cidr[nt.c] \in Cidrs
  BY Typed DEF TypeOK, NetworkTypeOK, Cidrs, Range
<1>1. CASE NTWork
  <2>1. CASE UNCHANGED <<attachment, prefixList>>
    BY <2>1 DEF Attached, HasEntry
  <2>2. CASE NTAttach
    <3>1. nt.gw \in Gateways
      BY <2>2, Typed DEF NTAttach, NTAt
    <3> QED
      BY <1>0, <2>2, <3>1 DEF NTAttach, Attach, Attached, HasEntry
  <2>3. CASE NTAddToPrefixList
    BY <1>0, <2>3 DEF NTAddToPrefixList, AddEntry, EntryConflicts, networkVars, Attached, HasEntry
  <2>4. CASE NTRemoveFromPrefixList
    BY <1>0, <2>4 DEF NTRemoveFromPrefixList, RemoveEntry, networkVars, NTAt, Attached, HasEntry
  <2>5. CASE NTDetach
    BY <1>0, <2>5 DEF NTDetach, Detach, NTAt, Attached, HasEntry
  <2>6. ASSUME \/ NTAddFinalizer \/ NTAddAWSFinalizer \/ NTModeNotSupported \/ NTInvalidMode
               \/ NTIDMissing \/ NTNoGateway \/ NTSaveGateway \/ NTNotReady \/ NTNoVPC
               \/ NTSavePrefixList \/ NTUpdateStatus \/ NTUnregister \/ NTRemoveAWSFinalizer
               \/ NTRemoveFinalizer \/ NTPublish \/ NTDeleteGateway
               \/ \E u \in Gateways : NTFindGateway(u) \/ NTCreateGateway(u)
        PROVE  UNCHANGED <<attachment, prefixList>>
    BY <2>6 DEF NTAddFinalizer, NTAddAWSFinalizer, NTModeNotSupported, NTInvalidMode, NTIDMissing,
       NTNoGateway, NTSaveGateway, NTNotReady, NTNoVPC, NTSavePrefixList, NTUpdateStatus,
       NTUnregister, NTRemoveAWSFinalizer, NTRemoveFinalizer, NTFindGateway, networkVars,
       NTPublish, PublishSNSMessage, NTDeleteGateway, DeleteGateway, NTCreateGateway, CreateGateway
  <2> QED
    BY <1>1, <2>1, <2>2, <2>3, <2>4, <2>5, <2>6 DEF NTWork, NTStep
<1>2. CASE SHWork \/ Fault \/ Restart \/ UNCHANGED vars
  <2>1. UNCHANGED <<attachment, prefixList>>
    BY <1>2 DEF SHWork, SHStep, SHShareTransitGateway, SHAddFinalizer, SHAddAWSFinalizer,
       SHApplyGatewayShare, SHSharePrefixList, SHDeleteGatewayShare, SHDeletePrefixListShare,
       SHRemoveAWSFinalizer, SHRemoveFinalizer, ApplyResourceShare, DeleteResourceShare, networkVars,
       Fault, NTFault, NTAWSReadFails, SHFault, SHAWSReadFails, Restart, vars
  <2> QED
    BY <2>1 DEF Attached, HasEntry
<1>3. ASSUME NEW d \in Clusters, NTTake(d) \/ SHTake(d) \/ Deliver(d) \/ Provision(d) \/ User(d)
      PROVE  UNCHANGED <<attachment, prefixList>>
  BY <1>3 DEF NTTake, SHTake, NTGet, SHGet, Deliver, Provision, User, networkVars
<1>u. CASE UNCHANGED <<attachment, prefixList>>
  BY <1>u DEF Attached, HasEntry
<1>4. ASSUME NEW u \in Gateways, AWS(u)
      PROVE  /\ UNCHANGED prefixList
             /\ \A t \in Gateways : Attached(t, c) =>
                  attachment'[t][c] \in {"pendingAcceptance", "available"}
  <2>1. CASE GatewayAvailable(u)
    BY <2>1 DEF GatewayAvailable, Attached
  <2>2. ASSUME NEW d \in Clusters, AttachmentDeleted(u, d)
        PROVE  /\ UNCHANGED prefixList
               /\ \A t \in Gateways : Attached(t, c) => attachment'[t][c] = attachment[t][c]
    BY <1>0, <2>2 DEF AttachmentDeleted, Attached
  <2>3. ASSUME NEW d \in Clusters, AcceptAttachment(u, d)
        PROVE  /\ UNCHANGED prefixList
               /\ \A t \in Gateways : attachment'[t][c] \in {attachment[t][c], "available"}
    BY <1>0, <2>3 DEF AcceptAttachment
  <2> QED
    BY <1>4, <2>1, <2>2, <2>3 DEF AWS, Attached
<1> QED
  BY <1>1, <1>2, <1>3, <1>u, <1>4 DEF Next, HasEntry

-----------------------------------------------------------------------------
(* What a write leaves of an object.                                        *)

\* y is what a step makes of the Cluster of c.
Keeps(c, y) ==
  LET x == cluster[c]
  IN  /\ x.phase = "gone" => y = x
      /\ y.phase = "gone" => x.phase = "gone" \/ y.fins = {}
      /\ y.phase = "live" => x.phase = "live"
      /\ x.phase = "live" => y.phase = "live" \/ c \in Churn
      /\ y.tgw = x.tgw \/ (nt.c = c /\ Names)
      /\ y.ready = "True" => SaysReady(c)
      /\ \/ y.mode = x.mode \/ (x.phase = "live" /\ <<x.mode, y.mode>> \in ModeChanges)
         \/ nt.c = c /\ nt.pc = "Register" /\ nt.obj.mode = "unset" /\ y.mode = "None"
      /\ Protected(x) => \/ Protected(y) \/ (nt.c = c /\ nt.pc = "RemoveFinalizer")
                         \/ sh.c = c /\ sh.pc \in {"AddFinalizer", "RemoveFinalizer"}

\* y is what a step makes of the AWSCluster of c.
SharesFinalizer(c) ==
  sh.c = c /\ \/ sh.pc = "AddAWSFinalizer"
              \/ sh.pc = "RemoveAWSFinalizer" /\ "share" \in cachedAWS[c].fins
KeepsAWS(c, y) ==
  LET x == awsCluster[c]
  IN  /\ ~Exists(y) => y.fins = {} \/ y = x
      /\ Protected(y) => \/ Protected(x) \/ SharesFinalizer(c)
                         \/ nt.c = c /\ nt.pc = "AddAWSFinalizer" /\ Exists(cachedAWS[c])
      /\ Protected(x) => \/ Protected(y) \/ SharesFinalizer(c) \/ ~Exists(x)
                         \/ nt.c = c /\ nt.pc = "RemoveAWSFinalizer"
      /\ "share" \in y.fins =>
           "share" \in x.fins \/ "share" \in cachedAWS[c].fins \/ SharesFinalizer(c)

LEMMA Stored ==
  ASSUME IInv
  PROVE  /\ UNCHANGED cluster => \A c \in Clusters : Keeps(c, cluster'[c])
         /\ \A d \in Clusters, r \in ClusterRec :
              StoreCluster(d, r) /\ Keeps(d, r) => \A c \in Clusters : Keeps(c, cluster'[c])
         /\ UNCHANGED awsCluster => \A c \in Clusters : KeepsAWS(c, awsCluster'[c])
         /\ \A d \in Clusters, r \in AWSRec :
              StoreAWS(d, r) /\ KeepsAWS(d, r) => \A c \in Clusters : KeepsAWS(c, awsCluster'[c])
<1>1. cluster \in [Clusters -> ClusterRec] /\ awsCluster \in [Clusters -> AWSRec]
  BY Typed DEF IInv
<1>2. ASSUME NEW c \in Clusters PROVE Keeps(c, cluster[c]) /\ KeepsAWS(c, awsCluster[c])
  <2>1. cluster[c] \in Seen(c)
    <3>1. /\ ClusterLine(cached[c], feed[c], cluster[c])
          /\ feed[c] \in Seq(ClusterRec) /\ cached[c] \in ClusterRec
      BY DEF IInv, ClusterHistory, TypeOK, StoreTypeOK
    <3> QED
      BY <3>1, VersionsEnds DEF Seen, ClusterLine
  <2> QED
    BY <2>1 DEF Keeps, KeepsAWS, SaysReady
<1>3. ASSUME NEW d \in Clusters, NEW r \in ClusterRec, StoreCluster(d, r), Keeps(d, r),
             NEW c \in Clusters
      PROVE  Keeps(c, cluster'[c])
  BY <1>1, <1>2, <1>3 DEF StoreCluster
<1>4. ASSUME NEW d \in Clusters, NEW r \in AWSRec, StoreAWS(d, r), KeepsAWS(d, r),
             NEW c \in Clusters
      PROVE  KeepsAWS(c, awsCluster'[c])
  BY <1>1, <1>2, <1>4 DEF StoreAWS
<1>5. /\ UNCHANGED cluster => \A c \in Clusters : Keeps(c, cluster'[c])
      /\ UNCHANGED awsCluster => \A c \in Clusters : KeepsAWS(c, awsCluster'[c])
  BY <1>2
<1> QED
  BY <1>3, <1>4, <1>5

LEMMA StatusKeeps ==
  ASSUME IInv, NEW c \in Clusters, NEW x \in ClusterRec, StatusUpdated(c, x),
         x.ready = "True" => SaysReady(c)
  PROVE  \A d \in Clusters : Keeps(d, cluster'[d])
<1> DEFINE r == IF Exists(cluster[c]) /\ IsCurrent(c, x)
                THEN [cluster[c] EXCEPT !.ready = x.ready] ELSE cluster[c]
<1>1. cluster[c] \in ClusterRec /\ x.ready \in Conditions
  BY Known DEF ClusterRec
<1>2. /\ r \in ClusterRec /\ r.phase = cluster[c].phase /\ r.fins = cluster[c].fins
      /\ r.mode = cluster[c].mode /\ r.tgw = cluster[c].tgw /\ r.ready \in {cluster[c].ready, x.ready}
      /\ cluster[c].phase = "gone" => r = cluster[c]
  BY <1>1 DEF ClusterRec, Exists
<1>3. cluster[c].ready = "True" => SaysReady(c)
  <2>1. /\ ClusterLine(cached[c], feed[c], cluster[c])
        /\ feed[c] \in Seq(ClusterRec) /\ cached[c] \in ClusterRec
    BY DEF IInv, ClusterHistory, TypeOK, StoreTypeOK
  <2> QED
    BY <2>1, VersionsEnds DEF Seen, ClusterLine, SaysReady
<1>4. StoreCluster(c, r)
  BY DEF StatusUpdated
<1> HIDE DEF r
<1>5. Keeps(c, r)
  BY <1>2, <1>3 DEF Keeps, Protected
<1> QED
  BY <1>2, <1>4, <1>5, Stored

LEMMA NTKeeps ==
  ASSUME IInv, NTStep
  PROVE  \A c \in Clusters : Keeps(c, cluster'[c])
<1> DEFINE c == nt.c
           s == cluster[c]
<1>0. /\ c \in Clusters /\ s \in ClusterRec /\ nt.obj \in ClusterRec /\ nt.gw \in Gateways \cup {NoGateway}
      /\ s.ready = "True" => SaysReady(c)
  <2>1. nt \in NTWorkers /\ c \in Clusters /\ s \in ClusterRec /\ nt.obj \in ClusterRec
    BY Typed DEF IInv
  <2>2. /\ ClusterLine(cached[c], feed[c], cluster[c])
        /\ feed[c] \in Seq(ClusterRec) /\ cached[c] \in ClusterRec
    BY <2>1 DEF IInv, ClusterHistory, TypeOK, StoreTypeOK
  <2> QED
    BY <2>1, <2>2, VersionsEnds DEF Seen, ClusterLine, SaysReady, NTWorkers
<1> HIDE DEF c
<1>1. CASE NTAddFinalizer \/ NTRemoveFinalizer
  <2> DEFINE a == FinalizerAdded(s, nt.obj, "nettop")
             r == FinalizerRemoved(s, nt.obj, "nettop")
  <2>1. /\ a \in ClusterRec /\ a.ready = s.ready /\ a.phase = s.phase /\ a.mode = s.mode
        /\ a.tgw = s.tgw /\ (Protected(s) => Protected(a))
        /\ r \in ClusterRec /\ r.ready = s.ready /\ r.phase = s.phase /\ r.mode = s.mode
        /\ r.tgw = s.tgw
    BY <1>0 DEF FinalizerAdded, FinalizerRemoved, PatchedFins, ClusterRec, Protected, Finalizers
  <2>2. Accepts(s, a) \/ Accepts(s, r) => s.phase # "gone"
    BY DEF Accepts, Exists
  <2>3. CASE NTAddFinalizer
    <3>1. (Accepts(s, a) /\ StoreCluster(c, a)) \/ UNCHANGED cluster
      BY <2>3 DEF NTAddFinalizer, c
    <3> HIDE DEF a, r, s
    <3>2. Accepts(s, a) => Keeps(c, a)
      BY <1>0, <2>1, <2>2 DEF Keeps, s
    <3> QED
      BY <1>0, <2>1, <3>1, <3>2, Stored
  <2>4. CASE NTRemoveFinalizer
    <3>1. (Accepts(s, r) /\ StoreCluster(c, r)) \/ UNCHANGED cluster
      BY <2>4 DEF NTRemoveFinalizer, c
    <3>2. nt.c = c /\ nt.pc = "RemoveFinalizer"
      BY <2>4 DEF NTRemoveFinalizer, NTAt, c
    <3> HIDE DEF a, r, s
    <3>3. Accepts(s, r) => Keeps(c, r)
      BY <1>0, <2>1, <2>2, <3>2 DEF Keeps, s
    <3> QED
      BY <1>0, <2>1, <3>1, <3>3, Stored
  <2> QED
    BY <1>1, <2>3, <2>4
<1>2. CASE NTSaveGateway
  <2> DEFINE r == [s EXCEPT !.tgw = nt.gw]
  <2>1. /\ r \in ClusterRec /\ r.ready = s.ready /\ r.phase = s.phase /\ r.mode = s.mode
        /\ r.fins = s.fins /\ nt.c = c
    BY <1>0 DEF ClusterRec, c
  <2>2. (Exists(s) /\ StoreCluster(c, r)) \/ UNCHANGED cluster
    BY <1>2 DEF NTSaveGateway, c
  <2>3. Exists(s) => Names
    <3>1. Exists(s) => nt'.pc # "UpdateStatus"
      <4>1. nt \in NTWorkers
        BY Typed DEF IInv
      <4>2. Exists(s) => nt' = [nt EXCEPT !.pc = "Attach",
                                          !.obj = Refreshed(@, [s EXCEPT !.tgw = nt.gw])]
        BY <1>2 DEF NTSaveGateway, c
      <4> QED
        BY <4>1, <4>2 DEF NTWorkers
    <3>2. Names \/ Registers
      BY <1>2, NTSaves DEF IInv
    <3> QED
      BY <3>1, <3>2 DEF Registers
  <2> HIDE DEF r, s
  <2>4. Exists(s) => Keeps(c, r)
    BY <1>0, <2>1, <2>3 DEF Keeps, s, Exists, Protected
  <2> QED
    BY <1>0, <2>1, <2>2, <2>4, Stored
<1>3. CASE NTModeNotSupported
  <2> DEFINE r == [s EXCEPT !.mode = "None"]
  <2>1. /\ r \in ClusterRec /\ r.ready = s.ready /\ r.phase = s.phase /\ r.mode = "None"
        /\ r.fins = s.fins /\ r.tgw = s.tgw /\ nt.c = c
    BY <1>0 DEF ClusterRec, c, Modes
  <2>2. \/ Exists(s) /\ StoreCluster(c, r) /\ nt.pc = "Register" /\ nt.obj.mode = "unset"
        \/ UNCHANGED cluster
    BY <1>3 DEF NTModeNotSupported, NTAt, c
  <2> HIDE DEF r, s
  <2>3. Exists(s) /\ nt.pc = "Register" /\ nt.obj.mode = "unset" => Keeps(c, r)
    BY <1>0, <2>1 DEF Keeps, s, Exists, Protected
  <2> QED
    BY <1>0, <2>1, <2>2, <2>3, Stored
<1>4. CASE NTSavePrefixList
  <2> DEFINE r == [s EXCEPT !.pl = TRUE]
  <2>1. /\ r \in ClusterRec /\ r.ready = s.ready /\ r.phase = s.phase /\ r.mode = s.mode
        /\ r.fins = s.fins /\ r.tgw = s.tgw
    BY <1>0 DEF ClusterRec
  <2>2. (Exists(s) /\ StoreCluster(c, r)) \/ UNCHANGED cluster
    BY <1>4 DEF NTSavePrefixList, c
  <2> HIDE DEF r, s
  <2>3. Exists(s) => Keeps(c, r)
    BY <1>0, <2>1 DEF Keeps, s, Exists, Protected
  <2> QED
    BY <1>0, <2>1, <2>2, <2>3, Stored
<1>5. CASE NTUpdateStatus
  <2>1. StatusUpdated(c, nt.obj) /\ nt.pc = "UpdateStatus"
    BY <1>5 DEF NTUpdateStatus, NTAt, c
  <2>2. nt.obj.ready = "True" => SaysReady(c)
    BY <2>1 DEF SaysReady, c
  <2> QED
    BY <1>0, <2>1, <2>2, StatusKeeps
<1>6. ASSUME \/ NTInvalidMode \/ NTIDMissing \/ NTNoGateway \/ NTNotReady \/ NTAttach \/ NTNoVPC
             \/ NTPublish \/ NTAddToPrefixList \/ NTUnregister \/ NTRemoveFromPrefixList \/ NTDetach
             \/ NTDeleteGateway \/ (\E t \in Gateways : NTFindGateway(t) \/ NTCreateGateway(t))
             \/ NTAddAWSFinalizer \/ NTRemoveAWSFinalizer
      PROVE  UNCHANGED cluster
  BY <1>6 DEF NTInvalidMode, NTIDMissing, NTNoGateway, NTNotReady, NTAttach, NTNoVPC, NTPublish,
     NTAddToPrefixList, NTUnregister, NTRemoveFromPrefixList, NTDetach, NTDeleteGateway,
     NTFindGateway, NTCreateGateway, NTAddAWSFinalizer, NTRemoveAWSFinalizer, storeVars, storeButQueue
<1> QED
  BY <1>1, <1>2, <1>3, <1>4, <1>5, <1>6, Stored DEF NTStep

LEMMA SHKeeps ==
  ASSUME IInv, SHStep
  PROVE  \A c \in Clusters : Keeps(c, cluster'[c])
<1> DEFINE c == sh.c
           s == cluster[c]
<1>0. /\ c \in Clusters /\ s \in ClusterRec /\ sh.obj \in ClusterRec
      /\ s.ready = "True" => SaysReady(c)
  <2>1. c \in Clusters /\ s \in ClusterRec /\ sh.obj \in ClusterRec
    BY Typed DEF IInv
  <2>2. /\ ClusterLine(cached[c], feed[c], cluster[c])
        /\ feed[c] \in Seq(ClusterRec) /\ cached[c] \in ClusterRec
    BY <2>1 DEF IInv, ClusterHistory, TypeOK, StoreTypeOK
  <2> QED
    BY <2>1, <2>2, VersionsEnds DEF Seen, ClusterLine, SaysReady
<1> HIDE DEF c
<1>1. CASE SHAddFinalizer \/ SHRemoveFinalizer
  <2> DEFINE a == FinalizerAdded(s, sh.obj, "share")
             r == FinalizerRemoved(s, sh.obj, "share")
  <2>1. /\ a \in ClusterRec /\ a.ready = s.ready /\ a.phase = s.phase /\ a.mode = s.mode
        /\ a.tgw = s.tgw
        /\ r \in ClusterRec /\ r.ready = s.ready /\ r.phase = s.phase /\ r.mode = s.mode
        /\ r.tgw = s.tgw
    BY <1>0 DEF FinalizerAdded, FinalizerRemoved, PatchedFins, ClusterRec, Finalizers
  <2>2. Accepts(s, a) \/ Accepts(s, r) => s.phase # "gone"
    BY DEF Accepts, Exists
  <2>3. /\ \/ Accepts(s, a) /\ StoreCluster(c, a)
           \/ Accepts(s, r) /\ StoreCluster(c, r)
           \/ UNCHANGED cluster
        /\ sh.c = c /\ sh.pc \in {"AddFinalizer", "RemoveFinalizer"}
    BY <1>1 DEF SHAddFinalizer, SHRemoveFinalizer, SHAt, c
  <2> HIDE DEF a, r, s
  <2>4. (Accepts(s, a) => Keeps(c, a)) /\ (Accepts(s, r) => Keeps(c, r))
    BY <1>0, <2>1, <2>2, <2>3 DEF Keeps, s
  <2> QED
    BY <1>0, <2>1, <2>3, <2>4, Stored
<1>2. ASSUME \/ SHShareTransitGateway \/ SHAddAWSFinalizer \/ SHApplyGatewayShare
             \/ SHSharePrefixList \/ SHDeleteGatewayShare \/ SHDeletePrefixListShare
             \/ SHRemoveAWSFinalizer
      PROVE  UNCHANGED cluster
  BY <1>2 DEF SHShareTransitGateway, SHAddAWSFinalizer, SHApplyGatewayShare, SHSharePrefixList,
     SHDeleteGatewayShare, SHDeletePrefixListShare, SHRemoveAWSFinalizer, storeVars
<1> QED
  BY <1>1, <1>2, Stored DEF SHStep

\* CAPI and users.
LEMMA OwnersKeep ==
  ASSUME IInv, NEW c \in Clusters, Provision(c) \/ User(c)
  PROVE  \A d \in Clusters : Keeps(d, cluster'[d])
<1> DEFINE s == cluster[c]
<1>0. s \in ClusterRec /\ (s.ready = "True" => SaysReady(c))
  <2>1. s \in ClusterRec
    BY Typed DEF IInv
  <2>2. /\ ClusterLine(cached[c], feed[c], cluster[c])
        /\ feed[c] \in Seq(ClusterRec) /\ cached[c] \in ClusterRec
    BY <2>1 DEF IInv, ClusterHistory, TypeOK, StoreTypeOK
  <2> QED
    BY <2>1, <2>2, VersionsEnds DEF Seen, ClusterLine, SaysReady
<1>1. CASE DeleteCluster(c) \/ CollectCluster(c)
  <2> DEFINE d == [s EXCEPT !.phase = "deleting"]
             g == [s EXCEPT !.phase = "gone"]
  <2>1. /\ d \in ClusterRec /\ d.phase = "deleting" /\ d.fins = s.fins /\ d.mode = s.mode
        /\ d.tgw = s.tgw /\ d.ready = s.ready
        /\ g \in ClusterRec /\ g.phase = "gone" /\ g.fins = s.fins /\ g.mode = s.mode
        /\ g.tgw = s.tgw /\ g.ready = s.ready
    BY <1>0 DEF ClusterRec, Phases
  <2>2. \/ c \in Churn /\ s.phase = "live" /\ StoreCluster(c, d)
        \/ s.phase = "deleting" /\ s.fins = {} /\ StoreCluster(c, g)
    BY <1>1 DEF DeleteCluster, CollectCluster
  <2> HIDE DEF d, g, s
  <2>3. /\ c \in Churn /\ s.phase = "live" => Keeps(c, d)
        /\ s.phase = "deleting" /\ s.fins = {} => Keeps(c, g)
    BY <1>0, <2>1 DEF Keeps, s, Protected
  <2> QED
    BY <2>1, <2>2, <2>3, Stored
<1>2. CASE ChangeMode(c)
  <2>1. PICK m \in Modes : /\ <<s.mode, m>> \in ModeChanges /\ s.phase = "live"
                           /\ StoreCluster(c, [s EXCEPT !.mode = m])
    BY <1>2 DEF ChangeMode
  <2> DEFINE r == [s EXCEPT !.mode = m]
  <2>2. /\ r \in ClusterRec /\ r.phase = s.phase /\ r.fins = s.fins
        /\ r.tgw = s.tgw /\ r.ready = s.ready /\ r.mode = m
    BY <1>0 DEF ClusterRec
  <2>3. StoreCluster(c, r)
    BY <2>1
  <2> HIDE DEF r, s
  <2>4. Keeps(c, r)
    BY <1>0, <2>1, <2>2, <2>3 DEF Keeps, s, Protected
  <2> QED
    BY <2>2, <2>3, <2>4, Stored
<1>3. CASE TogglePause(c)
  <2> DEFINE r == [s EXCEPT !.paused = ~@]
  <2>1. /\ r \in ClusterRec /\ r.phase = s.phase /\ r.fins = s.fins /\ r.mode = s.mode
        /\ r.tgw = s.tgw /\ r.ready = s.ready
    BY <1>0 DEF ClusterRec
  <2>2. Exists(s) /\ StoreCluster(c, r)
    BY <1>3 DEF TogglePause
  <2> HIDE DEF r, s
  <2>3. Keeps(c, r)
    BY <1>0, <2>1, <2>2 DEF Keeps, s, Protected, Exists
  <2> QED
    BY <2>1, <2>2, <2>3, Stored
<1>4. CASE \/ CreateAWSCluster(c) \/ VPCReady(c) \/ DeleteAWSCluster(c) \/ RemoveInfrastructure(c)
  <2>1. UNCHANGED cluster
    BY <1>4 DEF CreateAWSCluster, VPCReady, DeleteAWSCluster, RemoveInfrastructure, CollectAWSCluster
  <2> QED
    BY <2>1, Stored
<1> QED
  BY <1>1, <1>2, <1>3, <1>4 DEF Provision, User

LEMMA ClusterKeeps ==
  ASSUME IInv, [Next]_vars
  PROVE  \A c \in Clusters : Keeps(c, cluster'[c])
<1>1. CASE NTWork \/ SHWork
  BY <1>1, NTKeeps, SHKeeps DEF NTWork, SHWork
<1>2. CASE UNCHANGED cluster
  BY <1>2, Stored
<1>3. ASSUME NEW c \in Clusters, NTTake(c) PROVE \A d \in Clusters : Keeps(d, cluster'[d])
  <2> DEFINE x == cached[c]
             fresh == [x EXCEPT !.ready = IF @ = "none" THEN "InProgress" ELSE @]
  <2>1. x \in ClusterRec /\ x \in Seen(c)
    <3>1. feed[c] \in Seq(ClusterRec) /\ cached[c] \in ClusterRec
      BY DEF IInv, TypeOK, StoreTypeOK
    <3> QED
      BY <3>1, VersionsEnds DEF Seen
  <2>2. fresh \in ClusterRec /\ (fresh.ready = "True" => x.ready = "True")
    BY <2>1 DEF ClusterRec, Conditions
  <2>3. StatusUpdated(c, fresh) \/ UNCHANGED cluster
    BY <1>3 DEF NTTake, NTGet
  <2> HIDE DEF fresh
  <2> QED
    BY <1>2, <2>1, <2>2, <2>3, StatusKeeps DEF SaysReady
<1>4. ASSUME NEW c \in Clusters, Provision(c) \/ User(c)
      PROVE  \A d \in Clusters : Keeps(d, cluster'[d])
  BY <1>4, OwnersKeep
<1>5. ASSUME NEW c \in Clusters, SHTake(c) \/ Deliver(c)
      PROVE  UNCHANGED cluster
  BY <1>5 DEF SHTake, SHGet, Deliver, DeliverCluster, DeliverAWS
<1>6. ASSUME \/ Fault \/ Restart \/ UNCHANGED vars \/ \E t \in Gateways : AWS(t)
      PROVE  UNCHANGED cluster
  BY <1>6
  DEF Fault, NTFault, NTAWSReadFails, SHFault, SHAWSReadFails, Restart, Relist, vars, storeVars, AWS
<1> QED
  BY <1>1, <1>2, <1>3, <1>4, <1>5, <1>6 DEF Next

LEMMA AWSPatchFins ==
  ASSUME NEW x \in AWSRec, NEW base \in AWSRec, NEW f \in Finalizers
  PROVE  LET a == FinalizerAdded(x, base, f)
             r == FinalizerRemoved(x, base, f)
         IN  /\ f \in base.fins => a.fins = x.fins
             /\ f \notin base.fins => \A g : g \in a.fins <=> g \in base.fins \/ g = f
             /\ f \notin base.fins => r.fins = x.fins
             /\ f \in base.fins => \A g : g \in r.fins <=> g \in base.fins /\ g # f
<1>1. base.fins \cup {f} = base.fins <=> f \in base.fins
  OBVIOUS
<1>2. base.fins \ {f} = base.fins <=> f \notin base.fins
  OBVIOUS
<1> QED
  BY <1>1, <1>2 DEF FinalizerAdded, FinalizerRemoved, PatchedFins, AWSRec

LEMMA WorkersKeepAWS ==
  ASSUME IInv, NTStep \/ SHStep
  PROVE  \A c \in Clusters : KeepsAWS(c, awsCluster'[c])
<1>0. /\ nt.c \in Clusters /\ sh.c \in Clusters
      /\ \A c \in Clusters : awsCluster[c] \in AWSRec /\ cachedAWS[c] \in AWSRec
  BY Typed DEF IInv
<1>1. CASE NTAddAWSFinalizer \/ NTRemoveAWSFinalizer
  <2>0. PICK c \in Clusters, s \in AWSRec, x \in AWSRec :
          c = nt.c /\ s = awsCluster[c] /\ x = cachedAWS[c]
    BY <1>0
  <2> DEFINE a == FinalizerAdded(s, x, "nettop")
             r == FinalizerRemoved(s, x, "nettop")
  <2>1. \/ Accepts(s, a) /\ StoreAWS(c, a) /\ nt.pc = "AddAWSFinalizer" /\ Exists(x)
        \/ Accepts(s, r) /\ StoreAWS(c, r) /\ nt.pc = "RemoveAWSFinalizer"
        \/ UNCHANGED awsCluster
    BY <1>1, <2>0 DEF NTAddAWSFinalizer, NTRemoveAWSFinalizer, NTAt
  <2>2. "nettop" \in Finalizers /\ "share" # "nettop"
    BY DEF Finalizers
  <2>3. a \in AWSRec /\ r \in AWSRec
    BY <2>0, <2>2, AWSPatchTypes
  <2>4. a.phase = s.phase /\ r.phase = s.phase
    BY <2>0, <2>2, AWSPatchKeeps
  <2>5. "nettop" \in x.fins => a.fins = s.fins
    BY <2>0, <2>2, AWSPatchFins
  <2>6. "nettop" \notin x.fins => "nettop" \in a.fins /\ ("share" \in a.fins => "share" \in x.fins)
    BY <2>0, <2>2, AWSPatchFins
  <2>7. "nettop" \notin x.fins => r.fins = s.fins
    BY <2>0, <2>2, AWSPatchFins
  <2>8. "nettop" \in x.fins => "nettop" \notin r.fins /\ ("share" \in r.fins => "share" \in x.fins)
    BY <2>0, <2>2, AWSPatchFins
  <2>9. (Accepts(s, a) \/ Accepts(s, r)) => Exists(s)
    BY DEF Accepts
  <2> HIDE DEF a, r
  <2>10. Exists(s) /\ nt.pc = "AddAWSFinalizer" /\ Exists(x) => KeepsAWS(c, a)
    BY <2>0, <2>4, <2>5, <2>6 DEF KeepsAWS, Exists, Protected
  <2>11. Exists(s) /\ nt.pc = "RemoveAWSFinalizer" => KeepsAWS(c, r)
    BY <2>0, <2>4, <2>7, <2>8 DEF KeepsAWS, Exists, Protected
  <2> QED
    BY <2>0, <2>1, <2>3, <2>9, <2>10, <2>11, Stored
<1>2. CASE SHAddAWSFinalizer \/ SHRemoveAWSFinalizer
  <2>0. PICK c \in Clusters, s \in AWSRec, x \in AWSRec :
          c = sh.c /\ s = awsCluster[c] /\ x = cachedAWS[c]
    BY <1>0
  <2> DEFINE a == FinalizerAdded(s, x, "share")
             r == FinalizerRemoved(s, x, "share")
  <2>1. \/ Accepts(s, a) /\ StoreAWS(c, a) /\ sh.pc = "AddAWSFinalizer"
        \/ Accepts(s, r) /\ StoreAWS(c, r) /\ sh.pc = "RemoveAWSFinalizer"
        \/ UNCHANGED awsCluster
    BY <1>2, <2>0 DEF SHAddAWSFinalizer, SHRemoveAWSFinalizer, SHAt
  <2>2. "share" \in Finalizers
    BY DEF Finalizers
  <2>3. a \in AWSRec /\ r \in AWSRec
    BY <2>0, <2>2, AWSPatchTypes
  <2>4. a.phase = s.phase /\ r.phase = s.phase
    BY <2>0, <2>2, AWSPatchKeeps
  <2>5. "share" \notin x.fins => r.fins = s.fins
    BY <2>0, <2>2, AWSPatchFins
  <2>6. (Accepts(s, a) \/ Accepts(s, r)) => Exists(s)
    BY DEF Accepts
  <2> HIDE DEF a, r
  <2>7. Exists(s) /\ sh.pc = "AddAWSFinalizer" => KeepsAWS(c, a)
    BY <2>0, <2>4 DEF KeepsAWS, Exists, SharesFinalizer
  <2>8. Exists(s) /\ sh.pc = "RemoveAWSFinalizer" => KeepsAWS(c, r)
    BY <2>0, <2>4, <2>5 DEF KeepsAWS, Exists, Protected, SharesFinalizer
  <2> QED
    BY <2>0, <2>1, <2>3, <2>6, <2>7, <2>8, Stored
<1>3. ASSUME \/ NTInvalidMode \/ NTIDMissing \/ NTNoGateway \/ NTNotReady \/ NTAttach \/ NTNoVPC
             \/ NTPublish \/ NTAddToPrefixList \/ NTUnregister \/ NTRemoveFromPrefixList \/ NTDetach
             \/ NTDeleteGateway \/ (\E t \in Gateways : NTFindGateway(t) \/ NTCreateGateway(t))
             \/ NTAddFinalizer \/ NTRemoveFinalizer \/ NTModeNotSupported \/ NTSaveGateway
             \/ NTSavePrefixList \/ NTUpdateStatus
      PROVE  UNCHANGED awsCluster
  BY <1>3 DEF NTInvalidMode, NTIDMissing, NTNoGateway, NTNotReady, NTAttach, NTNoVPC, NTPublish,
     NTAddToPrefixList, NTUnregister, NTRemoveFromPrefixList, NTDetach, NTDeleteGateway,
     NTFindGateway, NTCreateGateway, NTAddFinalizer, NTRemoveFinalizer, NTModeNotSupported,
     NTSaveGateway, NTSavePrefixList, NTUpdateStatus, storeVars, storeButQueue, storeButCluster
<1>4. ASSUME \/ SHShareTransitGateway \/ SHAddFinalizer \/ SHApplyGatewayShare \/ SHSharePrefixList
             \/ SHDeleteGatewayShare \/ SHDeletePrefixListShare \/ SHRemoveFinalizer
      PROVE  UNCHANGED awsCluster
  BY <1>4 DEF SHShareTransitGateway, SHAddFinalizer, SHApplyGatewayShare, SHSharePrefixList,
     SHDeleteGatewayShare, SHDeletePrefixListShare, SHRemoveFinalizer, storeVars
<1> QED
  BY <1>1, <1>2, <1>3, <1>4, Stored DEF NTStep, SHStep

LEMMA AWSKeeps ==
  ASSUME IInv, [Next]_vars
  PROVE  \A c \in Clusters : KeepsAWS(c, awsCluster'[c])
<1>1. CASE NTWork \/ SHWork
  BY <1>1, WorkersKeepAWS DEF NTWork, SHWork
<1>2. CASE UNCHANGED awsCluster
  BY <1>2, Stored
<1>3. ASSUME NEW c \in Clusters, Provision(c) PROVE \A d \in Clusters : KeepsAWS(d, awsCluster'[d])
  <2> DEFINE s == awsCluster[c]
             new == [NoAWSCluster EXCEPT !.phase = "live"]
             up == [s EXCEPT !.vpc = TRUE]
             del == [s EXCEPT !.phase = "deleting"]
             gone == [s EXCEPT !.phase = "gone"]
  <2>0. s \in AWSRec
    BY Typed DEF IInv
  <2>1. /\ new \in AWSRec /\ new.phase = "live" /\ new.fins = {}
        /\ up \in AWSRec /\ up.phase = s.phase /\ up.fins = s.fins
        /\ del \in AWSRec /\ del.phase = "deleting" /\ del.fins = s.fins
        /\ gone \in AWSRec /\ gone.phase = "gone" /\ gone.fins = s.fins
    BY <2>0 DEF AWSRec, Phases, NoAWSCluster
  <2>2. \/ s.phase = "none" /\ StoreAWS(c, new)
        \/ s.phase = "live" /\ StoreAWS(c, up)
        \/ s.phase = "live" /\ StoreAWS(c, del)
        \/ s.phase = "deleting" /\ s.fins = {} /\ StoreAWS(c, gone)
        \/ UNCHANGED awsCluster
    BY <1>3 DEF Provision, CreateAWSCluster, VPCReady, DeleteAWSCluster, RemoveInfrastructure,
       CollectAWSCluster, CollectCluster
  <2> HIDE DEF s, new, up, del, gone
  <2>3. /\ s.phase = "none" => KeepsAWS(c, new)
        /\ s.phase = "live" => KeepsAWS(c, up) /\ KeepsAWS(c, del)
        /\ s.phase = "deleting" /\ s.fins = {} => KeepsAWS(c, gone)
    BY <2>1 DEF KeepsAWS, s, Exists, Protected
  <2> QED
    BY <2>1, <2>2, <2>3, Stored
<1>4. ASSUME NEW c \in Clusters, NTTake(c) \/ SHTake(c) \/ Deliver(c) \/ User(c)
      PROVE  UNCHANGED awsCluster
  BY <1>4 DEF NTTake, NTGet, SHTake, SHGet, Deliver, DeliverCluster, DeliverAWS, User, DeleteCluster,
     ChangeMode, TogglePause
<1>5. ASSUME \/ Fault \/ Restart \/ UNCHANGED vars \/ \E t \in Gateways : AWS(t)
      PROVE  UNCHANGED awsCluster
  BY <1>5
  DEF Fault, NTFault, NTAWSReadFails, SHFault, SHAWSReadFails, Restart, Relist, vars, storeVars, AWS
<1> QED
  BY <1>1, <1>2, <1>3, <1>4, <1>5 DEF Next

\* The cache goes forward.
LEMMA CacheFollows ==
  ASSUME IInv, [Next]_vars, NEW c \in Clusters
  PROVE  AWSFollows(cachedAWS[c], cachedAWS'[c])
<1>1. /\ AWSLine(cachedAWS[c], awsFeed[c], awsCluster[c])
      /\ cachedAWS \in [Clusters -> AWSRec] /\ awsCluster \in [Clusters -> AWSRec]
      /\ awsFeed[c] \in Seq(AWSRec)
  BY DEF IInv, AWSHistory, TypeOK, StoreTypeOK
<1>2. AWSMoves
  BY StoreMoves DEF IInv
<1>3. CASE UNCHANGED cachedAWS
  BY <1>3, FollowsTransitive
<1>4. ASSUME NEW d \in Clusters, awsFeed[d] # <<>>,
             cachedAWS' = [cachedAWS EXCEPT ![d] = Head(awsFeed[d])]
      PROVE  AWSFollows(cachedAWS[c], cachedAWS'[c])
  <2>1. CASE d # c
    BY <1>1, <1>4, <2>1, FollowsTransitive
  <2>2. CASE d = c
    <3>1. Len(awsFeed[c]) \in Nat \ {0} /\ Head(awsFeed[c]) = awsFeed[c][1]
      BY <1>1, <1>4, <2>2, VersionTail
    <3>2. 0 \in 0..Len(awsFeed[c]) /\ 1 \in 0..Len(awsFeed[c])
      BY <3>1
    <3>3. AWSFollows(Version(cachedAWS[c], awsFeed[c], 0), Version(cachedAWS[c], awsFeed[c], 1))
      BY <1>1, <3>2 DEF AWSLine
    <3> QED
      BY <1>1, <1>4, <2>2, <3>1, <3>3 DEF Version
  <2> QED
    BY <2>1, <2>2
<1>5. CASE cachedAWS' = awsCluster
  BY <1>1, <1>5, AWSEnds
<1> QED
  BY <1>2, <1>3, <1>4, <1>5 DEF AWSMoves

LEMMA SHMoves ==
  ASSUME TypeOK, [Next]_vars
  PROVE  \/ sh' = sh \/ sh'.pc = "idle"
         \/ /\ sh'.c = sh.c /\ sh.pc # "idle" /\ sh'.obj.tgw \in {sh.obj.tgw, cluster[sh.c].tgw}
            /\ sh'.pc \in SHAddStages => \/ sh.pc \in SHAddStages
                                         \/ /\ sh.obj.tgw # NoGateway
                                            /\ GatewayAccount[sh.obj.tgw] # Account[sh.c]
         \/ \E c \in Clusters : sh'.c = c /\ sh'.obj = cached[c] /\ sh'.pc \notin SHAddStages
<1>0. /\ sh \in [pc: SHStages, c: Clusters, obj: ClusterRec]
      /\ cluster[sh.c] \in ClusterRec /\ sh.obj \in ClusterRec
  BY Typed DEF TypeOK, SHTypeOK
<1>1. ASSUME SHRetry \/ SHDone \/ sh' = SHIdle PROVE sh'.pc = "idle"
  BY <1>1 DEF SHRetry, SHDone, SHIdle
<1>2. CASE SHStep
  <2>1. CASE SHShareTransitGateway
    BY <1>0, <1>1, <2>1 DEF SHShareTransitGateway, SHGoto, SHAt, SHAddStages
  <2>2. CASE SHAddFinalizer
    <3> DEFINE a == FinalizerAdded(cluster[sh.c], sh.obj, "share")
               o == Refreshed(sh.obj, a)
    <3>1. a.tgw = cluster[sh.c].tgw /\ a \in ClusterRec
      BY <1>0 DEF FinalizerAdded, PatchedFins, ClusterRec, Finalizers
    <3>2. sh.pc = "AddFinalizer" /\ (SHRetry \/ sh' = [sh EXCEPT !.pc = "AddAWSFinalizer", !.obj = o])
      BY <2>2 DEF SHAddFinalizer, SHAt
    <3> HIDE DEF a
    <3>3. o.tgw = a.tgw
      BY <3>1 DEF Refreshed, ClusterRec
    <3> HIDE DEF o
    <3> QED
      BY <1>0, <1>1, <3>1, <3>2, <3>3 DEF SHAddStages
  <2>3. CASE SHAddAWSFinalizer
    BY <1>0, <1>1, <2>3 DEF SHAddAWSFinalizer, SHGoto, SHAt, SHAddStages
  <2>4. CASE SHApplyGatewayShare
    BY <1>0, <1>1, <2>4 DEF SHApplyGatewayShare, SHGoto, SHAt, SHAddStages
  <2>5. CASE SHSharePrefixList \/ SHRemoveFinalizer
    BY <1>1, <2>5 DEF SHSharePrefixList, SHRemoveFinalizer
  <2>6. CASE SHDeleteGatewayShare \/ SHDeletePrefixListShare
    BY <1>0, <1>1, <2>6 DEF SHDeleteGatewayShare, SHDeletePrefixListShare, SHGoto, SHAt, SHAddStages
  <2>7. CASE SHRemoveAWSFinalizer
    BY <1>0, <1>1, <2>7 DEF SHRemoveAWSFinalizer, SHGoto, SHAt, SHAddStages
  <2> QED
    BY <1>2, <2>1, <2>2, <2>3, <2>4, <2>5, <2>6, <2>7 DEF SHStep
<1>3. ASSUME NEW c \in Clusters, SHGet(c)
      PROVE  sh'.pc = "idle" \/ (sh'.c = c /\ sh'.obj = cached[c] /\ sh'.pc \notin SHAddStages)
  BY <1>1, <1>3 DEF SHGet, SHFirst, SHAddStages
<1>4. CASE NTWork \/ UNCHANGED vars \/ Restart
  BY <1>1, <1>4 DEF NTWork, vars, Restart
<1>5. CASE Fault
  <2>1. CASE sh' = sh \/ SHFault
    BY <1>1, <2>1 DEF SHFault
  <2>2. CASE SHAWSReadFails
    BY <1>0, <2>2 DEF SHAWSReadFails, SHGoto, SHAt, SHAddStages
  <2> QED
    BY <1>5, <2>1, <2>2 DEF Fault
<1>6. ASSUME NEW c \in Clusters, NTTake(c) \/ Deliver(c) \/ Provision(c) \/ User(c)
      PROVE  sh' = sh
  BY <1>6 DEF NTTake, Deliver, Provision, User
<1>7. ASSUME NEW t \in Gateways, AWS(t)
      PROVE  sh' = sh
  BY <1>7 DEF AWS
<1> QED
  BY <1>2, <1>3, <1>4, <1>5, <1>6, <1>7 DEF Next, SHWork, SHTake

-----------------------------------------------------------------------------
(* Names of gateways.                                                       *)

LEMMA TgwSticks ==
  ASSUME IInv, NamingInv, [Next]_vars, NEW c \in Clusters
  PROVE  /\ cluster[c].tgw # NoGateway => cluster'[c].tgw = cluster[c].tgw
         /\ \/ cluster'[c].tgw = cluster[c].tgw
            \/ nt.c = c /\ Names /\ cluster'[c].tgw = nt.gw
<1>1. Keeps(c, cluster'[c]) /\ cluster[c] \in ClusterRec /\ nt.gw \in Gateways \cup {NoGateway}
  BY ClusterKeeps, Typed DEF IInv, NTWorkers
<1>2. nt.c = c /\ Names => cluster'[c].tgw = nt.gw /\ cluster[c].tgw \in {NoGateway, nt.gw}
  BY <1>1 DEF Names, NamingInv, ClusterRec
<1> QED
  BY <1>1, <1>2 DEF Keeps

LEMMA NamingStep ==
  ASSUME IInv, IInv', NamingInv, [Next]_vars
  PROVE  NamingInv'
<1>0. /\ nt.c \in Clusters /\ sh.c \in Clusters /\ TypeOK
  BY Typed DEF IInv
<1>1. ASSUME NEW c \in Clusters, NEW t, t \in {NoGateway, cluster[c].tgw}
      PROVE  t \in {NoGateway, cluster'[c].tgw}
  BY <1>1, TgwSticks
<1>2. ASSUME NEW c \in Clusters, NEW x \in Seen(c)'
      PROVE  x.tgw \in {NoGateway, cluster'[c].tgw}
  <2>1. x \in Seen(c) \/ x = cluster'[c]
    BY <1>2, SeenMoves
  <2>2. x \in Seen(c) => x.tgw \in {NoGateway, cluster[c].tgw}
    BY DEF NamingInv
  <2> QED
    BY <1>1, <2>1, <2>2
<1>3. nt'.pc # "idle" => nt'.obj.tgw \in {NoGateway, cluster'[nt'.c].tgw}
  <2>1. nt.pc # "idle" => nt.obj.tgw \in {NoGateway, cluster[nt.c].tgw}
    BY DEF NamingInv
  <2>2. CASE nt' = nt
    BY <1>0, <1>1, <2>1, <2>2
  <2>3. CASE GoesOn \/ Unregisters \/ Registers
    <3>1. nt.pc # "idle" /\ nt'.c = nt.c /\ nt'.obj.tgw \in {NoGateway, cluster[nt.c].tgw}
      BY <2>1, <2>3 DEF GoesOn, Onward, Unregisters, Registers, RegisterStages
    <3> QED
      BY <1>0, <1>1, <3>1
  <2>4. CASE Protects
    BY <1>0, <1>1, <2>4 DEF Protects
  <2>5. CASE Names
    BY <1>0, <2>5, TgwSticks, ClusterKeeps, Typed DEF Names, ClusterRec
  <2>6. ASSUME NEW t \in Gateways, Settles(t)
        PROVE  nt'.obj.tgw \in {NoGateway, cluster'[nt'.c].tgw}
    <3>1. nt'.c = nt.c /\ nt'.obj = nt.obj /\ nt.pc # "idle"
      BY <2>6 DEF Settles
    <3> QED
      BY <1>0, <1>1, <2>1, <3>1
  <2>7. ASSUME NEW c \in Clusters, Takes(c)
        PROVE  nt'.obj.tgw \in {NoGateway, cluster'[nt'.c].tgw}
    <3>1. cached[c] \in Seen(c) /\ nt'.c = c /\ nt'.obj.tgw = cached[c].tgw
      BY <2>7, SeenMoves DEF Takes
    <3>2. cached[c].tgw \in {NoGateway, cluster[c].tgw}
      BY <3>1 DEF NamingInv
    <3> QED
      BY <1>1, <3>1, <3>2
  <2> QED
    BY <1>0, <2>2, <2>3, <2>4, <2>5, <2>6, <2>7, WorkerMoves DEF Ends
<1>4. sh'.pc # "idle" => sh'.obj.tgw \in {NoGateway, cluster'[sh'.c].tgw}
  <2>1. sh.pc # "idle" => sh.obj.tgw \in {NoGateway, cluster[sh.c].tgw}
    BY DEF NamingInv
  <2>2. CASE sh' = sh
    BY <1>0, <1>1, <2>1, <2>2
  <2>3. CASE sh'.c = sh.c /\ sh.pc # "idle" /\ sh'.obj.tgw \in {sh.obj.tgw, cluster[sh.c].tgw}
    BY <1>0, <1>1, <2>1, <2>3
  <2>4. ASSUME NEW c \in Clusters, sh'.c = c, sh'.obj = cached[c]
        PROVE  sh'.obj.tgw \in {NoGateway, cluster'[sh'.c].tgw}
    <3>1. cached[c] \in Seen(c)
      BY SeenMoves
    <3>2. cached[c].tgw \in {NoGateway, cluster[c].tgw}
      BY <3>1 DEF NamingInv
    <3> QED
      BY <1>1, <2>4, <3>2
  <2> QED
    BY <1>0, <2>2, <2>3, <2>4, SHMoves
<1>5. nt'.pc \in {"AddAWSFinalizer"} \cup RegisterStages => nt'.obj.tgw = cluster'[nt'.c].tgw
  <2> DEFINE after == {"AddAWSFinalizer"} \cup RegisterStages
  <2>1. nt.pc \in after => nt.obj.tgw = cluster[nt.c].tgw
    BY DEF NamingInv
  <2>2. ~Names => cluster'[nt.c].tgw = cluster[nt.c].tgw
    BY <1>0, TgwSticks
  <2>3. CASE nt' = nt
    <3>1. ~Names
      BY <2>3 DEF Names
    <3> QED
      BY <2>1, <2>2, <2>3, <3>1
  <2>4. CASE GoesOn
    <3>1. ~Names /\ nt'.c = nt.c /\ nt'.obj = nt.obj /\ (nt'.pc \in after => nt.pc \in after)
      BY <2>4 DEF GoesOn, Onward, Names, RegisterStages
    <3> QED
      BY <2>1, <2>2, <3>1
  <2>5. CASE Protects
    <3>1. ~Names
      BY <2>5 DEF Protects, Names
    <3> QED
      BY <2>2, <2>5, <3>1 DEF Protects
  <2>6. CASE Names
    <3>1. cluster[nt.c] \in ClusterRec /\ nt.gw \in Gateways \cup {NoGateway}
      BY <1>0, Typed DEF NTWorkers
    <3> QED
      BY <2>6, <3>1 DEF Names, ClusterRec
  <2>7. CASE Registers
    <3>1. ~Names /\ nt.pc \in after /\ nt'.c = nt.c /\ nt'.obj.tgw \in {nt.obj.tgw, cluster[nt.c].tgw}
      BY <2>7 DEF Registers, Names
    <3> QED
      BY <2>1, <2>2, <3>1
  <2>8. ASSUME NEW t \in Gateways, Settles(t)
        PROVE  nt'.obj.tgw = cluster'[nt'.c].tgw
    <3>1. nt.pc \in after /\ nt'.c = nt.c /\ nt'.obj = nt.obj /\ UNCHANGED cluster
      BY <2>8 DEF Settles, RegisterStages
    <3> QED
      BY <2>1, <3>1
  <2>9. CASE Ends \/ Unregisters \/ \E c \in Clusters : Takes(c)
    BY <2>9 DEF Ends, Unregisters, Takes, RegisterStages
  <2> QED
    BY <1>0, <2>3, <2>4, <2>5, <2>6, <2>7, <2>8, <2>9, WorkerMoves
<1>6. nt'.pc = "SaveGateway" => cluster'[nt'.c].tgw \in {NoGateway, nt'.gw}
  <2>1. CASE nt' = nt
    <3>1. ~Names
      BY <2>1 DEF Names
    <3> QED
      BY <1>0, <2>1, <3>1, TgwSticks DEF NamingInv
  <2>2. ASSUME NEW t \in Gateways, Settles(t)
        PROVE  cluster'[nt'.c].tgw \in {NoGateway, nt'.gw}
    <3>1. /\ nt.pc \in RegisterStages /\ nt'.c = nt.c /\ nt'.gw = t /\ UNCHANGED cluster
          /\ nt.obj.tgw \in {NoGateway, t}
      BY <2>2 DEF Settles, RegisterStages
    <3>2. nt.obj.tgw = cluster[nt.c].tgw
      BY <3>1 DEF NamingInv
    <3> QED
      BY <3>1, <3>2
  <2>3. ASSUME \/ Ends \/ GoesOn \/ Protects \/ Names \/ Registers \/ Unregisters
               \/ \E c \in Clusters : Takes(c)
        PROVE  nt'.pc # "SaveGateway"
    BY <2>3 DEF Ends, GoesOn, Onward, Protects, Names, Registers, Unregisters, Takes
  <2> QED
    BY <1>0, <2>1, <2>2, <2>3, WorkerMoves
<1>7. nt'.pc \in ConnectStages => cluster'[nt'.c].tgw = nt'.gw
  <2>1. CASE nt' = nt
    <3>1. ~Names
      BY <2>1 DEF Names
    <3> QED
      BY <1>0, <2>1, <3>1, TgwSticks DEF NamingInv
  <2>2. CASE GoesOn
    <3>1. ~Names /\ nt'.c = nt.c /\ nt'.gw = nt.gw
          /\ (nt'.pc \in ConnectStages => nt.pc \in ConnectStages)
      BY <2>2 DEF GoesOn, Onward, Names, ConnectStages
    <3> QED
      BY <1>0, <3>1, TgwSticks DEF NamingInv
  <2>3. CASE Names
    <3>1. cluster[nt.c] \in ClusterRec /\ nt.gw \in Gateways \cup {NoGateway}
      BY <1>0, Typed DEF NTWorkers
    <3> QED
      BY <2>3, <3>1 DEF Names, ClusterRec
  <2>4. ASSUME \/ Ends \/ Protects \/ Registers \/ Unregisters \/ (\E t \in Gateways : Settles(t))
               \/ \E c \in Clusters : Takes(c)
        PROVE  nt'.pc \notin ConnectStages
    BY <2>4 DEF Ends, Protects, Registers, Unregisters, Settles, Takes, ConnectStages
  <2> QED
    BY <1>0, <2>1, <2>2, <2>3, <2>4, WorkerMoves
<1> QED
  BY <1>2, <1>3, <1>4, <1>5, <1>6, <1>7 DEF NamingInv

-----------------------------------------------------------------------------
(* The other parts that hold whatever the management cluster's life.        *)

LEMMA BareStep ==
  ASSUME IInv, IInv', BareInv, [Next]_vars
  PROVE  BareInv'
<1>1. ASSUME NEW c \in Clusters, cluster'[c].phase = "gone" PROVE cluster'[c].fins = {}
  BY <1>1, ClusterKeeps DEF BareInv, Keeps
<1>2. ASSUME NEW c \in Clusters, NEW x \in SeenAWS(c)', ~Exists(x) PROVE x.fins = {}
  <2>1. x \in SeenAWS(c) \/ x = awsCluster'[c]
    BY <1>2, SeenMoves
  <2>2. awsCluster[c] \in SeenAWS(c) /\ KeepsAWS(c, awsCluster'[c])
    BY SeenMoves, AWSKeeps
  <2> QED
    BY <1>2, <2>1, <2>2 DEF BareInv, KeepsAWS
<1> QED
  BY <1>1, <1>2 DEF BareInv

\* Whoever is being registered is there.
LEMMA RegisteredExists ==
  ASSUME IInv, BareInv, nt.pc \in RegisterStages
  PROVE  Exists(cluster[nt.c])
<1>1. nt.c \in Clusters /\ Protected(cluster[nt.c])
  BY Typed DEF IInv, NTInv
<1>2. cluster[nt.c] \in ClusterRec /\ cluster[nt.c].phase # "none"
  BY <1>1, Known
<1> QED
  BY <1>1, <1>2 DEF BareInv, Protected, ClusterRec, Phases, Exists

LEMMA FaultsGrow ==
  ASSUME TypeOK, [Next]_vars
  PROVE  /\ faults' >= faults /\ faults \in Nat /\ faults' \in Nat
         /\ nt.pc = "SaveGateway" /\ Exists(cluster[nt.c]) => nt' = nt \/ Names \/ faults' = faults + 1
<1>0. faults \in Nat /\ StoreAssumption
  BY DEF TypeOK, StoreTypeOK, StoreAssumption
<1>1. CASE NTWork
  <2>1. UNCHANGED faults
    BY <1>1 DEF NTWork, NTStep, NTAddFinalizer, NTAddAWSFinalizer, NTModeNotSupported, NTInvalidMode,
       NTIDMissing, NTNoGateway, NTFindGateway, NTCreateGateway, NTSaveGateway, NTNotReady, NTAttach,
       NTNoVPC, NTPublish, NTAddToPrefixList, NTSavePrefixList, NTUpdateStatus, NTUnregister,
       NTRemoveFromPrefixList, NTDetach, NTDeleteGateway, NTRemoveAWSFinalizer, NTRemoveFinalizer,
       storeVars, storeButQueue, storeButCluster
  <2>2. nt.pc = "SaveGateway" => NTSaveGateway
    BY <1>1 DEF NTWork, NTStep, NTAddFinalizer, NTAddAWSFinalizer, NTModeNotSupported, NTInvalidMode,
       NTIDMissing, NTNoGateway, NTFindGateway, NTCreateGateway, NTNotReady, NTAttach,
       NTNoVPC, NTPublish, NTAddToPrefixList, NTSavePrefixList, NTUpdateStatus, NTUnregister,
       NTRemoveFromPrefixList, NTDetach, NTDeleteGateway, NTRemoveAWSFinalizer, NTRemoveFinalizer,
       NTAt
  <2>3. NTSaveGateway /\ Exists(cluster[nt.c]) => nt'.pc = "Attach"
    BY Typed DEF NTSaveGateway, NTWorkers
  <2>4. NTSaveGateway => Names \/ Registers
    BY NTSaves
  <2>5. NTSaveGateway /\ Exists(cluster[nt.c]) => Names
    BY <2>3, <2>4 DEF Registers
  <2> QED
    BY <1>0, <2>1, <2>2, <2>5
<1>2. CASE Fault \/ Restart
  <2>1. faults' = faults + 1
    BY <1>2 DEF Fault, NTFault, NTAWSReadFails, SHFault, SHAWSReadFails, Restart, Relist
  <2> QED
    BY <1>0, <2>1
<1>3. CASE SHWork
  <2>1. UNCHANGED <<nt, faults>>
    BY <1>3 DEF SHWork, SHStep, SHShareTransitGateway, SHAddFinalizer, SHAddAWSFinalizer,
       SHApplyGatewayShare, SHSharePrefixList, SHDeleteGatewayShare, SHDeletePrefixListShare,
       SHRemoveAWSFinalizer, SHRemoveFinalizer, storeVars
  <2> QED
    BY <1>0, <2>1
<1>4. ASSUME NEW c \in Clusters, NTTake(c)
      PROVE  UNCHANGED faults /\ nt.pc # "SaveGateway"
  BY <1>4 DEF NTTake, NTGet, NTAt
<1>5. ASSUME NEW c \in Clusters, SHTake(c) \/ Deliver(c) \/ Provision(c) \/ User(c)
      PROVE  UNCHANGED <<nt, faults>>
  BY <1>5 DEF SHTake, SHGet, Deliver, DeliverCluster, DeliverAWS, Provision, CreateAWSCluster, VPCReady,
     DeleteAWSCluster, RemoveInfrastructure, CollectAWSCluster, CollectCluster, User, DeleteCluster,
     ChangeMode, TogglePause
<1>6. ASSUME UNCHANGED vars \/ \E t \in Gateways : AWS(t)
      PROVE  UNCHANGED <<nt, faults>>
  BY <1>6 DEF AWS, storeVars, vars
<1>7. UNCHANGED faults => faults' >= faults /\ faults' \in Nat
  BY <1>0
<1> QED
  BY <1>0, <1>1, <1>2, <1>3, <1>4, <1>5, <1>6, <1>7 DEF Next

LEMMA CardinalityGrows ==
  ASSUME NEW S, NEW T, NEW t, IsFiniteSet(S), T \subseteq S \cup {t}
  PROVE  IsFiniteSet(T) /\ Cardinality(T) <= Cardinality(S) + 1 /\ Cardinality(S) \in Nat
         /\ (T \subseteq S => Cardinality(T) <= Cardinality(S)) /\ Cardinality(T) \in Nat
<1>1. IsFiniteSet(S \cup {t}) /\ Cardinality(S) \in Nat
      /\ Cardinality(S \cup {t}) \in {Cardinality(S), Cardinality(S) + 1}
  <2>1. CASE t \in S
    <3>1. S \cup {t} = S
      BY <2>1
    <3> QED
      BY <3>1, FS_CardinalityType
  <2>2. CASE t \notin S
    BY <2>2, FS_AddElement, FS_CardinalityType
  <2> QED
    BY <2>1, <2>2
<1>2. /\ IsFiniteSet(T) /\ Cardinality(T) <= Cardinality(S \cup {t})
      /\ T \subseteq S => Cardinality(T) <= Cardinality(S)
  BY <1>1, FS_Subset
<1>3. Cardinality(T) \in Nat
  BY <1>2, FS_CardinalityType
<1> QED
  BY <1>1, <1>2, <1>3

LEMMA StrayStep ==
  ASSUME IInv, IInv', NamingInv, BareInv, StrayInv, [Next]_vars
  PROVE  StrayInv'
<1> DEFINE S == IF Naming THEN Unnamed \ {nt.gw} ELSE Unnamed
<1>0. /\ nt.c \in Clusters /\ MC \in Clusters /\ TypeOK
      /\ nt.pc = "SaveGateway" => nt.gw \in Gateways
      /\ IsFiniteSet(Unnamed) /\ Cardinality(S) <= faults
  BY Typed DEF IInv, StrayInv, StoreAssumption
<1>1. IsFiniteSet(S)
  BY <1>0, FS_Subset
<1>2. ASSUME NEW T, T = (IF Naming THEN Unnamed \ {nt.gw} ELSE Unnamed)',
             IsFiniteSet(Unnamed'),
             T \subseteq S \/ (T \subseteq S \cup {nt.gw} /\ faults' = faults + 1)
      PROVE  StrayInv'
  <2>1. T \subseteq S \cup {nt.gw}
    BY <1>2
  <2>2. /\ Cardinality(T) <= Cardinality(S) + 1 /\ Cardinality(S) \in Nat /\ Cardinality(T) \in Nat
        /\ T \subseteq S => Cardinality(T) <= Cardinality(S)
    BY <1>1, <2>1, CardinalityGrows
  <2>3. faults' >= faults /\ faults \in Nat /\ faults' \in Nat
    BY <1>0, FaultsGrow
  <2> HIDE DEF S
  <2>4. Cardinality(T) <= faults'
    BY <1>0, <1>2, <2>2, <2>3
  <2> QED
    BY <1>2, <2>4 DEF StrayInv
<1>3. ASSUME NEW t \in Unnamed', t \notin Unnamed
      PROVE  nt.c = MC /\ nt.pc = "Register" /\ Settles(t)
  <2>1. /\ t \in Gateways \ UserGateways /\ gateway'[t] \in {"pending", "available"}
        /\ cluster'[MC].tgw # t
    BY <1>3 DEF Unnamed
  <2>2. cluster[MC].tgw # t
    BY <1>0, <2>1, TgwSticks DEF StoreAssumption
  <2>3. gateway[t] \notin {"pending", "available"}
    BY <1>3, <2>1, <2>2 DEF Unnamed
  <2> QED
    BY <1>0, <2>1, <2>3, GatewayMoves
<1>4. IsFiniteSet(Unnamed')
  <2>1. CASE Unnamed' \subseteq Unnamed
    BY <1>0, <2>1, FS_Subset
  <2>2. CASE ~(Unnamed' \subseteq Unnamed)
    <3>1. PICK t \in Unnamed' : t \notin Unnamed
      BY <2>2
    <3>2. nt'.gw = t
      BY <1>3, <3>1 DEF Settles
    <3>3. \A u \in Unnamed' : u \notin Unnamed => u = t
      BY <1>3, <3>2 DEF Settles
    <3>4. Unnamed' \subseteq Unnamed \cup {t}
      BY <3>3
    <3> QED
      BY <1>0, <3>4, CardinalityGrows
  <2> QED
    BY <2>1, <2>2
<1>5. CASE \E t \in Gateways : Settles(t)
  <2>1. PICK t \in Gateways : Settles(t)
    BY <1>5
  <2>2. ~Naming /\ nt'.gw = t /\ nt'.pc = "SaveGateway" /\ nt'.c = nt.c
    BY <2>1 DEF Settles, Naming
  <2>3. \A u \in Unnamed' : u \notin Unnamed => u = t /\ nt.c = MC
    BY <1>3, <2>2 DEF Settles
  <2>4. (IF Naming THEN Unnamed \ {nt.gw} ELSE Unnamed)' \subseteq S
    BY <2>2, <2>3 DEF Naming
  <2> QED
    BY <1>2, <1>4, <2>4
<1>6. CASE ~\E t \in Gateways : Settles(t)
  <2>1. Unnamed' \subseteq Unnamed
    BY <1>3, <1>6 DEF Unnamed
  <2>2. CASE ~Naming
    <3>1. (IF Naming THEN Unnamed \ {nt.gw} ELSE Unnamed)' \subseteq S
      BY <2>1, <2>2
    <3> QED
      BY <1>2, <1>4, <3>1
  <2>3. CASE Naming /\ nt' = nt
    <3>1. (IF Naming THEN Unnamed \ {nt.gw} ELSE Unnamed)' \subseteq S
      BY <2>1, <2>3 DEF Naming
    <3> QED
      BY <1>2, <1>4, <3>1
  <2>4. CASE Naming /\ Names
    <3>1. cluster'[MC].tgw = nt.gw
      BY <1>0, <2>4, Typed DEF Naming, Names, ClusterRec
    <3>2. nt.gw \notin Unnamed'
      BY <3>1 DEF Unnamed
    <3>3. (IF Naming THEN Unnamed \ {nt.gw} ELSE Unnamed)' \subseteq S
      BY <2>1, <3>2
    <3> QED
      BY <1>2, <1>4, <3>3
  <2>5. CASE Naming /\ faults' = faults + 1
    <3>1. (IF Naming THEN Unnamed \ {nt.gw} ELSE Unnamed)' \subseteq S \cup {nt.gw}
      BY <2>1
    <3> QED
      BY <1>2, <1>4, <2>5, <3>1
  <2> QED
    BY <1>0, <2>2, <2>3, <2>4, <2>5, FaultsGrow, RegisteredExists DEF Naming, RegisterStages
<1> QED
  BY <1>5, <1>6

LEMMA ModeStep ==
  ASSUME AnnotationsLeftToOperator, IInv, [Next]_vars, NEW c \in Clusters
  PROVE  ModeMoves(cluster[c], cluster'[c])
<1>1. Keeps(c, cluster'[c])
  BY ClusterKeeps
<1>2. CASE <<cluster[c].mode, cluster'[c].mode>> \in ModeChanges /\ cluster[c].phase = "live"
  BY <1>2 DEF AnnotationsLeftToOperator, ModesSetOnce, ModeMoves, ModeKept
<1>3. CASE nt.c = c /\ nt.pc = "Register" /\ nt.obj.mode = "unset" /\ cluster'[c].mode = "None"
  <2>1. cluster[c].mode \in {"unset", "None"}
    BY <1>3 DEF IInv, NTInv, CopyTells
  <2> QED
    BY <1>3, <2>1 DEF ModeMoves, ModeKept
<1> QED
  BY <1>1, <1>2, <1>3 DEF Keeps, ModeMoves, ModeKept

\* A supported mode stays, and a copy that has one has the server's. Whoever has
\* read the deletion knows the mode.
LEMMA SupportedStays ==
  ASSUME AnnotationsLeftToOperator, IInv, [Next]_vars, NEW c \in Clusters,
         cluster[c].mode \in Supported
  PROVE  cluster'[c].mode = cluster[c].mode
BY ModeStep DEF ModeMoves, ModeKept, Supported

LEMMA CopyMode ==
  ASSUME IInv, nt.pc # "idle"
  PROVE  nt.obj.mode \in Supported \/ (Past(nt.obj) /\ cluster[nt.c].mode \in Supported)
           => nt.obj.mode = cluster[nt.c].mode
BY DEF IInv, NTInv, CopyTells, ModeLeads, Supported

LEMMA NTModeStep ==
  ASSUME AnnotationsLeftToOperator, IInv, IInv', NTModeInv, [Next]_vars
  PROVE  NTModeInv'
<1>0. nt.c \in Clusters /\ TypeOK
  BY Typed DEF IInv
<1>1. CASE nt' = nt
  BY <1>1 DEF NTModeInv
<1>2. CASE GoesOn
  BY <1>2 DEF GoesOn, Onward, NTModeInv, ConnectStages
<1>3. CASE Unregisters
  BY <1>3 DEF Unregisters, NTModeInv, ConnectStages
<1>4. CASE Names
  <2>1. /\ nt.pc = "SaveGateway" /\ nt'.pc = "Attach" /\ nt'.c = nt.c /\ nt'.mode = nt.mode
    BY <1>4 DEF Names
  <2>2. nt.mode = nt.obj.mode /\ nt.mode \in Supported
    BY <2>1 DEF NTModeInv
  <2>3. nt'.obj.mode = cluster[nt.c].mode
    BY <1>4 DEF Names
  <2>4. nt'.mode = nt'.obj.mode /\ nt'.mode \in Supported
    BY <2>1, <2>2, <2>3, CopyMode
  <2> QED
    BY <2>1, <2>4 DEF NTModeInv
<1>5. ASSUME NEW t \in Gateways, Settles(t) PROVE NTModeInv'
  BY <1>5 DEF Settles, NTModeInv, ConnectStages, Supported, GSM
<1>6. CASE Ends \/ Protects \/ Registers \/ \E c \in Clusters : Takes(c)
  BY <1>6 DEF Ends, Protects, Registers, Takes, NTModeInv, ConnectStages
<1> QED
  BY <1>0, <1>1, <1>2, <1>3, <1>4, <1>5, <1>6, WorkerMoves

-----------------------------------------------------------------------------
(* Who says to be ready is connected.                                       *)

\* A Cluster says that it is ready only when it did before, or when Register has
\* just come to its end.
LEMMA SaysReadyMoves ==
  ASSUME IInv, IInv', [Next]_vars, NEW c \in Clusters, SaysReady(c)'
  PROVE  SaysReady(c) \/ (nt.c = c /\ Finishes)
<1>0. cluster[c] \in Seen(c) /\ cached[c] \in Seen(c) /\ TypeOK
  BY SeenMoves DEF IInv
<1>1. ASSUME NEW x \in Seen(c)', x.ready = "True"
      PROVE  SaysReady(c)
  <2>1. x \in Seen(c) \/ x = cluster'[c]
    BY SeenMoves
  <2>2. x \in Seen(c) => SaysReady(c)
    BY <1>1 DEF SaysReady
  <2>3. cluster'[c].ready = "True" => SaysReady(c)
    BY ClusterKeeps DEF Keeps
  <2> QED
    BY <1>1, <2>1, <2>2, <2>3
<1>2. ASSUME nt'.c = c, nt'.pc # "idle", nt'.obj.ready = "True"
      PROVE  SaysReady(c) \/ (nt.c = c /\ Finishes)
  <2>1. nt' = nt => SaysReady(c)
    BY <1>2 DEF SaysReady
  <2>2. GoesOn \/ Unregisters \/ (\E t \in Gateways : Settles(t)) => SaysReady(c)
    BY <1>2 DEF GoesOn, Onward, Unregisters, Settles, SaysReady
  <2>3. Protects \/ Names => SaysReady(c)
    BY <1>0, <1>2 DEF Protects, Names, SaysReady
  <2>4. ASSUME Registers
        PROVE  SaysReady(c) \/ (nt.c = c /\ Finishes)
    BY <1>2, <2>4 DEF Registers, SaysReady, RegisterStages
  <2>5. ASSUME NEW d \in Clusters, Takes(d)
        PROVE  SaysReady(c)
    BY <1>0, <1>2, <2>5 DEF Takes, SaysReady
  <2> QED
    BY <1>0, <1>2, <2>1, <2>2, <2>3, <2>4, <2>5, WorkerMoves DEF Ends
<1> QED
  BY <1>1, <1>2 DEF SaysReady

\* Only a Cluster with a supported mode ever says so.
LEMMA ReadySupported ==
  ASSUME IInv, IInv', NTModeInv, ReadyInv, [Next]_vars, NEW c \in Clusters, SaysReady(c)'
  PROVE  cluster[c].mode \in Supported
<1>1. CASE SaysReady(c)
  BY <1>1 DEF ReadyInv
<1>2. CASE nt.c = c /\ Finishes
  <2>1. nt.pc # "idle" /\ nt.obj.mode \in Supported
    BY <1>2 DEF Finishes, NTModeInv, ConnectStages
  <2> QED
    BY <1>2, <2>1, CopyMode
<1> QED
  BY <1>1, <1>2, SaysReadyMoves

LEMMA ReadyStep ==
  ASSUME AnnotationsLeftToOperator, IInv, IInv', NamingInv, NTModeInv, ReadyInv, [Next]_vars
  PROVE  ReadyInv'
<1>0. nt.c \in Clusters /\ TypeOK /\ nt \in NTWorkers
  BY Typed DEF IInv
<1>1. ASSUME NEW c \in Clusters, cluster'[c].phase = "live", cluster'[c].mode = GSM, SaysReady(c)'
      PROVE  Connected(c)'
  <2>1. cluster[c].phase = "live" /\ cluster[c].mode = GSM
    BY <1>1, ReadySupported, ClusterKeeps, SupportedStays DEF Keeps
  <2>2. cached[c].phase \notin {"deleting", "gone"}
    BY <2>1, Known DEF ClusterFollows, Past
  <2>3. Connected(c)
    <3>1. CASE SaysReady(c)
      BY <2>1, <3>1 DEF ReadyInv
    <3>2. CASE nt.c = c /\ nt.pc = "SavePrefixList"
      BY <3>2 DEF ReadyInv, NamingInv, ConnectStages, Connected
    <3>3. CASE nt.c = c /\ (nt.pc = "Publish" \/ (nt.pc = "Attach" /\ nt.mode # GSM))
      <4>1. nt.obj.mode # GSM
        BY <3>3 DEF NTModeInv, ConnectStages
      <4>2. nt.obj.mode = GSM
        BY <2>1, <3>3, CopyMode DEF NTModeInv, ConnectStages
      <4> QED
        BY <4>1, <4>2
    <3> QED
      BY <1>1, <3>1, <3>2, <3>3, SaysReadyMoves DEF Finishes
  <2>4. ~(nt.c = c /\ nt.pc \in UnregisterStages)
    BY <2>2 DEF IInv, NTInv, Past
  <2>5. cluster'[c].tgw = cluster[c].tgw /\ cluster[c].tgw \in Gateways
    BY <2>3, TgwSticks, StoreAssumption DEF Connected
  <2>6. attachment'[cluster[c].tgw][c] \in {"pendingAcceptance", "available"}
    BY <1>0, <2>3, <2>4, <2>5, ConnectionMoves DEF Connected, UnregisterStages
  <2>7. prefixList'[Cidr[c]] = c
    BY <1>0, <2>3, <2>4, ConnectionMoves DEF Connected, UnregisterStages
  <2> QED
    BY <2>5, <2>6, <2>7 DEF Connected, Attached, HasEntry
<1>2. ASSUME nt'.pc \in {"AddToPrefixList", "SavePrefixList"}
      PROVE  /\ nt'.gw \in Gateways
             /\ attachment'[nt'.gw][nt'.c] \in {"pendingAcceptance", "available"}
             /\ nt'.pc = "SavePrefixList" => prefixList'[Cidr[nt'.c]] = nt'.c
  <2>1. CASE nt' = nt
    <3>1. /\ nt.gw \in Gateways /\ Attached(nt.gw, nt.c)
          /\ nt.pc = "SavePrefixList" => HasEntry(nt.c)
      BY <1>2, <2>1 DEF ReadyInv
    <3>2. nt.pc # "Detach" /\ nt.pc # "RemoveFromPrefixList"
      BY <1>2, <2>1
    <3> QED
      BY <1>0, <2>1, <3>1, <3>2, ConnectionMoves
  <2>2. CASE GoesOn
    <3>1. nt'.c = nt.c /\ nt'.gw = nt.gw
      BY <2>2 DEF GoesOn
    <3>2. CASE nt.pc = "Attach" /\ nt'.pc = "AddToPrefixList"
      <4>1. /\ nt.gw \in Gateways
            /\ \/ attachment'[nt.gw][nt.c] \in {"pendingAcceptance", "available"}
               \/ attachment[nt.gw][nt.c] = "deleting"
        BY <2>2, <3>2 DEF GoesOn
      <4>2. attachment[nt.gw][nt.c] # "deleting"
        BY <1>0, <3>2, <4>1 DEF IInv, DetachInv, RegisterStages
      <4> QED
        BY <3>1, <3>2, <4>1, <4>2
    <3>3. CASE nt.pc = "AddToPrefixList" /\ nt'.pc = "SavePrefixList"
      <4>1. nt.gw \in Gateways /\ Attached(nt.gw, nt.c)
        BY <3>3 DEF ReadyInv
      <4>2. attachment'[nt.gw][nt.c] \in {"pendingAcceptance", "available"}
        BY <1>0, <3>3, <4>1, ConnectionMoves
      <4> QED
        BY <2>2, <3>1, <3>3, <4>1, <4>2 DEF GoesOn
    <3> QED
      BY <1>2, <2>2, <3>2, <3>3 DEF GoesOn, Onward
  <2>3. ASSUME \/ Ends \/ Protects \/ Names \/ Registers \/ Unregisters
               \/ (\E t \in Gateways : Settles(t)) \/ \E c \in Clusters : Takes(c)
        PROVE  nt'.pc \notin {"AddToPrefixList", "SavePrefixList"}
    BY <2>3 DEF Ends, Protects, Names, Registers, Unregisters, Settles, Takes
  <2> QED
    BY <1>0, <1>2, <2>1, <2>2, <2>3, WorkerMoves
<1>3. \A c \in Clusters :
        cluster'[c].phase = "live" /\ cluster'[c].mode = GSM /\ SaysReady(c)' => Connected(c)'
  BY <1>1
<1>4. /\ (nt.pc \in {"AddToPrefixList", "SavePrefixList"} =>
            nt.gw \in Gateways /\ Attached(nt.gw, nt.c))'
      /\ (nt.pc = "SavePrefixList" => HasEntry(nt.c))'
  BY <1>2 DEF Attached, HasEntry
<1>5. \A c \in Clusters : SaysReady(c)' => cluster'[c].mode \in Supported
  BY ReadySupported, SupportedStays
<1> QED
  BY <1>3, <1>4, <1>5 DEF ReadyInv

-----------------------------------------------------------------------------
(* The management cluster's own gateway.                                    *)

LEMMA NothingToShare ==
  ASSUME IInv, MCOwnInv
  PROVE  ~SharesFinalizer(MC)
<1>1. cachedAWS[MC] \in SeenAWS(MC)
  <2>1. awsFeed[MC] \in Seq(AWSRec) /\ cachedAWS[MC] \in AWSRec
    BY StoreAssumption DEF IInv, TypeOK, StoreTypeOK
  <2> QED
    BY <2>1, VersionsEnds DEF SeenAWS
<1> QED
  BY <1>1 DEF MCOwnInv, SharesFinalizer, SHAddStages

LEMMA MCOwnStep ==
  ASSUME IInv, IInv', NamingInv, MCOwnInv, [Next]_vars
  PROVE  MCOwnInv'
<1>0. nt.c \in Clusters /\ sh.c \in Clusters /\ TypeOK /\ MC \in Clusters /\ NoGateway \notin Gateways
  BY Typed, StoreAssumption DEF IInv
<1>1. cluster'[MC].tgw # NoGateway => GatewayAccount[cluster'[MC].tgw] = Account[MC]
  BY <1>0, TgwSticks DEF MCOwnInv, Naming, Names
<1>2. Naming' => GatewayAccount[nt'.gw] = Account[MC]
  <2>1. CASE nt' = nt
    BY <2>1 DEF MCOwnInv, Naming
  <2>2. ASSUME NEW t \in Gateways, Settles(t), nt'.c = MC
        PROVE  GatewayAccount[nt'.gw] = Account[MC]
    <3>1. nt'.gw = t /\ nt.c = MC /\ nt.pc \in RegisterStages
          /\ (GatewayAccount[t] = Account[MC] \/ nt.obj.tgw = t)
      BY <2>2 DEF Settles, RegisterStages
    <3>2. nt.obj.tgw = cluster[MC].tgw
      BY <3>1 DEF NamingInv
    <3> QED
      BY <1>0, <3>1, <3>2 DEF MCOwnInv
  <2>3. ASSUME \/ Ends \/ GoesOn \/ Protects \/ Names \/ Registers \/ Unregisters
               \/ \E c \in Clusters : Takes(c)
        PROVE  nt'.pc # "SaveGateway"
    BY <2>3 DEF Ends, GoesOn, Onward, Protects, Names, Registers, Unregisters, Takes
  <2> QED
    BY <1>0, <2>1, <2>2, <2>3, WorkerMoves DEF Naming
<1>3. sh'.c = MC => sh'.pc \notin SHAddStages
  <2>1. CASE sh' = sh
    BY <2>1 DEF MCOwnInv
  <2>2. CASE /\ sh'.c = sh.c /\ sh.pc # "idle"
             /\ sh'.pc \in SHAddStages => \/ sh.pc \in SHAddStages
                                          \/ /\ sh.obj.tgw # NoGateway
                                             /\ GatewayAccount[sh.obj.tgw] # Account[sh.c]
    BY <2>2 DEF MCOwnInv, NamingInv
  <2> QED
    BY <1>0, <2>1, <2>2, SHMoves DEF SHAddStages
<1>4. ASSUME NEW x \in SeenAWS(MC)', "share" \in x.fins PROVE FALSE
  <2>1. x \in SeenAWS(MC) \/ x = awsCluster'[MC]
    BY <1>0, SeenMoves
  <2>2. awsCluster[MC] \in SeenAWS(MC) /\ cachedAWS[MC] \in SeenAWS(MC)
    BY <1>0, SeenMoves
  <2>3. KeepsAWS(MC, awsCluster'[MC])
    BY <1>0, AWSKeeps
  <2> QED
    BY <1>4, <2>1, <2>2, <2>3, NothingToShare DEF MCOwnInv, KeepsAWS
<1> QED
  BY <1>1, <1>2, <1>3, <1>4 DEF MCOwnInv

\* Once deleted, the gateway the management cluster names stays both.
LEMMA ReleasedStays ==
  ASSUME IInv, NamingInv, Released, [Next]_vars
  PROVE  Released'
<1>1. MC \in Clusters /\ TypeOK /\ cluster[MC].tgw \in Gateways /\ cluster[MC].tgw # NoGateway
      /\ gateway[cluster[MC].tgw] = "deleted"
  BY Typed, StoreAssumption DEF IInv, Released, ClusterRec
<1>2. cluster'[MC].tgw = cluster[MC].tgw
  BY <1>1, TgwSticks
<1>3. gateway'[cluster[MC].tgw] = "deleted"
  BY <1>1, GatewayMoves
<1> QED
  BY <1>1, <1>2, <1>3 DEF Released

LEMMA ManagedBefore ==
  ASSUME AnnotationsLeftToOperator, IInv, [Next]_vars, Manages'
  PROVE  Manages
<1>1. MC \in Clusters
  BY StoreAssumption
<1> QED
  BY <1>1, ModeStep, ClusterKeeps DEF Manages, ModeMoves, ModeKept, Keeps, GSM

\* Who works on the deletion of the management cluster knows that it is managed.
LEMMA DeletionManaged ==
  ASSUME IInv, Manages, nt.c = MC, nt.pc \in UnregisterStages
  PROVE  nt.obj.mode = GSM
<1>1. /\ MC \in Clusters /\ nt.pc # "idle" /\ Past(nt.obj) /\ Past(cached[MC])
  BY StoreAssumption DEF IInv, NTInv, UnregisterStages, ReleaseStages
<1>2. cluster[MC].mode = GSM
  BY <1>1, Known DEF ClusterFollows, Past, Manages
<1> QED
  BY <1>1, <1>2, CopyMode DEF Supported, GSM

\* What the worker finds when the cache has no AWSCluster of it.
LEMMA NothingToRelease ==
  ASSUME IInv, BareInv, ReleaseInv, Manages, ~Exists(cachedAWS[MC])
  PROVE  \/ Released
         \/ cluster[MC].tgw = NoGateway /\ \A x \in SeenAWS(MC) : ~Protected(x)
<1>0. /\ MC \in Clusters /\ cachedAWS[MC] \in AWSRec /\ awsFeed[MC] \in Seq(AWSRec)
      /\ AWSLine(cachedAWS[MC], awsFeed[MC], awsCluster[MC])
      /\ awsCluster[MC] \in AWSRec
  BY StoreAssumption DEF IInv, TypeOK, StoreTypeOK, AWSHistory
<1>1. ASSUME NEW x \in SeenAWS(MC), Protected(x) PROVE FALSE
  <2>1. cachedAWS[MC].phase # "none"
    BY <1>1 DEF ReleaseInv
  <2>2. cachedAWS[MC].phase = "gone"
    BY <1>0, <2>1 DEF AWSRec, Phases, Exists
  <2>3. PICK i \in 0..Len(awsFeed[MC]) : x = Version(cachedAWS[MC], awsFeed[MC], i)
    BY <1>1 DEF SeenAWS, Versions
  <2>4. Len(awsFeed[MC]) \in Nat /\ 0 \in 0..Len(awsFeed[MC]) /\ 0 <= i
    BY <1>0, <2>3
  <2>5. AWSFollows(Version(cachedAWS[MC], awsFeed[MC], 0), Version(cachedAWS[MC], awsFeed[MC], i))
    BY <1>0, <2>3, <2>4 DEF AWSLine
  <2>6. x.phase = "gone"
    BY <2>2, <2>3, <2>5 DEF AWSFollows, Version
  <2>7. x.fins = {}
    BY <1>0, <1>1, <2>6 DEF BareInv, Exists
  <2> QED
    BY <1>1, <2>7 DEF Protected
<1>2. awsCluster[MC] \in SeenAWS(MC)
  BY <1>0, VersionsEnds DEF SeenAWS, AWSLine
<1>3. cluster[MC].tgw # NoGateway => Released
  BY <1>1, <1>2 DEF ReleaseInv
<1> QED
  BY <1>1, <1>3

\* A protected AWSCluster has been seen by the cache.
LEMMA ProtectedIsCached ==
  ASSUME AnnotationsLeftToOperator, IInv, IInv', MCOwnInv, ReleaseInv, [Next]_vars,
         Manages', NEW x \in SeenAWS(MC)', Protected(x)
  PROVE  cachedAWS'[MC].phase # "none"
<1>1. /\ MC \in Clusters /\ Manages /\ ~SharesFinalizer(MC)
      /\ awsCluster[MC] \in SeenAWS(MC)
      /\ x \in SeenAWS(MC) \/ x = awsCluster'[MC]
      /\ KeepsAWS(MC, awsCluster'[MC])
  BY StoreAssumption, ManagedBefore, NothingToShare, SeenMoves, AWSKeeps
<1>2. cachedAWS[MC].phase # "none"
  <2>1. CASE x \in SeenAWS(MC)
    BY <1>1, <2>1 DEF ReleaseInv
  <2>2. CASE x = awsCluster'[MC]
    <3>1. Protected(awsCluster[MC]) \/ Exists(cachedAWS[MC])
      BY <1>1, <2>2 DEF KeepsAWS
    <3> QED
      BY <1>1, <3>1 DEF ReleaseInv, Exists
  <2> QED
    BY <1>1, <2>1, <2>2
<1> QED
  BY <1>1, <1>2, CacheFollows DEF AWSFollows

LEMMA ReleaseStep ==
  ASSUME AnnotationsLeftToOperator, IInv, IInv', NamingInv, BareInv, NTModeInv, MCOwnInv, ReleaseInv,
         [Next]_vars
  PROVE  ReleaseInv'
<1> SUFFICES ASSUME Manages', ~Released'
             PROVE  ReleaseInv'
  <2>1. Manages' => \A x \in SeenAWS(MC)' : Protected(x) => cachedAWS'[MC].phase # "none"
    BY ProtectedIsCached
  <2> QED
    BY <2>1 DEF ReleaseInv
<1>0. /\ nt.c \in Clusters /\ sh.c \in Clusters /\ TypeOK /\ MC \in Clusters
      /\ Manages /\ ~Released /\ ~SharesFinalizer(MC)
      /\ awsCluster[MC] \in SeenAWS(MC) /\ cachedAWS[MC] \in SeenAWS(MC)
      /\ SeenAWS(MC)' \subseteq SeenAWS(MC) \cup {awsCluster'[MC]}
      /\ Keeps(MC, cluster'[MC]) /\ KeepsAWS(MC, awsCluster'[MC])
  BY Typed, StoreAssumption, ManagedBefore, ReleasedStays, NothingToShare, SeenMoves, ClusterKeeps, AWSKeeps
     DEF IInv
<1> DEFINE free == cluster[MC].tgw = NoGateway /\ \A x \in SeenAWS(MC) : ~Protected(x)
           leaving == nt.c = MC /\ nt.pc \in {"RemoveAWSFinalizer", "RemoveFinalizer"}
<1>1. /\ cluster[MC].tgw # NoGateway => Protected(cluster[MC])
      /\ cluster[MC].tgw # NoGateway \/ (nt.c = MC /\ nt.pc \in RegisterStages) => Protected(awsCluster[MC])
      /\ \A x \in SeenAWS(MC) : Protected(x) => cachedAWS[MC].phase # "none" /\ Protected(awsCluster[MC])
      /\ leaving => free
  BY <1>0 DEF ReleaseInv
<1>2. \/ cluster'[MC].tgw = cluster[MC].tgw
      \/ nt.c = MC /\ Names /\ cluster'[MC].tgw = nt.gw
  BY <1>0, TgwSticks
<1>3. cachedAWS[MC].phase # "none" => cachedAWS'[MC].phase # "none"
  BY <1>0, CacheFollows DEF AWSFollows
<1>4. cluster'[MC].tgw # NoGateway => Protected(cluster'[MC])
  <2>1. CASE nt.c = MC /\ Names
    <3>1. Protected(cluster[MC]) /\ cluster'[MC].fins = cluster[MC].fins
      BY <1>0, <2>1, Typed DEF Names, IInv, NTInv, RegisterStages, ClusterRec
    <3> QED
      BY <3>1 DEF Protected
  <2>2. CASE ~(nt.c = MC /\ Names)
    <3>1. ASSUME cluster[MC].tgw # NoGateway, ~Protected(cluster'[MC]) PROVE FALSE
      <4>1. \/ nt.c = MC /\ nt.pc = "RemoveFinalizer"
            \/ sh.c = MC /\ sh.pc \in {"AddFinalizer", "RemoveFinalizer"}
        BY <1>0, <1>1, <3>1 DEF Keeps
      <4>2. CASE nt.c = MC /\ nt.pc = "RemoveFinalizer"
        BY <1>1, <3>1, <4>2
      <4>3. CASE sh.c = MC /\ sh.pc = "AddFinalizer"
        BY <4>3 DEF MCOwnInv, SHAddStages
      <4>4. CASE sh.c = MC /\ sh.pc = "RemoveFinalizer"
        BY <1>1, <3>1, <4>4 DEF IInv, SHInv, SHReleaseStages
      <4> QED
        BY <4>1, <4>2, <4>3, <4>4
    <3> QED
      BY <1>2, <2>2, <3>1
  <2> QED
    BY <2>1, <2>2
\* The AWSCluster's protection goes only in RemoveAWSFinalizer.
<1>5. Protected(awsCluster[MC]) => Protected(awsCluster'[MC]) \/ (leaving /\ nt.pc = "RemoveAWSFinalizer")
  <2>1. Protected(awsCluster[MC]) => Exists(awsCluster[MC])
    BY <1>0 DEF BareInv, Protected
  <2> QED
    BY <1>0, <2>1 DEF KeepsAWS
<1>6. Protected(awsCluster'[MC]) =>
        \/ Protected(awsCluster[MC])
        \/ nt.c = MC /\ nt.pc = "AddAWSFinalizer" /\ Exists(cachedAWS[MC])
  BY <1>0 DEF KeepsAWS
<1>7. cluster'[MC].tgw # NoGateway \/ (nt'.c = MC /\ nt'.pc \in RegisterStages)
        => Protected(awsCluster'[MC])
  <2>1. CASE cluster[MC].tgw # NoGateway
    BY <1>1, <1>5, <2>1
  <2>2. CASE nt.c = MC /\ nt.pc \in RegisterStages
    BY <1>1, <1>5, <2>2 DEF RegisterStages
  <2>3. CASE cluster[MC].tgw = NoGateway /\ ~(nt.c = MC /\ nt.pc \in RegisterStages)
    <3>1. cluster'[MC].tgw = NoGateway
      BY <1>2, <2>3 DEF Names, RegisterStages
    <3>2. ASSUME nt'.c = MC, nt'.pc \in RegisterStages
          PROVE  Protected(awsCluster'[MC])
      <4>1. nt.pc = "AddAWSFinalizer" /\ nt.c = MC /\ GoesOn
        <5>1. nt' # nt
          BY <2>3, <3>2
        <5>2. ASSUME GoesOn PROVE nt.pc = "AddAWSFinalizer" /\ nt.c = MC
          BY <2>3, <3>2, <5>2 DEF GoesOn, Onward, RegisterStages
        <5>3. ASSUME \/ Ends \/ Protects \/ Unregisters \/ \E c \in Clusters : Takes(c)
              PROVE  FALSE
          BY <3>2, <5>3 DEF Ends, Protects, Unregisters, Takes, RegisterStages
        <5>4. ASSUME Names \/ Registers \/ \E t \in Gateways : Settles(t)
              PROVE  FALSE
          BY <2>3, <3>2, <5>4 DEF Names, Registers, Settles, RegisterStages
        <5> QED
          BY <1>0, <5>1, <5>2, <5>3, <5>4, WorkerMoves
      <4>2. \/ Protected(awsCluster'[MC])
            \/ Protected(cachedAWS[MC]) /\ awsCluster'[MC].fins = awsCluster[MC].fins
        BY <4>1 DEF GoesOn
      <4> QED
        BY <1>0, <1>1, <4>2 DEF Protected
    <3> QED
      BY <3>1, <3>2
  <2> QED
    BY <2>1, <2>2, <2>3
<1>8. ASSUME NEW x \in SeenAWS(MC)', Protected(x)
      PROVE  cachedAWS'[MC].phase # "none" /\ Protected(awsCluster'[MC])
  <2>1. CASE x \in SeenAWS(MC)
    <3>1. cachedAWS[MC].phase # "none" /\ Protected(awsCluster[MC])
      BY <1>1, <1>8, <2>1
    <3>2. ~leaving
      BY <1>1, <1>8, <2>1
    <3> QED
      BY <1>3, <1>5, <3>1, <3>2
  <2>2. CASE x = awsCluster'[MC]
    <3>1. cachedAWS[MC].phase # "none"
      BY <1>0, <1>1, <1>6, <1>8, <2>2 DEF Exists
    <3> QED
      BY <1>3, <1>8, <2>2, <3>1
  <2> QED
    BY <1>0, <1>8, <2>1, <2>2
<1>9. ASSUME nt'.c = MC, nt'.pc \in {"RemoveAWSFinalizer", "RemoveFinalizer"}
      PROVE  cluster'[MC].tgw = NoGateway /\ \A x \in SeenAWS(MC)' : ~Protected(x)
  <2>1. nt.c = MC /\ nt.pc \in UnregisterStages /\ free
    <3>1. CASE nt' = nt
      BY <1>1, <1>9, <3>1 DEF UnregisterStages, ReleaseStages
    <3>2. CASE GoesOn
      <4>1. nt.c = MC /\ nt.pc \in {"Detach", "DeleteGateway", "RemoveAWSFinalizer"}
        BY <1>9, <3>2 DEF GoesOn, Onward
      <4>2. CASE nt.pc = "Detach"
        <5>1. nt.mode # GSM /\ nt.mode = nt.obj.mode
          BY <1>9, <3>2, <4>1, <4>2 DEF GoesOn, Onward, NTModeInv
        <5>2. nt.obj.mode = GSM
          BY <1>0, <4>1, <4>2, DeletionManaged DEF UnregisterStages
        <5> QED
          BY <5>1, <5>2
      <4>3. CASE nt.pc = "DeleteGateway"
        <5>1. nt.obj.tgw \in Gateways /\ gateway'[nt.obj.tgw] = "deleted"
          BY <3>2, <4>3 DEF GoesOn
        <5>2. nt.obj.tgw = cluster[MC].tgw /\ cluster[MC].tgw # NoGateway
          BY <4>1, <4>3, <5>1, StoreAssumption DEF NamingInv
        <5>3. cluster'[MC].tgw = cluster[MC].tgw
          BY <1>0, <5>2, TgwSticks
        <5> QED
          BY <5>1, <5>2, <5>3 DEF Released
      <4>4. CASE nt.pc = "RemoveAWSFinalizer"
        BY <1>1, <4>1, <4>4 DEF UnregisterStages, ReleaseStages
      <4> QED
        BY <4>1, <4>2, <4>3, <4>4
    <3>3. CASE Unregisters
      <4>1. nt.c = MC /\ nt.pc = "Unregister" /\ (nt.obj.mode # GSM \/ ~Exists(cachedAWS[nt.c]))
        BY <1>9, <3>3 DEF Unregisters
      <4>2. nt.obj.mode = GSM
        BY <1>0, <4>1, DeletionManaged DEF UnregisterStages
      <4> QED
        BY <1>0, <4>1, <4>2, NothingToRelease DEF UnregisterStages
    <3>4. ASSUME \/ Ends \/ Protects \/ Names \/ Registers \/ (\E t \in Gateways : Settles(t))
                 \/ \E c \in Clusters : Takes(c)
          PROVE  FALSE
      BY <1>9, <3>4 DEF Ends, Protects, Names, Registers, Settles, Takes
    <3> QED
      BY <1>0, <3>1, <3>2, <3>3, <3>4, WorkerMoves
  <2>2. cluster'[MC].tgw = NoGateway
    BY <1>2, <2>1 DEF Names, UnregisterStages, ReleaseStages
  <2>3. ~Protected(awsCluster'[MC])
    BY <1>0, <1>6, <2>1 DEF UnregisterStages, ReleaseStages
  <2> QED
    BY <1>0, <2>1, <2>2, <2>3
<1> QED
  BY <1>4, <1>7, <1>8, <1>9 DEF ReleaseInv

-----------------------------------------------------------------------------
\* Nobody has a gateway of the operator, a protected object or a condition, but a
\* management cluster that is set up, and that has all of it.
LEMMA GatewaysInit ==
  ASSUME Init, AnnotationsLeftToOperator
  PROVE  GatewaysInv
<1> DEFINE settled == Clusters \ Churn
<1>1. IInv /\ TypeOK /\ MC \in Clusters /\ settled \subseteq {MC}
  BY InitInv DEF IInv
<1>2. /\ \A c \in Churn : /\ cluster[c].phase = "live" /\ cluster[c].fins = {}
                          /\ cluster[c].tgw \in UserGateways /\ cluster[c].mode \in UserModes
                          /\ cluster[c].ready = "none"
                          /\ cached[c] = NoCluster /\ feed[c] = <<cluster[c]>>
      /\ \A c \in settled : cluster[c] = SettledCluster /\ cached[c] = SettledCluster
                            /\ feed[c] = <<>>
  <2>1. PICK m \in [Churn -> UserModes], t \in [Churn -> UserGateways], p \in [Churn -> UserLists] :
          cluster = [c \in Clusters |-> IF c \in Churn THEN NewCluster(m[c], t[c], p[c])
                                                       ELSE SettledCluster]
    BY DEF Init, StoreInit
  <2>2. \A c \in Churn : c \in Clusters /\ t[c] \in UserGateways /\ m[c] \in UserModes
    BY StoreAssumption
  <2>3. ASSUME NEW c \in Churn
        PROVE  /\ cluster[c].phase = "live" /\ cluster[c].fins = {}
               /\ cluster[c].tgw \in UserGateways /\ cluster[c].mode \in UserModes
               /\ cluster[c].ready = "none"
    <3>1. cluster[c] = NewCluster(m[c], t[c], p[c])
      BY <2>1, <2>2
    <3> QED
      BY <2>2, <3>1 DEF NewCluster
  <2> QED
    BY <2>1, <2>2, <2>3 DEF Init, StoreInit
<1>3. \A c \in Clusters : /\ cachedAWS[c] = awsCluster[c] /\ awsFeed[c] = <<>>
                          /\ awsCluster[c] \in {NoAWSCluster, SettledAWSCluster}
                                           \cup {[SettledAWSCluster EXCEPT !.fins = {}]}
                          /\ c \in Churn => awsCluster[c].fins = {}
  BY StoreAssumption DEF Init, StoreInit, NoAWSCluster, SettledAWSCluster
<1>4. \A c \in Clusters : SeenAWS(c) = {awsCluster[c]}
  <2>1. \A c \in Clusters : awsCluster[c] \in AWSRec /\ <<>> \in Seq(AWSRec)
    BY <1>1 DEF TypeOK, StoreTypeOK
  <2> QED
    BY <1>3, <2>1, VersionsMove DEF SeenAWS
<1>5. \A c \in Churn : Seen(c) = {NoCluster, cluster[c]}
  BY <1>2, FirstVersions DEF Seen
<1>6. \A c \in settled : Seen(c) = {SettledCluster}
  <2>1. \A c \in settled : SettledCluster \in ClusterRec /\ <<>> \in Seq(ClusterRec)
    BY <1>1, <1>2 DEF TypeOK, StoreTypeOK
  <2> QED
    BY <1>2, <2>1, VersionsMove DEF Seen
<1>7. nt.pc = "idle" /\ nt.c = MC /\ sh.pc = "idle"
  BY DEF Init, NTInit, SHInit, NTIdle, SHIdle
<1>8. NoCluster.tgw = NoGateway /\ NoCluster.ready = "none"
  BY DEF NoCluster, NewCluster
<1>9. /\ SettledCluster.phase = "live" /\ SettledCluster.tgw = Gateway0
      /\ Exists(SettledAWSCluster) /\ NoAWSCluster.fins = {}
  BY DEF SettledCluster, SettledAWSCluster, NoAWSCluster, Exists
<1>10. \A c \in Clusters : cluster[c].phase = "live" /\ cluster[c].phase # "gone"
  BY <1>2, <1>9
<1>11. NamingInv
  BY <1>2, <1>5, <1>6, <1>7, <1>8 DEF NamingInv, RegisterStages, ConnectStages
<1>12. BareInv
  <2>1. \A c \in Clusters : ~Exists(awsCluster[c]) => awsCluster[c].fins = {}
    BY <1>3, <1>9 DEF SettledAWSCluster
  <2> QED
    BY <1>4, <1>10, <2>1 DEF BareInv
<1>13. StrayInv
  <2>1. Unnamed = {}
    <3> SUFFICES ASSUME NEW t \in Gateways \ UserGateways,
                        gateway[t] \in {"pending", "available"}
                 PROVE  cluster[MC].tgw = t
      BY DEF Unnamed
    <3>1. t # NoGateway
      BY StoreAssumption
    <3>2. t = Gateway0 /\ settled # {}
      BY <3>1 DEF Init, NetworkInit
    <3> QED
      BY <1>1, <1>2, <1>9, <3>2
  <2>2. faults \in Nat
    BY <1>1, StoreAssumption DEF TypeOK, StoreTypeOK
  <2> QED
    BY <1>7, <2>1, <2>2, FS_EmptySet DEF StrayInv, Naming
<1>14. NTModeInv
  BY <1>7 DEF NTModeInv, ConnectStages
<1>15. ReadyInv
  <2>1. ASSUME NEW c \in Clusters, SaysReady(c) PROVE Connected(c)
    <3>1. c \in settled
      BY <1>2, <1>5, <1>7, <1>8, <2>1 DEF SaysReady
    <3>2. cluster[c].tgw = Gateway0 /\ Gateway0 \in Gateways /\ c = MC
      BY <1>1, <1>2, <1>9, <3>1, StoreAssumption
    <3>3. Attached(Gateway0, c)
      BY <3>1, <3>2 DEF Init, NetworkInit, Attached
    <3>4. HasEntry(c)
      <4>1. settled # {} /\ Cidr[c] \in Cidrs /\ Cidr[c] = Cidr[MC]
        BY <3>1, <3>2 DEF Cidrs
      <4> QED
        BY <3>2, <4>1 DEF Init, NetworkInit, HasEntry
    <3> QED
      BY <3>2, <3>3, <3>4 DEF Connected
  <2>2. ASSUME NEW c \in Clusters, SaysReady(c) PROVE cluster[c].mode \in Supported
    <3>1. c \in settled
      BY <1>2, <1>5, <1>7, <1>8, <2>2 DEF SaysReady
    <3> QED
      BY <1>2, <3>1 DEF SettledCluster, Supported
  <2> QED
    BY <1>7, <2>1, <2>2 DEF ReadyInv
<1>16. MCInv
  <2>1. CASE MC \in Churn /\ UserGateways = {NoGateway}
    <3>1. MCOwnInv
      BY <1>1, <1>2, <1>3, <1>4, <1>7, <2>1 DEF MCOwnInv, Naming, SHAddStages
    <3>2. ReleaseInv
      BY <1>1, <1>2, <1>3, <1>4, <1>7, <2>1 DEF ReleaseInv, RegisterStages, Protected
    <3> QED
      BY <2>1, <3>1, <3>2 DEF MCInv
  <2>2. CASE MC \in Churn /\ UserGateways # {NoGateway}
    BY <1>2, <2>2 DEF MCInv, AnnotationsLeftToOperator
  <2>3. CASE MC \notin Churn
    BY <1>1, <1>10, <2>3 DEF MCInv
  <2> QED
    BY <2>1, <2>2, <2>3
<1> QED
  BY <1>11, <1>12, <1>13, <1>14, <1>15, <1>16 DEF GatewaysInv

LEMMA GatewaysNext ==
  ASSUME AnnotationsLeftToOperator, IInv, IInv', GatewaysInv, [Next]_vars
  PROVE  GatewaysInv'
<1>1. NamingInv /\ BareInv /\ StrayInv /\ NTModeInv /\ ReadyInv
  BY DEF GatewaysInv
<1>2. NamingInv'
  BY <1>1, NamingStep
<1>3. BareInv'
  BY <1>1, BareStep
<1>4. StrayInv'
  BY <1>1, StrayStep
<1>5. NTModeInv'
  BY <1>1, NTModeStep
<1>6. ReadyInv'
  BY <1>1, ReadyStep
<1>7. MCInv'
  <2>1. CASE MC \in Churn /\ UserGateways = {NoGateway}
    <3>1. MCOwnInv /\ ReleaseInv
      BY <2>1 DEF GatewaysInv, MCInv
    <3>2. MCOwnInv'
      BY <1>1, <3>1, MCOwnStep
    <3>3. ReleaseInv'
      BY <1>1, <3>1, ReleaseStep
    <3> QED
      BY <2>1, <3>2, <3>3 DEF MCInv
  <2>2. CASE MC \in Churn /\ UserGateways # {NoGateway}
    <3>1. cluster[MC].mode # GSM /\ cluster[MC].mode \in Modes
      BY <2>2, StoreAssumption DEF GatewaysInv, MCInv, IInv, TypeOK, StoreTypeOK, ClusterRec
    <3>2. Keeps(MC, cluster'[MC])
      BY StoreAssumption, ClusterKeeps
    <3>3. cluster'[MC].mode # GSM
      BY <2>2, <3>1, <3>2 DEF Keeps, AnnotationsLeftToOperator, GSM
    <3> QED
      BY <2>2, <3>3 DEF MCInv
  <2>3. CASE MC \notin Churn
    <3>1. cluster[MC].phase = "live"
      BY <2>3 DEF GatewaysInv, MCInv
    <3>2. Keeps(MC, cluster'[MC])
      BY StoreAssumption, ClusterKeeps
    <3>3. cluster'[MC].phase = "live"
      BY <2>3, <3>1, <3>2 DEF Keeps
    <3> QED
      BY <2>3, <3>3 DEF MCInv
  <2> QED
    BY <2>1, <2>2, <2>3
<1> QED
  BY <1>2, <1>3, <1>4, <1>5, <1>6, <1>7 DEF GatewaysInv

-----------------------------------------------------------------------------
\* Who names which gateway, what nobody names, what has been released and what a
\* condition is worth stay in step, if users leave the annotation of GiantSwarmManaged
\* clusters to the operator and a supported mode as it is.
THEOREM GatewaysInvariant == AnnotationsLeftToOperator => (Spec => []GatewaysInv)
<1> SUFFICES ASSUME AnnotationsLeftToOperator
             PROVE  Spec => []GatewaysInv
  OBVIOUS
<1>1. Init => IInv /\ GatewaysInv
  BY InitInv, GatewaysInit
<1>2. IInv /\ GatewaysInv /\ [Next]_vars => (IInv /\ GatewaysInv)'
  BY NextInv, GatewaysNext
<1> QED
  BY <1>1, <1>2, PTL DEF Spec

\* getOrCreateTransitGateway leaves a gateway behind only when the reconcile that
\* created it fails before the annotation is saved: never more than one each.
THEOREM StraysAlwaysFaults == AnnotationsLeftToOperator => (Spec => []StraysAreFaults)
<1>1. IInv /\ GatewaysInv => StraysAreFaults
  <2> SUFFICES ASSUME IInv, GatewaysInv PROVE StraysAreFaults
    OBVIOUS
  <2> DEFINE S == IF Naming THEN Unnamed \ {nt.gw} ELSE Unnamed
  <2>1. IsFiniteSet(Unnamed) /\ Cardinality(S) <= faults /\ faults \in Nat
    BY StoreAssumption DEF GatewaysInv, StrayInv, IInv, TypeOK, StoreTypeOK
  <2>2. S \subseteq Unnamed /\ StrayGateways \subseteq S
    BY DEF StrayGateways, Unnamed
  <2>3. IsFiniteSet(S)
    BY <2>1, <2>2, FS_Subset
  <2>4. /\ Cardinality(StrayGateways) <= Cardinality(S)
        /\ Cardinality(StrayGateways) \in Nat /\ Cardinality(S) \in Nat
    <3> HIDE DEF S
    <3>1. IsFiniteSet(StrayGateways)
      BY <2>2, <2>3, FS_Subset
    <3> QED
      BY <2>2, <2>3, <3>1, FS_Subset, FS_CardinalityType
  <2> HIDE DEF S
  <2> QED
    BY <2>1, <2>4 DEF StraysAreFaults
<1> QED
  BY <1>1, InductiveInvariant, GatewaysInvariant, PTL

\* A management cluster that is gone has not left the gateway it named behind,
\* although Unregister removes the finalizers without a look at the gateway when
\* the cache has no AWSCluster.
THEOREM GatewayAlwaysReleased == AnnotationsLeftToOperator => (Spec => []GatewayReleased)
<1>1. GatewaysInv => GatewayReleased
  <2> SUFFICES ASSUME GatewaysInv, cluster[MC].phase = "gone", cluster[MC].mode = GSM,
                      cluster[MC].tgw # NoGateway
               PROVE  gateway[cluster[MC].tgw] = "deleted"
    BY DEF GatewayReleased, GSM
  <2>1. cluster[MC].fins = {} /\ MC \in Churn
    BY StoreAssumption DEF GatewaysInv, MCInv, BareInv
  <2>2. ReleaseInv /\ ~Protected(cluster[MC])
    BY <2>1 DEF GatewaysInv, MCInv, Protected
  <2> QED
    BY <2>2 DEF ReleaseInv, Released, Manages
<1> QED
  BY <1>1, GatewaysInvariant, PTL

\* A live GiantSwarmManaged cluster whose condition is true is attached to the
\* gateway its annotation names and is in the prefix list: the deferred status
\* update never outlives what it reports.
THEOREM ReadyAlwaysConnected == AnnotationsLeftToOperator => (Spec => []ReadyMeansConnected)
<1>1. IInv /\ GatewaysInv => ReadyMeansConnected
  <2> SUFFICES ASSUME IInv, GatewaysInv, NEW c \in Clusters, cluster[c].phase = "live",
                      cluster[c].ready = "True", cluster[c].mode = GSM
               PROVE  /\ cluster[c].tgw # NoGateway /\ Attached(cluster[c].tgw, c)
                      /\ HasEntry(c)
    BY DEF ReadyMeansConnected, GSM
  <2>1. /\ cached[c] \in ClusterRec /\ feed[c] \in Seq(ClusterRec)
        /\ Version(cached[c], feed[c], Len(feed[c])) = cluster[c]
    BY DEF IInv, TypeOK, StoreTypeOK, ClusterHistory, ClusterLine
  <2>2. cluster[c] \in Seen(c)
    BY <2>1, VersionsEnds DEF Seen
  <2>3. Connected(c)
    BY <2>2 DEF GatewaysInv, ReadyInv, SaysReady
  <2> QED
    BY <2>3, StoreAssumption DEF Connected
<1> QED
  BY <1>1, InductiveInvariant, GatewaysInvariant, PTL
=============================================================================
