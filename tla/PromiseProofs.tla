------------------------------ MODULE PromiseProofs ------------------------------
(***************************************************************************)
(* The promise of the operator kept: with workers that read what is there, *)
(* a VPC is attached only while its cluster is guarded, the gateway stays  *)
(* shared as long, and every step is one of GuardedNetwork or none of it.  *)
(***************************************************************************)
EXTENDS PromiseInv, GatewayProofs

(* What a write makes of the finalizers and the annotations.                *)

\* The ways in which y, what a step makes of the Cluster of c, has other finalizers.
NTAdds(c, y) ==
  /\ nt.c = c /\ nt.pc = "AddFinalizer" /\ nt'.pc = "AddAWSFinalizer" /\ sh' = sh
  /\ ~Protected(nt.obj) /\ y.fins = nt.obj.fins \cup {"nettop"}
NTRemoves(c, y) ==
  /\ nt.c = c /\ nt.pc = "RemoveFinalizer" /\ nt'.pc = "idle" /\ sh' = sh
  /\ y.fins = nt.obj.fins \ {"nettop"}
SHAdds(c, y) ==
  /\ sh.c = c /\ sh.pc = "AddFinalizer" /\ sh'.pc = "AddAWSFinalizer" /\ nt' = nt
  /\ y.fins = sh.obj.fins \cup {"share"}
SHRemoves(c, y) ==
  /\ sh.c = c /\ sh.pc = "RemoveFinalizer" /\ sh'.pc = "idle" /\ nt' = nt
  /\ y.fins = sh.obj.fins \ {"share"}
Writes(c, y) ==
  LET x == cluster[c]
  IN  /\ \/ y.fins = x.fins
         \/ /\ Exists(x) /\ y.phase = x.phase
            /\ x.phase = "deleting" => y.fins \subseteq x.fins
            /\ NTAdds(c, y) \/ NTRemoves(c, y) \/ SHAdds(c, y) \/ SHRemoves(c, y)
      /\ y.pl => x.pl \/ (nt.c = c /\ nt.pc = "SavePrefixList")
      /\ \/ y.tgw = x.tgw
         \/ /\ nt.c = c /\ nt'.c = c /\ nt.pc \in RegisterStages
            /\ nt'.obj.tgw = y.tgw

LEMMA Written ==
  ASSUME TypeOK
  PROVE  /\ UNCHANGED cluster => \A c \in Clusters : Writes(c, cluster'[c])
         /\ \A d \in Clusters : \A r :
              StoreCluster(d, r) /\ Writes(d, r) => \A c \in Clusters : Writes(c, cluster'[c])
<1>1. cluster \in [Clusters -> ClusterRec]
  BY Typed
<1>2. \A c \in Clusters : Writes(c, cluster[c])
  BY DEF Writes
<1>3. ASSUME NEW d \in Clusters, NEW r, StoreCluster(d, r), Writes(d, r), NEW c \in Clusters
      PROVE  Writes(c, cluster'[c])
  BY <1>1, <1>2, <1>3 DEF StoreCluster
<1> QED
  BY <1>2, <1>3

LEMMA StatusWrites ==
  ASSUME TypeOK, NEW c \in Clusters, NEW x \in ClusterRec, StatusUpdated(c, x)
  PROVE  \A d \in Clusters : Writes(d, cluster'[d])
<1> DEFINE r == IF Exists(cluster[c]) /\ IsCurrent(c, x)
                THEN [cluster[c] EXCEPT !.ready = x.ready] ELSE cluster[c]
<1>1. cluster[c] \in ClusterRec
  BY Typed
<1>2. /\ r.fins = cluster[c].fins /\ r.mode = cluster[c].mode /\ r.tgw = cluster[c].tgw
      /\ r.pl = cluster[c].pl
  BY <1>1 DEF ClusterRec
<1>3. StoreCluster(c, r)
  BY DEF StatusUpdated
<1> HIDE DEF r
<1> QED
  BY <1>2, <1>3, Written DEF Writes

LEMMA NTWrites ==
  ASSUME TypeOK, NTStep, UNCHANGED sh
  PROVE  \A c \in Clusters : Writes(c, cluster'[c])
<1>0. nt.c \in Clusters /\ cluster[nt.c] \in ClusterRec /\ nt.obj \in ClusterRec /\ nt \in NTWorkers
  BY Typed
<1>1. CASE NTAddFinalizer
  <2> DEFINE c == nt.c
             s == cluster[nt.c]
             a == FinalizerAdded(s, nt.obj, "nettop")
  <2>1. /\ a.phase = s.phase /\ a.mode = s.mode /\ a.tgw = s.tgw /\ a.pl = s.pl
        /\ a.fins = s.fins \/ (~Protected(nt.obj) /\ a.fins = nt.obj.fins \cup {"nettop"})
    <3>1. nt.obj.fins \cup {"nettop"} = nt.obj.fins <=> Protected(nt.obj)
      BY DEF Protected
    <3> QED
      BY <1>0, <3>1 DEF FinalizerAdded, PatchedFins, ClusterRec
  <2>2. Accepts(s, a) => Exists(s) /\ (s.phase = "deleting" => a.fins \subseteq s.fins)
    BY DEF Accepts
  <2>3. /\ nt.pc = "AddFinalizer"
        /\ (Accepts(s, a) /\ StoreCluster(c, a) /\ nt'.pc = "AddAWSFinalizer") \/ UNCHANGED cluster
    BY <1>0, <1>1 DEF NTAddFinalizer, NTAt, NTWorkers
  <2> HIDE DEF a
  <2>4. Accepts(s, a) /\ nt'.pc = "AddAWSFinalizer" => Writes(c, a)
    BY <2>1, <2>2, <2>3 DEF Writes, NTAdds
  <2> QED
    BY <1>0, <2>3, <2>4, Written
<1>2. CASE NTRemoveFinalizer
  <2> DEFINE c == nt.c
             s == cluster[nt.c]
             r == FinalizerRemoved(s, nt.obj, "nettop")
  <2>1. /\ r.phase = s.phase /\ r.mode = s.mode /\ r.tgw = s.tgw /\ r.pl = s.pl
        /\ r.fins = s.fins \/ r.fins = nt.obj.fins \ {"nettop"}
    BY <1>0 DEF FinalizerRemoved, PatchedFins, ClusterRec
  <2>2. Accepts(s, r) => Exists(s) /\ (s.phase = "deleting" => r.fins \subseteq s.fins)
    BY DEF Accepts
  <2>3. /\ nt.pc = "RemoveFinalizer"
        /\ (Accepts(s, r) /\ StoreCluster(c, r) /\ nt'.pc = "idle") \/ UNCHANGED cluster
    BY <1>0, <1>2 DEF NTRemoveFinalizer, NTAt, NTDone, NTIdle
  <2> HIDE DEF r
  <2>4. Accepts(s, r) /\ nt'.pc = "idle" => Writes(c, r)
    BY <2>1, <2>2, <2>3 DEF Writes, NTRemoves
  <2> QED
    BY <1>0, <2>3, <2>4, Written
<1>3. CASE NTSaveGateway
  <2> DEFINE r == [cluster[nt.c] EXCEPT !.tgw = nt.gw]
             o == Refreshed(nt.obj, r)
  <2>1. /\ r.fins = cluster[nt.c].fins /\ r.pl = cluster[nt.c].pl /\ r \in ClusterRec
    BY <1>0 DEF ClusterRec, NTWorkers
  <2>2. /\ nt.pc \in RegisterStages
        /\ \/ StoreCluster(nt.c, r) /\ nt' = [nt EXCEPT !.pc = "Attach", !.obj = o]
           \/ UNCHANGED cluster
    BY <1>3 DEF NTSaveGateway, NTAt, RegisterStages
  <2> HIDE DEF r
  <2>3. o.tgw = r.tgw /\ o.mode = r.mode
    BY <2>1 DEF Refreshed, ClusterRec
  <2> HIDE DEF o
  <2>4. nt' = [nt EXCEPT !.pc = "Attach", !.obj = o] => Writes(nt.c, r)
    BY <1>0, <2>1, <2>2, <2>3 DEF Writes, NTWorkers
  <2> QED
    BY <1>0, <2>2, <2>4, Written
<1>4. CASE NTModeNotSupported
  <2> DEFINE r == [cluster[nt.c] EXCEPT !.mode = "None"]
             o == [r EXCEPT !.ready = "ModeNotSupported"]
  <2>1. /\ r.fins = cluster[nt.c].fins /\ r.pl = cluster[nt.c].pl
        /\ o.tgw = r.tgw /\ o.mode = r.mode
    BY <1>0 DEF ClusterRec
  <2>2. /\ nt.pc \in RegisterStages
        /\ \/ StoreCluster(nt.c, r) /\ nt' = [nt EXCEPT !.pc = "UpdateStatus", !.again = FALSE, !.obj = o]
           \/ UNCHANGED cluster
    BY <1>4 DEF NTModeNotSupported, NTAt, RegisterStages
  <2> HIDE DEF r, o
  <2>3. nt' = [nt EXCEPT !.pc = "UpdateStatus", !.again = FALSE, !.obj = o] => Writes(nt.c, r)
    BY <1>0, <2>1, <2>2 DEF Writes, NTWorkers
  <2> QED
    BY <1>0, <2>2, <2>3, Written
<1>5. CASE NTSavePrefixList
  <2> DEFINE r == [cluster[nt.c] EXCEPT !.pl = TRUE]
  <2>1. r.fins = cluster[nt.c].fins /\ r.tgw = cluster[nt.c].tgw /\ r.mode = cluster[nt.c].mode
    BY <1>0 DEF ClusterRec
  <2>2. nt.pc = "SavePrefixList" /\ (StoreCluster(nt.c, r) \/ UNCHANGED cluster)
    BY <1>5 DEF NTSavePrefixList, NTAt
  <2> HIDE DEF r
  <2>3. Writes(nt.c, r)
    BY <2>1, <2>2 DEF Writes
  <2> QED
    BY <1>0, <2>2, <2>3, Written
<1>6. CASE NTUpdateStatus
  BY <1>0, <1>6, StatusWrites DEF NTUpdateStatus
<1>7. ASSUME \/ NTInvalidMode \/ NTIDMissing \/ NTNoGateway \/ NTNotReady \/ NTAttach \/ NTNoVPC
             \/ NTPublish \/ NTAddToPrefixList \/ NTUnregister \/ NTRemoveFromPrefixList \/ NTDetach
             \/ NTDeleteGateway \/ (\E t \in Gateways : NTFindGateway(t) \/ NTCreateGateway(t))
             \/ NTAddAWSFinalizer \/ NTRemoveAWSFinalizer
      PROVE  UNCHANGED cluster
  BY <1>7 DEF NTInvalidMode, NTIDMissing, NTNoGateway, NTNotReady, NTAttach, NTNoVPC, NTPublish,
     NTAddToPrefixList, NTUnregister, NTRemoveFromPrefixList, NTDetach, NTDeleteGateway,
     NTFindGateway, NTCreateGateway, NTAddAWSFinalizer, NTRemoveAWSFinalizer, storeVars, storeButQueue
<1> QED
  BY <1>1, <1>2, <1>3, <1>4, <1>5, <1>6, <1>7, Written DEF NTStep

LEMMA SHWrites ==
  ASSUME TypeOK, SHStep, UNCHANGED nt
  PROVE  \A c \in Clusters : Writes(c, cluster'[c])
<1> DEFINE c == sh.c
           s == cluster[sh.c]
           a == FinalizerAdded(s, sh.obj, "share")
           r == FinalizerRemoved(s, sh.obj, "share")
<1>0. c \in Clusters /\ s \in ClusterRec /\ sh.obj \in ClusterRec
      /\ sh \in [pc: SHStages, c: Clusters, obj: ClusterRec]
  BY Typed DEF TypeOK, SHTypeOK
<1>1. /\ a.phase = s.phase /\ a.mode = s.mode /\ a.tgw = s.tgw /\ a.pl = s.pl
      /\ a.fins = s.fins \/ a.fins = sh.obj.fins \cup {"share"}
      /\ r.phase = s.phase /\ r.mode = s.mode /\ r.tgw = s.tgw /\ r.pl = s.pl
      /\ r.fins = s.fins \/ r.fins = sh.obj.fins \ {"share"}
  BY <1>0 DEF FinalizerAdded, FinalizerRemoved, PatchedFins, ClusterRec
<1>2. /\ Accepts(s, a) => Exists(s) /\ (s.phase = "deleting" => a.fins \subseteq s.fins)
      /\ Accepts(s, r) => Exists(s) /\ (s.phase = "deleting" => r.fins \subseteq s.fins)
  BY DEF Accepts
<1>3. CASE SHAddFinalizer
  <2>1. /\ sh.pc = "AddFinalizer"
        /\ (Accepts(s, a) /\ StoreCluster(c, a) /\ sh'.pc = "AddAWSFinalizer") \/ UNCHANGED cluster
    BY <1>0, <1>3 DEF SHAddFinalizer, SHAt
  <2> HIDE DEF a, r
  <2>2. Accepts(s, a) /\ sh'.pc = "AddAWSFinalizer" => Writes(c, a)
    BY <1>1, <1>2, <2>1 DEF Writes, SHAdds
  <2> QED
    BY <1>0, <2>1, <2>2, Written
<1>4. CASE SHRemoveFinalizer
  <2>1. /\ sh.pc = "RemoveFinalizer"
        /\ (Accepts(s, r) /\ StoreCluster(c, r) /\ sh'.pc = "idle") \/ UNCHANGED cluster
    BY <1>0, <1>4 DEF SHRemoveFinalizer, SHAt, SHDone, SHIdle
  <2> HIDE DEF a, r
  <2>2. Accepts(s, r) /\ sh'.pc = "idle" => Writes(c, r)
    BY <1>1, <1>2, <2>1 DEF Writes, SHRemoves
  <2> QED
    BY <1>0, <2>1, <2>2, Written
<1>5. ASSUME \/ SHShareTransitGateway \/ SHAddAWSFinalizer \/ SHApplyGatewayShare
             \/ SHSharePrefixList \/ SHDeleteGatewayShare \/ SHDeletePrefixListShare
             \/ SHRemoveAWSFinalizer
      PROVE  UNCHANGED cluster
  BY <1>5 DEF SHShareTransitGateway, SHAddAWSFinalizer, SHApplyGatewayShare, SHSharePrefixList,
     SHDeleteGatewayShare, SHDeletePrefixListShare, SHRemoveAWSFinalizer, storeVars
<1> QED
  BY <1>3, <1>4, <1>5, Written DEF SHStep

LEMMA OwnersWrite ==
  ASSUME TypeOK, NEW c \in Clusters, Provision(c) \/ User(c)
  PROVE  \A d \in Clusters : Writes(d, cluster'[d])
<1> DEFINE s == cluster[c]
           d == [s EXCEPT !.phase = "deleting"]
           g == [s EXCEPT !.phase = "gone"]
           p == [s EXCEPT !.paused = ~@]
<1>0. s \in ClusterRec
  BY Typed
<1>1. ASSUME NEW r \in {d, g, p}
      PROVE  Writes(c, r)
  <2>1. r.fins = s.fins /\ r.tgw = s.tgw /\ r.mode = s.mode /\ r.pl = s.pl
    BY <1>0, <1>1 DEF ClusterRec
  <2> QED
    BY <2>1 DEF Writes
<1>2. CASE ChangeMode(c)
  <2>1. PICK m \in Modes : StoreCluster(c, [s EXCEPT !.mode = m])
    BY <1>2 DEF ChangeMode
  <2> DEFINE r == [s EXCEPT !.mode = m]
  <2>2. r.fins = s.fins /\ r.tgw = s.tgw /\ r.pl = s.pl
    BY <1>0 DEF ClusterRec
  <2>3. StoreCluster(c, r)
    BY <2>1
  <2> HIDE DEF r
  <2>4. Writes(c, r)
    BY <2>2, <2>3 DEF Writes
  <2> QED
    BY <2>3, <2>4, Written
<1>3. \/ StoreCluster(c, d) \/ StoreCluster(c, g) \/ StoreCluster(c, p)
      \/ UNCHANGED cluster \/ ChangeMode(c)
  BY DEF Provision, User, DeleteCluster, TogglePause, CollectCluster, CreateAWSCluster, VPCReady,
     DeleteAWSCluster, RemoveInfrastructure, CollectAWSCluster
<1> HIDE DEF s, d, g, p
<1> QED
  BY <1>1, <1>2, <1>3, Written

LEMMA ClusterWrites ==
  ASSUME TypeOK, [Next]_vars
  PROVE  \A c \in Clusters : Writes(c, cluster'[c])
<1>1. CASE NTWork \/ SHWork
  BY <1>1, NTWrites, SHWrites DEF NTWork, SHWork
<1>2. ASSUME NEW c \in Clusters, NTTake(c) PROVE \A d \in Clusters : Writes(d, cluster'[d])
  <2> DEFINE fresh == [cached[c] EXCEPT !.ready = IF @ = "none" THEN "InProgress" ELSE @]
  <2>1. fresh \in ClusterRec
    BY Typed DEF ClusterRec, Conditions
  <2>2. StatusUpdated(c, fresh) \/ UNCHANGED cluster
    BY <1>2 DEF NTTake, NTGet
  <2> HIDE DEF fresh
  <2> QED
    BY <2>1, <2>2, StatusWrites, Written
<1>3. ASSUME NEW c \in Clusters, Provision(c) \/ User(c)
      PROVE  \A d \in Clusters : Writes(d, cluster'[d])
  BY <1>3, OwnersWrite
<1>4. ASSUME NEW c \in Clusters, SHTake(c) \/ Deliver(c)
      PROVE  UNCHANGED cluster
  BY <1>4 DEF SHTake, SHGet, Deliver, DeliverCluster, DeliverAWS
<1>5. ASSUME \/ Fault \/ Restart \/ UNCHANGED vars \/ \E t \in Gateways : AWS(t)
      PROVE  UNCHANGED cluster
  BY <1>5
  DEF Fault, NTFault, NTAWSReadFails, SHFault, SHAWSReadFails, Restart, Relist, vars, storeVars, AWS
<1> QED
  BY <1>1, <1>2, <1>3, <1>4, <1>5, Written DEF Next

-----------------------------------------------------------------------------
(* What a step does to the rest of what the invariant speaks of.            *)

\* A read by a worker that is caught up sees the object as it is.
LEMMA CaughtUpReads ==
  ASSUME IInv, CaughtUp, NEW c \in Clusters, Readable(c)
  PROVE  cached[c] = cluster[c]
<1>1. /\ feed[c] \in Seq(ClusterRec) /\ MaxLag = 0 /\ Len(feed[c]) \in Nat
      /\ Version(cached[c], feed[c], Len(feed[c])) = cluster[c]
  BY DEF IInv, TypeOK, StoreTypeOK, CaughtUp, ClusterHistory, ClusterLine
<1>2. Len(feed[c]) = 0
  BY <1>1 DEF Readable
<1> QED
  BY <1>1, <1>2 DEF Version

\* A VPC is attached only by the registration of its cluster, with the gateway that
\* names and can see; only a registration attaches.
LEMMA NewAttachment ==
  ASSUME TypeOK, [Next]_vars, NEW c \in Clusters, NEW t \in Gateways, Attached(t, c)'
  PROVE  \/ Attached(t, c)
         \/ /\ NTAttach /\ nt.pc = "Attach" /\ nt.c = c /\ nt.gw = t
            /\ UNCHANGED <<cluster, cached, cachedAWS, feed, awsFeed, awsCluster, shares>>
            /\ Exists(cachedAWS[c]) /\ cachedAWS[c].vpc /\ Exists(awsCluster[c]) /\ Visible(t, c)
<1>0. /\ attachment \in [Gateways -> [Clusters -> AttachmentStates]] /\ nt.c \in Clusters
  BY Typed DEF TypeOK, NetworkTypeOK
<1>u. CASE UNCHANGED attachment
  BY <1>u DEF Attached
<1>1. CASE NTWork
  <2>1. CASE NTAttach
    <3>1. nt.gw \in Gateways /\ nt.pc = "Attach"
      BY <2>1, Typed DEF NTAttach, NTAt
    <3>2. ~(nt.gw = t /\ nt.c = c) => attachment'[t][c] = attachment[t][c]
      BY <1>0, <2>1, <3>1 DEF NTAttach, Attach
    <3>3. nt.gw = t /\ nt.c = c /\ attachment[t][c] # "none" => attachment'[t][c] = attachment[t][c]
      BY <1>0, <2>1, <3>1 DEF NTAttach, Attach
    <3>4. nt.gw = t /\ nt.c = c /\ attachment[t][c] = "none" => Visible(t, c)
      BY <2>1 DEF NTAttach, CanAttach
    <3> QED
      BY <2>1, <3>1, <3>2, <3>3, <3>4 DEF Attached, NTAttach, Attach, storeVars
  <2>2. CASE NTDetach
    BY <1>0, <2>2 DEF NTDetach, Detach, Attached
  <2>3. ASSUME \/ NTAddFinalizer \/ NTAddAWSFinalizer \/ NTModeNotSupported \/ NTInvalidMode
               \/ NTIDMissing \/ NTNoGateway \/ NTSaveGateway \/ NTNotReady \/ NTNoVPC
               \/ NTSavePrefixList \/ NTUpdateStatus \/ NTUnregister \/ NTRemoveAWSFinalizer
               \/ NTRemoveFinalizer \/ NTPublish \/ NTDeleteGateway \/ NTAddToPrefixList
               \/ NTRemoveFromPrefixList \/ \E u \in Gateways : NTFindGateway(u) \/ NTCreateGateway(u)
        PROVE  UNCHANGED attachment
    BY <2>3 DEF NTAddFinalizer, NTAddAWSFinalizer, NTModeNotSupported, NTInvalidMode, NTIDMissing,
       NTNoGateway, NTSaveGateway, NTNotReady, NTNoVPC, NTSavePrefixList, NTUpdateStatus,
       NTUnregister, NTRemoveAWSFinalizer, NTRemoveFinalizer, NTFindGateway, networkVars,
       NTPublish, PublishSNSMessage, NTDeleteGateway, DeleteGateway, NTCreateGateway, CreateGateway,
       NTAddToPrefixList, AddEntry, NTRemoveFromPrefixList, RemoveEntry
  <2> QED
    BY <1>1, <1>u, <2>1, <2>2, <2>3 DEF NTWork, NTStep
<1>2. CASE SHWork \/ Fault \/ Restart \/ UNCHANGED vars
  <2>1. UNCHANGED attachment
    BY <1>2 DEF SHWork, SHStep, SHShareTransitGateway, SHAddFinalizer, SHAddAWSFinalizer,
       SHApplyGatewayShare, SHSharePrefixList, SHDeleteGatewayShare, SHDeletePrefixListShare,
       SHRemoveAWSFinalizer, SHRemoveFinalizer, ApplyResourceShare, DeleteResourceShare, networkVars,
       Fault, NTFault, NTAWSReadFails, SHFault, SHAWSReadFails, Restart, vars
  <2> QED
    BY <1>u, <2>1
<1>3. ASSUME NEW d \in Clusters, NTTake(d) \/ SHTake(d) \/ Deliver(d) \/ Provision(d) \/ User(d)
      PROVE  UNCHANGED attachment
  BY <1>3 DEF NTTake, SHTake, NTGet, SHGet, Deliver, Provision, User, networkVars
<1>4. ASSUME NEW u \in Gateways, AWS(u)
      PROVE  Attached(t, c)
  <2>1. CASE GatewayAvailable(u)
    BY <2>1 DEF GatewayAvailable, Attached
  <2>2. ASSUME NEW d \in Clusters, AttachmentDeleted(u, d) \/ AcceptAttachment(u, d)
        PROVE  Attached(t, c)
    BY <1>0, <2>2 DEF AttachmentDeleted, AcceptAttachment, Attached
  <2> QED
    BY <1>4, <2>1, <2>2 DEF AWS
<1> QED
  BY <1>u, <1>1, <1>2, <1>3, <1>4 DEF Next

\* When the worker has detached, the gateway its copy names is not attached.
LEMMA DetachMoves ==
  ASSUME TypeOK, [Next]_vars, nt.pc = "Detach", nt'.pc \in ReleaseStages,
         NEW t \in Gateways, NEW c \in Clusters, c = nt.c
  PROVE  Attached(t, c)' => Attached(t, c) /\ ~(nt.vpc /\ t = nt.obj.tgw)
<1>0. /\ attachment \in [Gateways -> [Clusters -> AttachmentStates]] /\ nt.c \in Clusters
      /\ t # NoGateway
  BY Typed, StoreAssumption DEF TypeOK, NetworkTypeOK
<1>1. NTDetach
  <2>1. CASE NTWork
    <3>2. NTStep => NTDetach \/ nt.pc # "Detach"
      BY DEF NTStep, NTAddFinalizer, NTAddAWSFinalizer, NTModeNotSupported, NTInvalidMode,
       NTIDMissing, NTNoGateway, NTSaveGateway, NTNotReady, NTNoVPC, NTSavePrefixList, NTUpdateStatus,
       NTUnregister, NTRemoveAWSFinalizer, NTRemoveFinalizer, NTFindGateway, NTPublish,
       NTDeleteGateway, NTCreateGateway, NTAddToPrefixList, NTRemoveFromPrefixList, NTAttach, NTAt
    <3> QED
      BY <2>1, <3>2 DEF NTWork
  <2>2. CASE SHWork \/ UNCHANGED vars
    BY <2>2 DEF SHWork, vars, ReleaseStages
  <2>3. CASE Fault
    <3>1. NTFault \/ NTAWSReadFails => Ends \/ Registers \/ nt.pc = "RemoveAWSFinalizer"
      BY NTFaultMoves DEF GoesOn, Onward
    <3> QED
      BY <2>3, <3>1 DEF Fault, Ends, Registers, ReleaseStages
  <2>4. CASE Restart
    BY <2>4 DEF Restart, NTIdle, ReleaseStages
  <2>5. ASSUME NEW d \in Clusters, NTTake(d) \/ SHTake(d) \/ Deliver(d) \/ Provision(d) \/ User(d)
        PROVE  FALSE
    BY <2>5 DEF NTTake, NTGet, NTAt, SHTake, Deliver, Provision, User, ReleaseStages
  <2>6. ASSUME NEW u \in Gateways, AWS(u) PROVE FALSE
    BY <2>6 DEF AWS, ReleaseStages
  <2> QED
    BY <2>1, <2>2, <2>3, <2>4, <2>5, <2>6 DEF Next
<1> DEFINE u == nt.obj.tgw
<1>2. u \in Gateways \cup {NoGateway}
  BY Typed DEF ClusterRec
<1>3. CASE nt.vpc /\ u # NoGateway /\ attachment[u][nt.c] # "none"
  <2>1. u \in Gateways /\ attachment' = [attachment EXCEPT ![u][nt.c] = "deleting"]
    BY <1>1, <1>2, <1>3 DEF NTDetach, Detach
  <2> QED
    BY <1>0, <2>1 DEF Attached
<1>4. CASE ~(nt.vpc /\ u # NoGateway /\ attachment[u][nt.c] # "none")
  <2>1. attachment' = attachment
    BY <1>1, <1>4 DEF NTDetach, Detach
  <2> QED
    BY <1>0, <1>4, <2>1 DEF Attached
<1> QED
  BY <1>3, <1>4

\* AWS does not let CAPA remove a VPC that has an attachment, and nobody else does.
LEMMA InfrastructureStays ==
  ASSUME IInv, [Next]_vars, NEW c \in Clusters,
         HasAttachment(c), Exists(awsCluster[c]), awsCluster[c].vpc
  PROVE  Exists(awsCluster'[c]) /\ awsCluster'[c].vpc
<1>0. awsCluster \in [Clusters -> AWSRec] /\ cachedAWS \in [Clusters -> AWSRec]
      /\ nt.c \in Clusters /\ sh.c \in Clusters
  BY Typed DEF IInv
<1>u. CASE UNCHANGED awsCluster
  BY <1>u
<1>1. ASSUME NEW d \in Clusters, NEW r, StoreAWS(d, r),
             d = c => r.phase \in {"live", "deleting"} /\ r.vpc
      PROVE  Exists(awsCluster'[c]) /\ awsCluster'[c].vpc
  BY <1>0, <1>1 DEF StoreAWS, Exists
<1>2. ASSUME NEW d \in Clusters, NEW f \in Finalizers,
             \/ StoreAWS(d, FinalizerAdded(awsCluster[d], cachedAWS[d], f))
             \/ StoreAWS(d, FinalizerRemoved(awsCluster[d], cachedAWS[d], f))
      PROVE  Exists(awsCluster'[c]) /\ awsCluster'[c].vpc
  <2>1. PICK r : /\ StoreAWS(d, r)
                 /\ \/ r = FinalizerAdded(awsCluster[d], cachedAWS[d], f)
                    \/ r = FinalizerRemoved(awsCluster[d], cachedAWS[d], f)
    BY <1>2
  <2>2. r.phase = awsCluster[d].phase /\ r.vpc = awsCluster[d].vpc
    BY <1>0, <2>1, AWSPatchKeeps
  <2> QED
    BY <1>1, <2>1, <2>2 DEF Exists
<1>3. "nettop" \in Finalizers /\ "share" \in Finalizers
  BY DEF Finalizers
<1>4. CASE NTWork
  <2>1. CASE NTAddAWSFinalizer \/ NTRemoveAWSFinalizer
    BY <1>0, <1>2, <1>3, <1>u, <2>1 DEF NTAddAWSFinalizer, NTRemoveAWSFinalizer
  <2>2. ASSUME \/ NTInvalidMode \/ NTIDMissing \/ NTNoGateway \/ NTNotReady \/ NTAttach \/ NTNoVPC
               \/ NTPublish \/ NTAddToPrefixList \/ NTUnregister \/ NTRemoveFromPrefixList \/ NTDetach
               \/ NTDeleteGateway \/ (\E t \in Gateways : NTFindGateway(t) \/ NTCreateGateway(t))
               \/ NTAddFinalizer \/ NTRemoveFinalizer \/ NTModeNotSupported \/ NTSaveGateway
               \/ NTSavePrefixList \/ NTUpdateStatus
        PROVE  UNCHANGED awsCluster
    BY <2>2 DEF NTInvalidMode, NTIDMissing, NTNoGateway, NTNotReady, NTAttach, NTNoVPC, NTPublish,
       NTAddToPrefixList, NTUnregister, NTRemoveFromPrefixList, NTDetach, NTDeleteGateway,
       NTFindGateway, NTCreateGateway, NTAddFinalizer, NTRemoveFinalizer, NTModeNotSupported,
       NTSaveGateway, NTSavePrefixList, NTUpdateStatus, storeVars, storeButQueue, storeButCluster
  <2> QED
    BY <1>4, <1>u, <2>1, <2>2 DEF NTWork, NTStep
<1>5. CASE SHWork
  <2>1. CASE SHAddAWSFinalizer \/ SHRemoveAWSFinalizer
    BY <1>0, <1>2, <1>3, <1>u, <2>1 DEF SHAddAWSFinalizer, SHRemoveAWSFinalizer
  <2>2. ASSUME \/ SHShareTransitGateway \/ SHAddFinalizer \/ SHApplyGatewayShare \/ SHSharePrefixList
               \/ SHDeleteGatewayShare \/ SHDeletePrefixListShare \/ SHRemoveFinalizer
        PROVE  UNCHANGED awsCluster
    BY <2>2 DEF SHShareTransitGateway, SHAddFinalizer, SHApplyGatewayShare, SHSharePrefixList,
       SHDeleteGatewayShare, SHDeletePrefixListShare, SHRemoveFinalizer, storeVars
  <2> QED
    BY <1>5, <1>u, <2>1, <2>2 DEF SHWork, SHStep
<1>6. ASSUME NEW d \in Clusters, Provision(d) PROVE Exists(awsCluster'[c]) /\ awsCluster'[c].vpc
  <2> DEFINE s == awsCluster[d]
             new == [NoAWSCluster EXCEPT !.phase = "live"]
             up == [s EXCEPT !.vpc = TRUE]
             del == [s EXCEPT !.phase = "deleting"]
             gone == [s EXCEPT !.phase = "gone"]
  <2>1. /\ up.phase = s.phase /\ up.vpc = TRUE /\ del.phase = "deleting" /\ del.vpc = s.vpc
    BY <1>0 DEF AWSRec
  <2>2. \/ s.phase = "none" /\ StoreAWS(d, new)
        \/ s.phase = "live" /\ (StoreAWS(d, up) \/ StoreAWS(d, del))
        \/ ~HasAttachment(d) /\ StoreAWS(d, gone)
        \/ UNCHANGED awsCluster
    BY <1>6 DEF Provision, CreateAWSCluster, VPCReady, DeleteAWSCluster, RemoveInfrastructure,
       CollectAWSCluster, CollectCluster
  <2>3. s.phase = "none" => d # c
    BY DEF Exists
  <2> HIDE DEF s, new, up, del, gone
  <2> QED
    BY <1>1, <1>u, <2>1, <2>2, <2>3 DEF s
<1>7. ASSUME NEW d \in Clusters, NTTake(d) \/ SHTake(d) \/ Deliver(d) \/ User(d)
      PROVE  UNCHANGED awsCluster
  BY <1>7 DEF NTTake, NTGet, SHTake, SHGet, Deliver, DeliverCluster, DeliverAWS, User, DeleteCluster,
     ChangeMode, TogglePause
<1>8. ASSUME \/ Fault \/ Restart \/ UNCHANGED vars \/ \E t \in Gateways : AWS(t)
      PROVE  UNCHANGED awsCluster
  BY <1>8
  DEF Fault, NTFault, NTAWSReadFails, SHFault, SHAWSReadFails, Restart, Relist, vars, storeVars, AWS
<1> QED
  BY <1>u, <1>4, <1>5, <1>6, <1>7, <1>8 DEF Next

\* The share reconciler's worker, reduced as the other one's.
ShareEnds ==
  /\ sh'.pc = "idle" /\ sh.pc # "idle"
  /\ \/ UNCHANGED shares
     \/ /\ sh.pc = "SharePrefixList" /\ sh.obj.pl /\ Account[sh.c] # Account[MC]
        /\ shares' = [shares EXCEPT ![sh.c] = @ \cup {"prefix-list"}]
ShareTakes(c) ==
  /\ sh.pc = "idle" /\ sh'.c = c /\ sh'.obj = cached[c] /\ Readable(c)
  /\ sh'.pc \in {"ShareTransitGateway", "DeleteGatewayShare"} /\ UNCHANGED <<cluster, shares>>
ShareDecides ==
  /\ sh.pc = "ShareTransitGateway" /\ sh'.c = sh.c /\ sh'.obj = sh.obj /\ UNCHANGED <<cluster, shares>>
  /\ \/ sh'.pc = "AddFinalizer"
     \/ /\ sh'.pc = "SharePrefixList"
        /\ sh.obj.tgw = NoGateway \/ GatewayAccount[sh.obj.tgw] = Account[sh.c]
ShareAdds ==
  /\ sh'.c = sh.c
  /\ \/ /\ sh.pc = "AddFinalizer" /\ sh'.pc = "AddAWSFinalizer" /\ UNCHANGED shares
        /\ Shares(cluster'[sh.c]) \/ (Shares(sh.obj) /\ cluster'[sh.c].fins = cluster[sh.c].fins)
     \/ sh.pc = "AddAWSFinalizer" /\ sh'.pc = "ApplyGatewayShare" /\ UNCHANGED shares
     \/ /\ sh.pc = "ApplyGatewayShare" /\ sh'.pc = "SharePrefixList"
        /\ shares' = [shares EXCEPT ![sh.c] = @ \cup {"transit-gateway"}]
ShareWithdraws ==
  /\ sh'.c = sh.c
  /\ \/ /\ sh.pc = "DeleteGatewayShare" /\ sh'.pc = "DeletePrefixListShare"
        /\ shares' = [shares EXCEPT ![sh.c] = @ \ {"transit-gateway"}]
     \/ /\ sh.pc = "DeletePrefixListShare" /\ sh'.pc = "RemoveAWSFinalizer"
        /\ shares' = [shares EXCEPT ![sh.c] = @ \ {"prefix-list"}]
     \/ sh.pc = "RemoveAWSFinalizer" /\ sh'.pc = "RemoveFinalizer" /\ UNCHANGED shares

LEMMA ShareWorkerMoves ==
  ASSUME TypeOK, SHStep
  PROVE  ShareEnds \/ ShareDecides \/ ShareAdds \/ ShareWithdraws
<1>0. /\ sh \in [pc: SHStages, c: Clusters, obj: ClusterRec]
      /\ cluster \in [Clusters -> ClusterRec] /\ sh.c \in Clusters /\ sh.obj \in ClusterRec
  BY Typed DEF TypeOK, SHTypeOK
<1>1. ASSUME SHRetry \/ SHDone \/ sh' = SHIdle, sh.pc # "idle", UNCHANGED shares PROVE ShareEnds
  BY <1>1 DEF SHRetry, SHDone, SHIdle, ShareEnds
<1>2. CASE SHShareTransitGateway
  <2>1. CASE SHRetry
    BY <1>1, <1>2, <2>1 DEF SHShareTransitGateway, SHAt, networkVars
  <2>2. CASE ~SHRetry
    <3>1. PICK stage \in {"AddFinalizer", "SharePrefixList"} :
            /\ sh.pc = "ShareTransitGateway" /\ sh' = [sh EXCEPT !.pc = stage]
            /\ UNCHANGED <<cluster, shares>>
            /\ stage = "SharePrefixList" =>
                 sh.obj.tgw = NoGateway \/ GatewayAccount[sh.obj.tgw] = Account[sh.c]
      BY <1>2, <2>2 DEF SHShareTransitGateway, SHAt, SHGoto, networkVars
    <3> QED
      BY <1>0, <3>1 DEF ShareDecides
  <2> QED
    BY <2>1, <2>2
<1>3. CASE SHAddFinalizer
  <2> DEFINE s == cluster[sh.c]
             a == FinalizerAdded(s, sh.obj, "share")
             o == Refreshed(sh.obj, a)
  <2>0. sh.pc = "AddFinalizer" /\ UNCHANGED shares
    BY <1>3 DEF SHAddFinalizer, SHAt, networkVars
  <2>1. CASE SHRetry
    BY <1>1, <2>0, <2>1
  <2>2. CASE ~SHRetry
    <3>1. StoreCluster(sh.c, a) /\ sh' = [sh EXCEPT !.pc = "AddAWSFinalizer", !.obj = o]
      BY <1>3, <2>2 DEF SHAddFinalizer
    <3>2. Shares(a) \/ (Shares(sh.obj) /\ a.fins = s.fins)
      <4>1. sh.obj.fins \cup {"share"} = sh.obj.fins => Shares(sh.obj)
        BY DEF Shares
      <4> QED
        BY <1>0, <4>1 DEF FinalizerAdded, PatchedFins, ClusterRec, Shares
    <3> HIDE DEF a, o
    <3>3. cluster'[sh.c] = a /\ sh'.c = sh.c /\ sh'.pc = "AddAWSFinalizer"
      BY <1>0, <3>1 DEF StoreCluster
    <3> QED
      BY <2>0, <3>2, <3>3 DEF ShareAdds
  <2> QED
    BY <2>1, <2>2
<1>4. CASE SHAddAWSFinalizer
  BY <1>0, <1>1, <1>4 DEF SHAddAWSFinalizer, SHAt, SHGoto, ShareAdds, networkVars
<1>5. CASE SHApplyGatewayShare
  BY <1>0, <1>5 DEF SHApplyGatewayShare, SHAt, SHGoto, ShareAdds, ApplyResourceShare
<1>6. CASE SHSharePrefixList
  BY <1>6 DEF SHSharePrefixList, SHAt, SHIdle, ShareEnds, ApplyResourceShare, networkVars
<1>7. CASE SHDeleteGatewayShare \/ SHDeletePrefixListShare
  BY <1>0, <1>7 DEF SHDeleteGatewayShare, SHDeletePrefixListShare, SHAt, SHGoto, ShareWithdraws,
     DeleteResourceShare
<1>8. CASE SHRemoveAWSFinalizer
  BY <1>0, <1>1, <1>8 DEF SHRemoveAWSFinalizer, SHAt, SHGoto, ShareWithdraws, networkVars
<1>9. CASE SHRemoveFinalizer
  BY <1>1, <1>9 DEF SHRemoveFinalizer, SHAt, networkVars
<1> QED
  BY <1>2, <1>3, <1>4, <1>5, <1>6, <1>7, <1>8, <1>9 DEF SHStep

LEMMA ShareMoves ==
  ASSUME TypeOK, [Next]_vars
  PROVE  \/ sh' = sh /\ UNCHANGED shares
         \/ ShareEnds \/ ShareDecides \/ ShareAdds \/ ShareWithdraws
         \/ \E c \in Clusters : ShareTakes(c)
         \/ sh'.pc = "idle" /\ UNCHANGED shares
<1>1. CASE SHWork
  BY <1>1, ShareWorkerMoves DEF SHWork
<1>2. CASE NTWork
  BY <1>2 DEF NTWork, NTStep, NTAddFinalizer, NTAddAWSFinalizer, NTModeNotSupported, NTInvalidMode,
     NTIDMissing, NTNoGateway, NTSaveGateway, NTNotReady, NTNoVPC, NTSavePrefixList, NTUpdateStatus,
     NTUnregister, NTRemoveAWSFinalizer, NTRemoveFinalizer, NTFindGateway, networkVars,
     NTPublish, PublishSNSMessage, NTDeleteGateway, DeleteGateway, NTCreateGateway, CreateGateway,
     NTAddToPrefixList, AddEntry, NTRemoveFromPrefixList, RemoveEntry, NTAttach, Attach, NTDetach, Detach
<1>3. CASE Fault \/ Restart \/ UNCHANGED vars
  <2>1. CASE SHAWSReadFails
    <3>1. sh \in [pc: SHStages, c: Clusters, obj: ClusterRec]
      BY DEF TypeOK, SHTypeOK
    <3> QED
      BY <2>1, <3>1 DEF SHAWSReadFails, SHAt, SHGoto, ShareWithdraws, networkVars
  <2>2. CASE \/ (NTFault \/ NTAWSReadFails) /\ UNCHANGED sh
             \/ SHFault \/ Restart \/ UNCHANGED vars
    BY <2>2 DEF NTFault, NTAWSReadFails, SHFault, SHRetry, Restart, SHIdle, networkVars, vars
  <2> QED
    BY <1>3, <2>1, <2>2 DEF Fault
<1>4. ASSUME NEW c \in Clusters, SHTake(c)
      PROVE  (sh'.pc = "idle" /\ UNCHANGED shares) \/ ShareTakes(c)
  <2>1. \/ sh' = SHIdle
        \/ /\ sh' = [pc |-> SHFirst(cached[c]), c |-> c, obj |-> cached[c]]
           /\ SHFirst(cached[c]) \in {"ShareTransitGateway", "DeleteGatewayShare"}
    BY <1>4 DEF SHTake, SHGet, SHFirst
  <2>2. sh.pc = "idle" /\ Readable(c) /\ UNCHANGED <<cluster, shares>>
    BY <1>4 DEF SHTake, SHGet, SHAt, networkVars
  <2> QED
    BY <2>1, <2>2 DEF ShareTakes, SHIdle
<1>5. ASSUME NEW c \in Clusters, NTTake(c) \/ Deliver(c) \/ Provision(c) \/ User(c)
      PROVE  sh' = sh /\ UNCHANGED shares
  BY <1>5 DEF NTTake, NTGet, Deliver, Provision, User, networkVars
<1>6. ASSUME NEW t \in Gateways, AWS(t)
      PROVE  sh' = sh /\ UNCHANGED shares
  BY <1>6 DEF AWS, GatewayAvailable, AttachmentDeleted, AcceptAttachment
<1> QED
  BY <1>1, <1>2, <1>3, <1>4, <1>5, <1>6 DEF Next

-----------------------------------------------------------------------------
(* A finalizer leaves a Cluster by its own reconciler only.                 *)

\* The worker that unregisters has read a deletion; a deletion is not taken back.
LEMMA DeletionsStay ==
  ASSUME IInv, IInv', [Next]_vars, NEW c \in Clusters
  PROVE  /\ nt.pc \in UnregisterStages => Past(cluster[nt.c])
         /\ Past(cluster[c]) => Past(cluster'[c])
         /\ cluster'[c].phase = "live" => cluster[c].phase = "live"
<1>1. nt.pc \in UnregisterStages => Past(cluster[nt.c])
  <2>1. ClusterFollows(cached[nt.c], cluster[nt.c])
    BY Known, Typed DEF IInv
  <2> QED
    BY <2>1 DEF IInv, NTInv, ClusterFollows
<1>2. /\ cluster[c].phase \in {"live", "deleting", "gone"} /\ cluster'[c].phase \in Phases
      /\ cluster'[c].phase # "none" /\ Keeps(c, cluster'[c])
  BY Known, ClusterKeeps DEF ClusterRec, Phases, IInv, TypeOK, StoreTypeOK, ClusterHistory, ClusterLine
<1>3. Past(cluster[c]) => Past(cluster'[c])
  BY <1>2 DEF Keeps, Past, Phases
<1> QED
  BY <1>1, <1>2, <1>3 DEF Keeps

LEMMA Unguards ==
  ASSUME IInv, [Next]_vars, NEW c \in Clusters, Protected(cluster[c]), ~Protected(cluster'[c])
  PROVE  nt.c = c /\ nt.pc = "RemoveFinalizer" /\ nt'.pc = "idle" /\ sh' = sh
<1>1. Writes(c, cluster'[c])
  BY ClusterWrites DEF IInv
<1>2. NTAdds(c, cluster'[c]) \/ NTRemoves(c, cluster'[c]) \/ SHAdds(c, cluster'[c])
      \/ SHRemoves(c, cluster'[c])
  BY <1>1 DEF Writes, Protected
<1>3. ~SHAdds(c, cluster'[c])
  BY DEF SHAdds, Protected, IInv, SHInv
<1>4. ~SHRemoves(c, cluster'[c])
  BY DEF SHRemoves, IInv, SHInv, SHReleaseStages
<1>5. ~NTAdds(c, cluster'[c])
  BY DEF NTAdds, Protected
<1> QED
  BY <1>2, <1>3, <1>4, <1>5 DEF NTRemoves

LEMMA Unshares ==
  ASSUME IInv, FinsInv, [Next]_vars, NEW c \in Clusters, Shares(cluster[c]), ~Shares(cluster'[c])
  PROVE  sh.c = c /\ sh.pc = "RemoveFinalizer" /\ sh'.pc = "idle"
<1>1. Writes(c, cluster'[c])
  BY ClusterWrites DEF IInv
<1>2. NTAdds(c, cluster'[c]) \/ NTRemoves(c, cluster'[c]) \/ SHAdds(c, cluster'[c])
      \/ SHRemoves(c, cluster'[c])
  BY <1>1 DEF Writes, Shares
<1>3. ~SHAdds(c, cluster'[c])
  BY DEF SHAdds, Shares
<1>4. ~NTAdds(c, cluster'[c])
  BY DEF NTAdds, FinsInv, Shares
<1>5. ~NTRemoves(c, cluster'[c])
  BY DEF NTRemoves, FinsInv, Shares, UnregisterStages, ReleaseStages
<1> QED
  BY <1>2, <1>3, <1>4, <1>5 DEF SHRemoves

-----------------------------------------------------------------------------
(* The parts of the invariant, step by step.                                *)

\* Where the worker that names gateways is.
LEMMA AttachesNamed ==
  ASSUME IInv, NamingInv, NTModeInv, NamedInv, CopyInv, [Next]_vars,
         NEW c \in Clusters, NEW t \in Gateways, Attached(t, c)'
  PROVE  /\ cluster[c].tgw = t /\ cluster[c].mode \in Supported
         /\ \A x \in SeenAWS(c) : Exists(x) /\ x.vpc
         /\ HasAttachment(c) \/ UNCHANGED <<awsCluster, awsFeed, cachedAWS>>
         /\ Attached(t, c) \/ (nt.pc = "Attach" /\ nt.c = c /\ UNCHANGED <<cluster, shares>> /\ Visible(t, c))
<1>1. CASE Attached(t, c)
  BY <1>1 DEF NamedInv, Attached, HasAttachment
<1>2. CASE ~Attached(t, c)
  <2>1. /\ NTAttach /\ nt.pc = "Attach" /\ nt.c = c /\ nt.gw = t
        /\ UNCHANGED <<cluster, cached, cachedAWS, feed, awsFeed, awsCluster, shares>>
        /\ Exists(cachedAWS[c]) /\ cachedAWS[c].vpc /\ Exists(awsCluster[c]) /\ Visible(t, c)
    BY <1>2, NewAttachment DEF IInv
  <2>2. cluster[c].tgw = t /\ cluster[c].mode \in Supported
    <3>1. nt.obj.mode \in Supported /\ cluster[c].tgw = t
      BY <2>1 DEF NTModeInv, NamingInv, ConnectStages
    <3> QED
      BY <2>1, <3>1, CopyMode
  <2>3. Ready(cachedAWS[c], awsFeed[c])
    <3>1. AWSLine(cachedAWS[c], awsFeed[c], awsCluster[c])
          /\ cachedAWS[c] \in AWSRec /\ awsCluster[c] \in AWSRec /\ awsFeed[c] \in Seq(AWSRec)
      BY DEF IInv, AWSHistory, TypeOK, StoreTypeOK
    <3> QED
      BY <2>1, <3>1, ReadyWhenSeen
  <2> QED
    BY <2>1, <2>2, <2>3 DEF SeenAWS, Versions, Ready
<1> QED
  BY <1>1, <1>2

LEMMA NamedStep ==
  ASSUME AnnotationsLeftToOperator, IInv, IInv', NamingInv, NTModeInv, NamedInv, CopyInv, [Next]_vars
  PROVE  NamedInv'
<1>0. nt.c \in Clusters /\ nt'.c \in Clusters /\ nt \in NTWorkers /\ nt' \in NTWorkers
  BY Typed, NextTypeOK DEF IInv, TypeOK, NTTypeOK, NTWorkers
<1>1. ASSUME NEW t \in Gateways, NEW c \in Clusters, Attached(t, c)'
      PROVE  /\ cluster'[c].tgw = t /\ cluster'[c].mode \in Supported
             /\ \A x \in SeenAWS(c)' : Exists(x) /\ x.vpc
  <2>1. /\ cluster[c].tgw = t /\ cluster[c].mode \in Supported
        /\ \A x \in SeenAWS(c) : Exists(x) /\ x.vpc
        /\ HasAttachment(c) \/ UNCHANGED <<awsCluster, awsFeed, cachedAWS>>
    BY <1>1, AttachesNamed
  <2>2. cluster'[c].tgw = t
    BY <2>1, TgwSticks, StoreAssumption
  <2>3. cluster'[c].mode \in Supported
    BY <2>1, SupportedStays
  <2>4. Exists(awsCluster'[c]) /\ awsCluster'[c].vpc
    <3>1. awsCluster[c] \in SeenAWS(c)
      BY SeenMoves
    <3> QED
      BY <2>1, <3>1, InfrastructureStays
  <2>5. SeenAWS(c)' \subseteq SeenAWS(c) \cup {awsCluster'[c]}
    BY SeenMoves
  <2> QED
    BY <2>1, <2>2, <2>3, <2>4, <2>5
<1>2. ASSUME nt'.pc \in {"RemoveFromPrefixList", "Detach"}, NEW c \in Clusters, c = nt'.c,
             NEW t \in Gateways, Attached(t, c)'
      PROVE  nt'.vpc
  <2>1. /\ \A x \in SeenAWS(c) : Exists(x) /\ x.vpc
        /\ Attached(t, c) \/ nt.pc = "Attach"
    BY <1>2, AttachesNamed
  <2>2. CASE nt' = nt
    BY <1>2, <2>1, <2>2 DEF NamedInv, OnNet
  <2>3. CASE GoesOn
    <3>1. nt.pc = "RemoveFromPrefixList" /\ nt'.vpc = nt.vpc /\ nt'.c = nt.c
      BY <1>2, <2>3 DEF GoesOn, Onward
    <3> QED
      BY <1>2, <2>1, <3>1 DEF NamedInv, OnNet
  <2>4. CASE Unregisters
    <3>1. cachedAWS[c] \in SeenAWS(c)
      BY SeenMoves
    <3> QED
      BY <1>2, <2>1, <2>4, <3>1 DEF Unregisters
  <2>5. ASSUME Ends \/ Protects \/ Registers \/ Names \/ (\E u \in Gateways : Settles(u))
               \/ \E d \in Clusters : Takes(d)
        PROVE  nt'.pc \notin {"RemoveFromPrefixList", "Detach"}
    BY <2>5 DEF Ends, Protects, Registers, Names, Settles, Takes
  <2> QED
    BY <1>2, <2>2, <2>3, <2>4, <2>5, WorkerMoves DEF IInv
<1> QED
  BY <1>0, <1>1, <1>2 DEF NamedInv, OnNet, Attached

LEMMA CopyStep ==
  ASSUME CaughtUp, IInv, IInv', NamingInv, NTModeInv, NamedInv, CopyInv, [Next]_vars
  PROVE  CopyInv'
<1>0. nt.c \in Clusters /\ nt'.c \in Clusters
  BY Typed DEF IInv, TypeOK, NTTypeOK
<1>1. ASSUME NEW c \in Clusters, ~(nt.c = c /\ nt.pc \in RegisterStages)
      PROVE  cluster'[c].tgw = cluster[c].tgw
  BY <1>0, <1>1, ClusterWrites DEF Writes, IInv
<1>2. ASSUME nt'.pc # "idle"
      PROVE  nt'.obj.tgw = cluster'[nt'.c].tgw
  <2>1. \/ cluster'[nt.c].tgw = cluster[nt.c].tgw
        \/ nt'.c = nt.c /\ nt'.obj.tgw = cluster'[nt.c].tgw
    BY <1>0, ClusterWrites DEF Writes, IInv
  <2>2. nt.pc # "idle" => nt.obj.tgw = cluster[nt.c].tgw
    BY DEF CopyInv
  <2>3. CASE nt' = nt \/ GoesOn \/ Unregisters \/ \E t \in Gateways : Settles(t)
    <3>1. nt.pc # "idle" /\ nt'.c = nt.c /\ nt'.obj = nt.obj
      BY <1>2, <2>3 DEF GoesOn, Onward, Unregisters, Settles
    <3> QED
      BY <2>1, <2>2, <3>1
  <2>4. CASE Protects
    <3>1. nt.pc \notin RegisterStages
      BY <2>4 DEF Protects, RegisterStages
    <3> QED
      BY <1>0, <1>1, <2>4, <3>1 DEF Protects
  <2>5. CASE Names
    <3>1. cluster'[nt.c].tgw = nt.gw
      BY <1>0, <2>5, Typed DEF Names, ClusterRec, IInv
    <3> QED
      BY <2>5, <3>1 DEF Names
  <2>6. CASE Registers
    <3>1. nt'.c = nt.c /\ nt.pc # "idle"
      BY <2>6 DEF Registers, RegisterStages
    <3>2. nt'.obj.tgw = cluster[nt.c].tgw
      BY <2>2, <2>6, <3>1 DEF Registers
    <3> QED
      BY <2>1, <3>1, <3>2
  <2>7. ASSUME NEW c \in Clusters, Takes(c)
        PROVE  nt'.obj.tgw = cluster'[nt'.c].tgw
    <3>1. cached[c] = cluster[c] /\ nt.pc \notin RegisterStages
      BY <2>7, CaughtUpReads DEF Takes, RegisterStages
    <3> QED
      BY <1>1, <2>7, <3>1 DEF Takes
  <2> QED
    BY <1>2, <2>3, <2>4, <2>5, <2>6, <2>7, WorkerMoves DEF Ends, IInv
<1>3. ASSUME nt'.pc \in ReleaseStages, NEW c \in Clusters, c = nt'.c, NEW t \in Gateways, Attached(t, c)'
      PROVE  FALSE
  <2>1. /\ cluster[c].tgw = t /\ cluster[c].mode \in Supported
        /\ \A x \in SeenAWS(c) : Exists(x) /\ x.vpc
        /\ Attached(t, c) \/ (nt.pc = "Attach" /\ nt.c = c)
    BY <1>3, AttachesNamed
  <2>2. CASE nt' = nt
    <3>1. nt.pc # "Attach" /\ nt.c = c
      BY <1>3, <2>2 DEF ReleaseStages
    <3> QED
      BY <1>3, <2>1, <2>2, <3>1 DEF CopyInv, OnNet
  <2>3. CASE GoesOn
    <3>1. nt'.c = nt.c /\ nt.pc \in {"Detach"} \cup ReleaseStages
      BY <1>3, <2>3 DEF GoesOn, Onward, ReleaseStages
    <3>2. Attached(t, c)
      BY <2>1, <3>1 DEF ReleaseStages
    <3>3. CASE nt.pc = "Detach"
      <4>1. nt.vpc
        BY <1>3, <3>1, <3>2, <3>3 DEF NamedInv, OnNet
      <4>2. nt.obj.tgw = t
        BY <1>3, <2>1, <3>1, <3>3 DEF CopyInv
      <4> QED
        BY <1>3, <3>1, <3>3, <4>1, <4>2, DetachMoves DEF IInv
    <3>4. CASE nt.pc \in ReleaseStages
      BY <1>3, <3>1, <3>2, <3>4 DEF CopyInv, OnNet
    <3> QED
      BY <3>1, <3>3, <3>4
  <2>4. CASE Unregisters
    <3>1. nt.pc = "Unregister" /\ nt'.c = nt.c /\ nt'.pc = "RemoveAWSFinalizer"
      BY <1>3, <2>4 DEF Unregisters, ReleaseStages
    <3>2. nt.obj.mode \in Supported
      <4>1. nt.pc # "idle" /\ Past(nt.obj)
        BY <3>1 DEF IInv, NTInv, UnregisterStages
      <4> QED
        BY <1>3, <2>1, <3>1, <4>1, CopyMode
    <3>3. Exists(cachedAWS[c])
      BY <2>1, SeenMoves
    <3> QED
      BY <1>3, <2>4, <3>1, <3>2, <3>3 DEF Unregisters, Supported, GSM
  <2>5. ASSUME Ends \/ Protects \/ Registers \/ Names \/ (\E u \in Gateways : Settles(u))
               \/ \E d \in Clusters : Takes(d)
        PROVE  nt'.pc \notin ReleaseStages
    BY <2>5 DEF Ends, Protects, Registers, Names, Settles, Takes, ReleaseStages
  <2> QED
    BY <1>3, <2>2, <2>3, <2>4, <2>5, WorkerMoves DEF IInv
<1>4. ASSUME NEW c \in Clusters, NEW t \in Gateways, Attached(t, c)'
      PROVE  Protected(cluster'[c])
  <2>1. Attached(t, c) \/ (nt.pc = "Attach" /\ nt.c = c)
    BY <1>4, AttachesNamed
  <2>2. Protected(cluster[c])
    BY <2>1 DEF CopyInv, OnNet, IInv, NTInv, RegisterStages
  <2>3. ~(nt.c = c /\ nt.pc = "RemoveFinalizer")
    BY <2>1 DEF CopyInv, OnNet, ReleaseStages
  <2> QED
    BY <2>2, <2>3, Unguards
<1> QED
  BY <1>0, <1>2, <1>3, <1>4 DEF CopyInv, OnNet, Attached

LEMMA FinsStep ==
  ASSUME CaughtUp, IInv, IInv', FinsInv, [Next]_vars
  PROVE  FinsInv'
<1>0. /\ nt.c \in Clusters /\ nt'.c \in Clusters /\ sh.c \in Clusters /\ sh'.c \in Clusters
      /\ \A c \in Clusters : Writes(c, cluster'[c]) /\ cluster[c] \in ClusterRec
  BY Typed, ClusterWrites DEF IInv, TypeOK, NTTypeOK, SHTypeOK
<1>1. ASSUME NEW c \in Clusters, cluster'[c].phase = "live", Shares(cluster'[c])
      PROVE  Protected(cluster'[c])
  <2>1. cluster[c].phase = "live" /\ ~Past(cluster[c])
    BY <1>1, DeletionsStay DEF Past
  <2>2. CASE cluster'[c].fins = cluster[c].fins
    BY <1>1, <2>1, <2>2 DEF FinsInv, Shares, Protected
  <2>3. CASE NTAdds(c, cluster'[c])
    BY <2>3 DEF NTAdds, Protected
  <2>4. ~NTRemoves(c, cluster'[c])
    BY <2>1, DeletionsStay DEF NTRemoves, UnregisterStages, ReleaseStages
  <2>5. CASE SHAdds(c, cluster'[c])
    BY <2>5 DEF SHAdds, Protected, IInv, SHInv
  <2>6. ~SHRemoves(c, cluster'[c])
    BY <2>1 DEF SHRemoves, IInv, SHInv, SHReleaseStages
  <2> QED
    BY <1>0, <2>2, <2>3, <2>4, <2>5, <2>6 DEF Writes
<1>2. ASSUME nt'.pc = "AddFinalizer", ~Protected(nt'.obj)
      PROVE  cluster'[nt'.c].fins = {}
  <2>1. CASE nt' = nt
    <3> DEFINE c == nt.c
    <3>1. cluster[c].fins = {} /\ nt'.pc = "AddFinalizer"
      BY <1>2, <2>1 DEF FinsInv
    <3>2. CASE cluster'[c].fins = cluster[c].fins
      BY <2>1, <3>1, <3>2
    <3>3. CASE cluster'[c].fins # cluster[c].fins
      <4>1. Exists(cluster[c]) /\ (cluster[c].phase = "deleting" => cluster'[c].fins \subseteq cluster[c].fins)
        BY <1>0, <3>3 DEF Writes
      <4>2. SHAdds(c, cluster'[c]) \/ SHRemoves(c, cluster'[c])
        BY <1>0, <2>1, <3>1, <3>3 DEF Writes, NTAdds, NTRemoves
      <4>3. Past(cluster[c])
        <5>1. CASE SHAdds(c, cluster'[c])
          <6>1. Protected(sh.obj)
            BY <5>1 DEF SHAdds, IInv, SHInv
          <6>2. ~Protected(cluster[c])
            BY <3>1 DEF Protected
          <6> QED
            BY <5>1, <6>1, <6>2 DEF SHAdds, FinsInv
        <5>2. CASE SHRemoves(c, cluster'[c])
          BY <5>2 DEF SHRemoves, IInv, SHInv, SHReleaseStages
        <5> QED
          BY <4>2, <5>1, <5>2
      <4>4. cluster[c].phase = "deleting"
        BY <4>1, <4>3 DEF Exists, Past
      <4> QED
        BY <2>1, <3>1, <4>1, <4>4
    <3> QED
      BY <3>2, <3>3
  <2>2. ASSUME NEW c \in Clusters, Takes(c)
        PROVE  cluster'[nt'.c].fins = {}
    <3>1. /\ cached[c] = cluster[c] /\ nt'.c = c /\ nt'.obj.fins = cached[c].fins
          /\ cached[c].phase = "live" /\ nt.pc = "idle" /\ sh' = sh
      BY <1>2, <2>2, CaughtUpReads DEF Takes
    <3>2. ~Protected(cluster[c]) /\ ~Shares(cluster[c])
      BY <1>2, <3>1 DEF FinsInv, Protected
    <3>3. cluster[c].fins = {}
      BY <1>0, <3>2 DEF ClusterRec, Finalizers, Protected, Shares
    <3>4. cluster'[c].fins = cluster[c].fins
      BY <1>0, <1>2, <3>1 DEF Writes, NTAdds, NTRemoves, SHAdds, SHRemoves
    <3> QED
      BY <3>1, <3>3, <3>4
  <2>3. ASSUME Ends \/ GoesOn \/ Unregisters \/ Protects \/ Registers \/ Names
               \/ \E u \in Gateways : Settles(u)
        PROVE  nt'.pc # "AddFinalizer"
    BY <2>3 DEF Ends, GoesOn, Onward, Unregisters, Protects, Registers, Names, Settles
  <2> QED
    BY <1>2, <2>1, <2>2, <2>3, WorkerMoves DEF IInv
<1>3. ASSUME nt'.pc \in UnregisterStages
      PROVE  cluster'[nt'.c].fins \subseteq nt'.obj.fins
  <2>1. CASE nt' = nt \/ GoesOn \/ Unregisters
    <3>1. nt.pc \in UnregisterStages /\ nt'.c = nt.c /\ nt'.obj = nt.obj
      BY <1>3, <2>1 DEF GoesOn, Onward, Unregisters, UnregisterStages, ReleaseStages
    <3>2. cluster[nt.c].fins \subseteq nt.obj.fins
      BY <3>1 DEF FinsInv
    <3>3. Past(cluster[nt.c])
      BY <1>0, <3>1, DeletionsStay
    <3>4. cluster'[nt.c].fins \subseteq cluster[nt.c].fins
      BY <1>0, <3>3 DEF Writes, Past, Exists
    <3> QED
      BY <3>1, <3>2, <3>4
  <2>2. ASSUME NEW c \in Clusters, Takes(c)
        PROVE  cluster'[nt'.c].fins \subseteq nt'.obj.fins
    <3>1. /\ cached[c] = cluster[c] /\ nt'.c = c /\ nt'.obj.fins = cached[c].fins
          /\ nt.pc = "idle" /\ nt'.pc # "idle" /\ sh' = sh
      BY <2>2, CaughtUpReads DEF Takes
    <3>2. cluster'[c].fins = cluster[c].fins
      BY <1>0, <3>1 DEF Writes, NTAdds, NTRemoves, SHAdds, SHRemoves
    <3> QED
      BY <3>1, <3>2
  <2>3. ASSUME Ends \/ Protects \/ Registers \/ Names \/ \E u \in Gateways : Settles(u)
        PROVE  nt'.pc \notin UnregisterStages
    BY <2>3 DEF Ends, Protects, Registers, Names, Settles, UnregisterStages, ReleaseStages
  <2> QED
    BY <2>1, <2>2, <2>3, <1>3, WorkerMoves DEF IInv
<1>4. ASSUME sh'.pc \in {"ShareTransitGateway", "AddFinalizer"}
      PROVE  /\ Protected(sh'.obj) => Protected(cluster'[sh'.c]) \/ Past(cluster'[sh'.c])
             /\ Shares(sh'.obj) => Shares(cluster'[sh'.c])
  <2>1. CASE sh' = sh
    <3>1. /\ Protected(sh.obj) => Protected(cluster[sh.c]) \/ Past(cluster[sh.c])
          /\ Shares(sh.obj) => Shares(cluster[sh.c])
      BY <1>4, <2>1 DEF FinsInv
    <3>2. Past(cluster[sh.c]) => Past(cluster'[sh.c])
      BY <1>0, DeletionsStay
    <3>3. Protected(cluster[sh.c]) => Protected(cluster'[sh.c]) \/ Past(cluster'[sh.c])
      <4> SUFFICES ASSUME Protected(cluster[sh.c]), ~Protected(cluster'[sh.c])
                   PROVE  Past(cluster'[sh.c])
        OBVIOUS
      <4>1. nt.c = sh.c /\ nt.pc \in UnregisterStages
        BY <1>0, Unguards DEF UnregisterStages, ReleaseStages
      <4> QED
        BY <1>0, <3>2, <4>1, DeletionsStay
    <3>4. Shares(cluster[sh.c]) => Shares(cluster'[sh.c])
      BY <1>0, <1>4, <2>1, Unshares
    <3> QED
      BY <2>1, <3>1, <3>2, <3>3, <3>4
  <2>2. CASE ShareDecides
    <3>1. sh.pc = "ShareTransitGateway" /\ sh'.c = sh.c /\ sh'.obj = sh.obj /\ cluster' = cluster
      BY <2>2 DEF ShareDecides
    <3> QED
      BY <3>1 DEF FinsInv
  <2>3. ASSUME NEW c \in Clusters, ShareTakes(c)
        PROVE  sh'.obj = cluster'[sh'.c]
    BY <2>3, CaughtUpReads DEF ShareTakes
  <2>4. ASSUME ShareEnds \/ ShareAdds \/ ShareWithdraws \/ sh'.pc = "idle"
        PROVE  FALSE
    BY <1>4, <2>4 DEF ShareEnds, ShareAdds, ShareWithdraws
  <2> QED
    BY <2>1, <2>2, <2>3, <2>4, ShareMoves DEF IInv
<1> QED
  BY <1>1, <1>2, <1>3, <1>4 DEF FinsInv

LEMMA AccountsStep ==
  ASSUME CaughtUp, IInv, IInv', NamingInv, ReadyInv, CopyInv, AccountsInv, [Next]_vars
  PROVE  AccountsInv'
<1>0. /\ nt.c \in Clusters /\ sh.c \in Clusters /\ MC \in Clusters /\ NoGateway \notin Gateways
      /\ nt.pc = "SaveGateway" => nt.gw \in Gateways
  BY Typed, StoreAssumption DEF IInv
<1>1. ASSUME NEW c \in Clusters, cluster'[c].tgw # NoGateway
      PROVE  GatewayAccount[cluster'[c].tgw] = Account[MC]
  <2>1. CASE cluster'[c].tgw = cluster[c].tgw
    BY <1>1, <2>1 DEF AccountsInv
  <2>2. CASE Names /\ cluster'[c].tgw = nt.gw
    BY <2>2 DEF Names, AccountsInv
  <2> QED
    BY <2>1, <2>2, TgwSticks
<1>2. ASSUME NEW c \in Clusters, cluster'[c].pl
      PROVE  cluster'[c].tgw # NoGateway
  <2>1. cluster[c].pl \/ (nt.c = c /\ nt.pc = "SavePrefixList")
    BY <1>2, ClusterWrites DEF Writes, IInv
  <2>2. nt.c = c /\ nt.pc = "SavePrefixList" => cluster[c].tgw # NoGateway
    BY <1>0 DEF ReadyInv, NamingInv, ConnectStages
  <2>3. cluster[c].tgw # NoGateway
    BY <2>1, <2>2 DEF AccountsInv
  <2> QED
    BY <2>3, TgwSticks
<1>3. ASSUME nt'.pc = "SaveGateway"
      PROVE  GatewayAccount[nt'.gw] = Account[MC]
  <2>1. CASE nt' = nt
    BY <1>3, <2>1 DEF AccountsInv
  <2>2. ASSUME NEW t \in Gateways, Settles(t)
        PROVE  GatewayAccount[nt'.gw] = Account[MC]
    <3>1. nt'.gw = t /\ nt.pc = "Register" /\ t # NoGateway
      BY <1>0, <2>2 DEF Settles
    <3>2. CASE t \in {nt.obj.tgw, cached[MC].tgw}
      <4>1. nt.obj.tgw = cluster[nt.c].tgw
        BY <3>1 DEF CopyInv
      <4>2. cached[MC].tgw \in {NoGateway, cluster[MC].tgw}
        <5>1. cached[MC] \in Seen(MC)
          BY <1>0, SeenMoves
        <5> QED
          BY <1>0, <5>1 DEF NamingInv
      <4>3. t \in {cluster[nt.c].tgw, cluster[MC].tgw}
        BY <3>1, <3>2, <4>1, <4>2
      <4> QED
        BY <1>0, <3>1, <4>3 DEF AccountsInv
    <3> QED
      BY <2>2, <3>1, <3>2 DEF Settles
  <2>3. ASSUME Ends \/ GoesOn \/ Unregisters \/ Protects \/ Registers \/ Names
               \/ \E c \in Clusters : Takes(c)
        PROVE  nt'.pc # "SaveGateway"
    BY <2>3 DEF Ends, GoesOn, Onward, Unregisters, Protects, Registers, Names, Takes
  <2> QED
    BY <1>3, <2>1, <2>2, <2>3, WorkerMoves DEF IInv
<1>4. ASSUME sh'.pc = "ShareTransitGateway"
      PROVE  /\ sh'.obj.tgw # NoGateway => GatewayAccount[sh'.obj.tgw] = Account[MC]
             /\ sh'.obj.pl => sh'.obj.tgw # NoGateway
  <2>1. CASE sh' = sh
    BY <1>4, <2>1 DEF AccountsInv
  <2>2. ASSUME NEW c \in Clusters, ShareTakes(c)
        PROVE  sh'.obj = cluster[c]
    BY <2>2, CaughtUpReads DEF ShareTakes
  <2>3. ASSUME ShareEnds \/ ShareDecides \/ ShareAdds \/ ShareWithdraws \/ sh'.pc = "idle"
        PROVE  FALSE
    BY <1>4, <2>3 DEF ShareEnds, ShareDecides, ShareAdds, ShareWithdraws
  <2> QED
    BY <2>1, <2>2, <2>3, ShareMoves DEF IInv, AccountsInv
<1> QED
  BY <1>1, <1>2, <1>3, <1>4 DEF AccountsInv

LEMMA WithdrawStep ==
  ASSUME IInv, IInv', NamingInv, NTModeInv, GuardInv, AccountsInv, WithdrawInv, [Next]_vars
  PROVE  WithdrawInv'
<1>0. /\ sh.c \in Clusters /\ sh'.c \in Clusters /\ shares \in [Clusters -> SUBSET ShareKinds]
      /\ NamedInv /\ CopyInv /\ FinsInv /\ ShareKinds = {"transit-gateway", "prefix-list"}
  BY Typed DEF IInv, TypeOK, NetworkTypeOK, SHTypeOK, GuardInv, ShareKinds
<1>m. \/ sh' = sh /\ UNCHANGED shares
      \/ ShareEnds \/ ShareDecides \/ ShareAdds \/ ShareWithdraws
      \/ \E c \in Clusters : ShareTakes(c)
      \/ sh'.pc = "idle" /\ UNCHANGED shares
  BY ShareMoves DEF IInv
\* What the cluster of a share step had has not been lost in it.
<1>s. ASSUME NEW c \in Clusters, Shares(cluster[c]), ~(sh.c = c /\ sh.pc = "RemoveFinalizer")
      PROVE  Shares(cluster'[c])
  BY <1>0, <1>s, Unshares
<1>1. ASSUME NEW c \in Clusters, shares'[c] # {}
      PROVE  Shares(cluster'[c])
  <2>1. CASE shares'[c] = shares[c]
    <3>1. Shares(cluster[c])
      BY <1>1, <2>1 DEF WithdrawInv
    <3>2. ~(sh.c = c /\ sh.pc = "RemoveFinalizer")
      BY <1>1, <2>1 DEF WithdrawInv
    <3> QED
      BY <1>s, <3>1, <3>2
  <2>2. CASE shares'[c] # shares[c] /\ ShareEnds
    <3>1. sh.c = c /\ sh.pc = "SharePrefixList" /\ sh.obj.pl /\ Account[sh.c] # Account[MC]
      BY <1>0, <2>2 DEF ShareEnds
    <3> QED
      BY <1>s, <3>1 DEF WithdrawInv
  <2>3. CASE shares'[c] # shares[c] /\ ShareAdds
    <3>1. sh.c = c /\ sh.pc = "ApplyGatewayShare"
      BY <1>0, <2>3 DEF ShareAdds
    <3> QED
      BY <1>s, <3>1 DEF WithdrawInv
  <2>4. CASE shares'[c] # shares[c] /\ ShareWithdraws
    <3>1. sh.c = c /\ sh.pc \in {"DeleteGatewayShare", "DeletePrefixListShare"} /\ shares[c] # {}
      BY <1>0, <2>4 DEF ShareWithdraws
    <3> QED
      BY <1>s, <3>1 DEF WithdrawInv
  <2> QED
    BY <1>m, <2>1, <2>2, <2>3, <2>4 DEF ShareDecides, ShareTakes
<1>2. ASSUME sh'.pc \in {"AddAWSFinalizer", "ApplyGatewayShare"}
      PROVE  Shares(cluster'[sh'.c])
  <2>1. CASE sh' = sh
    BY <1>0, <1>2, <1>s, <2>1 DEF WithdrawInv
  <2>2. CASE ShareAdds
    <3>1. CASE sh.pc = "AddFinalizer"
      <4>1. /\ Shares(cluster'[sh.c]) \/ (Shares(sh.obj) /\ cluster'[sh.c].fins = cluster[sh.c].fins)
            /\ sh'.c = sh.c
        BY <2>2, <3>1 DEF ShareAdds
      <4>2. Shares(sh.obj) => Shares(cluster[sh.c])
        BY <1>0, <3>1 DEF FinsInv
      <4> QED
        BY <4>1, <4>2 DEF Shares
    <3>2. CASE sh.pc # "AddFinalizer"
      <4>1. sh'.c = sh.c /\ sh.pc \in {"AddAWSFinalizer"}
        BY <1>2, <2>2, <3>2 DEF ShareAdds
      <4> QED
        BY <1>0, <1>s, <4>1 DEF WithdrawInv
    <3> QED
      BY <3>1, <3>2
  <2> QED
    BY <1>2, <1>m, <2>1, <2>2 DEF ShareEnds, ShareDecides, ShareWithdraws, ShareTakes
<1>3. ASSUME sh'.pc = "SharePrefixList", sh'.obj.pl, Account[sh'.c] # Account[MC]
      PROVE  Shares(cluster'[sh'.c])
  <2>1. CASE sh' = sh
    BY <1>0, <1>3, <1>s, <2>1 DEF WithdrawInv
  <2>2. CASE ShareAdds
    <3>1. sh'.c = sh.c /\ sh.pc = "ApplyGatewayShare"
      BY <1>3, <2>2 DEF ShareAdds
    <3> QED
      BY <1>0, <1>s, <3>1 DEF WithdrawInv
  <2>3. CASE ShareDecides
    <3>1. /\ sh.pc = "ShareTransitGateway" /\ sh.obj.pl /\ Account[sh.c] # Account[MC]
          /\ sh.obj.tgw = NoGateway \/ GatewayAccount[sh.obj.tgw] = Account[sh.c]
      BY <1>3, <2>3 DEF ShareDecides
    <3> QED
      BY <3>1 DEF AccountsInv
  <2> QED
    BY <1>3, <1>m, <2>1, <2>2, <2>3 DEF ShareEnds, ShareWithdraws, ShareTakes
<1>4. ASSUME sh'.pc = "DeletePrefixListShare"
      PROVE  "transit-gateway" \notin shares'[sh'.c]
  <2>1. CASE sh' = sh /\ UNCHANGED shares
    BY <1>4, <2>1 DEF WithdrawInv
  <2>2. CASE ShareWithdraws
    BY <1>0, <1>4, <2>2 DEF ShareWithdraws
  <2> QED
    BY <1>4, <1>m, <2>1, <2>2 DEF ShareEnds, ShareDecides, ShareAdds, ShareTakes
<1>5. ASSUME sh'.pc \in {"RemoveAWSFinalizer", "RemoveFinalizer"}
      PROVE  shares'[sh'.c] = {}
  <2>1. CASE sh' = sh /\ UNCHANGED shares
    BY <1>5, <2>1 DEF WithdrawInv
  <2>2. CASE ShareWithdraws
    <3>1. CASE sh.pc = "DeletePrefixListShare"
      <4>1. shares[sh.c] \subseteq {"transit-gateway", "prefix-list"} /\ "transit-gateway" \notin shares[sh.c]
        BY <1>0, <3>1 DEF WithdrawInv
      <4>2. sh'.c = sh.c /\ shares' = [shares EXCEPT ![sh.c] = @ \ {"prefix-list"}]
        BY <2>2, <3>1 DEF ShareWithdraws
      <4> QED
        BY <1>0, <4>1, <4>2
    <3>2. CASE sh.pc # "DeletePrefixListShare"
      <4>1. sh.pc = "RemoveAWSFinalizer" /\ sh'.c = sh.c /\ UNCHANGED shares
        BY <1>5, <2>2, <3>2 DEF ShareWithdraws
      <4> QED
        BY <4>1 DEF WithdrawInv
    <3> QED
      BY <3>1, <3>2
  <2> QED
    BY <1>5, <1>m, <2>1, <2>2 DEF ShareEnds, ShareDecides, ShareAdds, ShareTakes
<1>6. ASSUME NEW t \in Gateways, NEW c \in Clusters, Attached(t, c)', GatewayAccount[t] # Account[c]
      PROVE  "transit-gateway" \in shares'[c]
  <2>1. Attached(t, c) \/ (nt.pc = "Attach" /\ nt.c = c /\ UNCHANGED <<cluster, shares>> /\ Visible(t, c))
    BY <1>0, <1>6, AttachesNamed
  <2>2. CASE Attached(t, c)
    <3>1. "transit-gateway" \in shares[c]
      BY <1>6, <2>2 DEF WithdrawInv
    <3>2. ~(sh.c = c /\ sh.pc = "DeleteGatewayShare")
      <4>1. Protected(cluster[c])
        BY <1>0, <2>2 DEF CopyInv, OnNet
      <4> QED
        BY <4>1 DEF IInv, SHInv, SHReleaseStages
    <3> QED
      BY <1>0, <1>m, <3>1, <3>2 DEF ShareEnds, ShareDecides, ShareAdds, ShareWithdraws, ShareTakes
  <2>3. CASE ~Attached(t, c)
    BY <1>6, <2>1, <2>3 DEF Visible
  <2> QED
    BY <2>2, <2>3
<1> QED
  BY <1>1, <1>2, <1>3, <1>4, <1>5, <1>6 DEF WithdrawInv, Attached

-----------------------------------------------------------------------------
(* The first states and the steps together.                                 *)

\* Who is attached to begin with is a management cluster that is set up.
LEMMA GuardsInit ==
  ASSUME Init, AnnotationsLeftToOperator
  PROVE  GuardInv /\ (ListsLeftToOperator => AccountsInv /\ WithdrawInv)
<1> DEFINE settled == Clusters \ Churn
<1>1. TypeOK /\ MC \in Clusters /\ settled \subseteq {MC} /\ NoGateway \notin Gateways
  BY InitInv, StoreAssumption DEF IInv
<1>2. \A c \in Churn : /\ cluster[c].fins = {} /\ cluster[c].tgw \in UserGateways
                       /\ UserLists = {FALSE} => ~cluster[c].pl
  <2>1. PICK m \in [Churn -> UserModes], t \in [Churn -> UserGateways], p \in [Churn -> UserLists] :
          cluster = [c \in Clusters |-> IF c \in Churn THEN NewCluster(m[c], t[c], p[c])
                                                       ELSE SettledCluster]
    BY DEF Init, StoreInit
  <2>2. \A c \in Churn : /\ c \in Clusters /\ t[c] \in UserGateways
                         /\ UserLists = {FALSE} => ~p[c]
    BY StoreAssumption
  <2> SUFFICES ASSUME NEW c \in Churn
               PROVE  /\ cluster[c].fins = {} /\ cluster[c].tgw \in UserGateways
                      /\ UserLists = {FALSE} => ~cluster[c].pl
    OBVIOUS
  <2>3. cluster[c] = NewCluster(m[c], t[c], p[c])
    BY <2>1, <2>2
  <2>4. cluster[c].fins = {} /\ cluster[c].tgw = t[c] /\ cluster[c].pl = p[c]
    BY <2>3 DEF NewCluster
  <2> QED
    BY <2>2, <2>4
<1>3. \A c \in settled : /\ cluster[c].fins = {"nettop"} /\ cluster[c].tgw = Gateway0
                         /\ cluster[c].mode \in Supported
  BY DEF Init, StoreInit, SettledCluster, Supported
<1>4. \A c \in settled : \A x \in SeenAWS(c) : Exists(x) /\ x.vpc
  <2>1. \A c \in settled : /\ cachedAWS[c] = awsCluster[c] /\ awsFeed[c] = <<>>
                           /\ awsCluster[c].vpc /\ Exists(awsCluster[c])
    BY StoreAssumption DEF Init, StoreInit, SettledAWSCluster, Exists
  <2>2. \A c \in settled : awsCluster[c] \in AWSRec /\ <<>> \in Seq(AWSRec)
    BY <1>1 DEF TypeOK, StoreTypeOK
  <2>3. \A c \in settled : SeenAWS(c) = {awsCluster[c]}
    BY <2>1, <2>2, VersionsMove DEF SeenAWS
  <2> QED
    BY <2>1, <2>3
<1>5. \A t \in Gateways, c \in Clusters : Attached(t, c) => c \in settled /\ t = Gateway0
  BY DEF Init, NetworkInit, Attached
<1>6. nt.pc = "idle" /\ sh.pc = "idle" /\ \A c \in Clusters : shares[c] = {}
  BY DEF Init, NTInit, SHInit, NTIdle, SHIdle, NetworkInit
<1>7. NamedInv
  BY <1>3, <1>4, <1>5, <1>6 DEF NamedInv, ConnectStages
<1>8. CopyInv
  BY <1>3, <1>5, <1>6 DEF CopyInv, OnNet, Protected, ReleaseStages
<1>9. FinsInv
  BY <1>2, <1>3, <1>6 DEF FinsInv, Protected, Shares, UnregisterStages, ReleaseStages
<1>10. ASSUME ListsLeftToOperator PROVE AccountsInv
  BY <1>1, <1>2, <1>3, <1>6, <1>10, StoreAssumption DEF AccountsInv, ListsLeftToOperator
<1>11. ASSUME ListsLeftToOperator PROVE WithdrawInv
  BY <1>1, <1>5, <1>6, <1>11 DEF WithdrawInv, ListsLeftToOperator
<1> QED
  BY <1>7, <1>8, <1>9, <1>10, <1>11 DEF GuardInv

LEMMA GuardsNext ==
  ASSUME AnnotationsLeftToOperator, CaughtUp, IInv, IInv', GatewaysInv, GuardInv, [Next]_vars
  PROVE  GuardInv' /\ (AccountsInv /\ WithdrawInv => AccountsInv' /\ WithdrawInv')
<1>1. NamingInv /\ NTModeInv /\ ReadyInv /\ NamedInv /\ CopyInv /\ FinsInv
  BY DEF GatewaysInv, GuardInv
<1>2. NamedInv'
  BY <1>1, NamedStep
<1>3. CopyInv'
  BY <1>1, CopyStep
<1>4. FinsInv'
  BY <1>1, FinsStep
<1>5. ASSUME AccountsInv, WithdrawInv PROVE AccountsInv' /\ WithdrawInv'
  BY <1>1, <1>5, AccountsStep, WithdrawStep
<1> QED
  BY <1>2, <1>3, <1>4, <1>5 DEF GuardInv

-----------------------------------------------------------------------------
(* Every step is a step of the promise.                                     *)

\* A step that changes an attachment or an entry changes one, and no Cluster.
NetworkMoves ==
  \/ UNCHANGED <<attachment, prefixList>>
  \/ /\ UNCHANGED <<cluster, prefixList>>
     /\ \E t \in Gateways : \E c \in Clusters : \E s \in AttachmentStates :
          attachment' = [attachment EXCEPT ![t][c] = s]
  \/ /\ UNCHANGED <<cluster, attachment>>
     /\ \E c \in Clusters :
          \/ prefixList[Cidr[c]] \in {c, Nobody} /\ prefixList' = [prefixList EXCEPT ![Cidr[c]] = c]
          \/ HasEntry(c) /\ prefixList' = [prefixList EXCEPT ![Cidr[c]] = Nobody]

LEMMA NetworkSteps == ASSUME TypeOK, [Next]_vars PROVE NetworkMoves
<1>0. attachment \in [Gateways -> [Clusters -> AttachmentStates]] /\ nt.c \in Clusters
  BY Typed DEF TypeOK, NetworkTypeOK
<1>u. CASE UNCHANGED <<attachment, prefixList>>
  BY <1>u DEF NetworkMoves
<1>1. CASE NTAddToPrefixList \/ NTRemoveFromPrefixList
  BY <1>0, <1>1 DEF NTAddToPrefixList, AddEntry, EntryConflicts, NTRemoveFromPrefixList, RemoveEntry,
     networkVars, storeVars, storeButQueue, NetworkMoves
<1>2. CASE NTAttach
  <2> DEFINE new == IF nt.gw \in ManualAccept THEN "pendingAcceptance" ELSE "available"
             s == IF attachment[nt.gw][nt.c] = "none" THEN new ELSE attachment[nt.gw][nt.c]
  <2>1. nt.gw \in Gateways
    BY <1>2, Typed DEF NTAttach, NTAt
  <2>2. s \in AttachmentStates
    BY <1>0, <2>1 DEF AttachmentStates
  <2>3. attachment' = [attachment EXCEPT ![nt.gw][nt.c] = s] /\ UNCHANGED <<cluster, prefixList>>
    BY <1>2 DEF NTAttach, Attach, storeVars
  <2> HIDE DEF s, new
  <2> QED
    BY <1>0, <2>1, <2>2, <2>3 DEF NetworkMoves
<1>3. CASE NTDetach
  <2>1. nt.obj.tgw \in Gateways \cup {NoGateway} /\ UNCHANGED <<cluster, prefixList>>
    BY <1>3, Typed DEF NTDetach, Detach, storeVars, ClusterRec
  <2>2. UNCHANGED attachment \/ (/\ nt.obj.tgw # NoGateway
                                 /\ attachment' = [attachment EXCEPT ![nt.obj.tgw][nt.c] = "deleting"])
    BY <1>3 DEF NTDetach, Detach
  <2> QED
    BY <1>0, <2>1, <2>2 DEF NetworkMoves, AttachmentStates
<1>4. ASSUME \/ NTAddFinalizer \/ NTAddAWSFinalizer \/ NTModeNotSupported \/ NTInvalidMode
             \/ NTIDMissing \/ NTNoGateway \/ NTSaveGateway \/ NTNotReady \/ NTNoVPC
             \/ NTSavePrefixList \/ NTUpdateStatus \/ NTUnregister \/ NTRemoveAWSFinalizer
             \/ NTRemoveFinalizer \/ NTPublish \/ NTDeleteGateway
             \/ \E u \in Gateways : NTFindGateway(u) \/ NTCreateGateway(u)
      PROVE  UNCHANGED <<attachment, prefixList>>
  BY <1>4 DEF NTAddFinalizer, NTAddAWSFinalizer, NTModeNotSupported, NTInvalidMode, NTIDMissing,
     NTNoGateway, NTSaveGateway, NTNotReady, NTNoVPC, NTSavePrefixList, NTUpdateStatus,
     NTUnregister, NTRemoveAWSFinalizer, NTRemoveFinalizer, NTFindGateway, networkVars,
     NTPublish, PublishSNSMessage, NTDeleteGateway, DeleteGateway, NTCreateGateway, CreateGateway
<1>5. ASSUME SHWork \/ Fault \/ Restart \/ UNCHANGED vars
      PROVE  UNCHANGED <<attachment, prefixList>>
  BY <1>5 DEF SHWork, SHStep, SHShareTransitGateway, SHAddFinalizer, SHAddAWSFinalizer,
     SHApplyGatewayShare, SHSharePrefixList, SHDeleteGatewayShare, SHDeletePrefixListShare,
     SHRemoveAWSFinalizer, SHRemoveFinalizer, ApplyResourceShare, DeleteResourceShare, networkVars,
     Fault, NTFault, NTAWSReadFails, SHFault, SHAWSReadFails, Restart, vars
<1>6. ASSUME NEW d \in Clusters, NTTake(d) \/ SHTake(d) \/ Deliver(d) \/ Provision(d) \/ User(d)
      PROVE  UNCHANGED <<attachment, prefixList>>
  BY <1>6 DEF NTTake, SHTake, NTGet, SHGet, Deliver, Provision, User, networkVars
<1>7. ASSUME NEW u \in Gateways, AWS(u)
      PROVE  NetworkMoves
  BY <1>0, <1>7 DEF AWS, GatewayAvailable, AttachmentDeleted, AcceptAttachment, storeVars,
     NetworkMoves, AttachmentStates
<1> QED
  BY <1>u, <1>1, <1>2, <1>3, <1>4, <1>5, <1>6, <1>7 DEF Next, NTWork, NTStep

\* A cluster gets or loses its guard only off the network, joins it only guarded,
\* and leaves it only when the list does not route to it any more.
LEMMA PromiseStep ==
  ASSUME IInv, IInv', CopyInv', [Next]_vars
  PROVE  [Promise!Next]_(Promise!vars)
<1>0. /\ cluster \in [Clusters -> ClusterRec] /\ prefixList \in [Cidrs -> Clusters \cup {Nobody}]
      /\ attachment \in [Gateways -> [Clusters -> AttachmentStates]]
      /\ \A c \in Clusters : Cidr[c] \in Cidrs
      /\ Nobody \notin Clusters
  BY NetworkAssumption DEF IInv, TypeOK, StoreTypeOK, NetworkTypeOK, Cidrs
<1>1. CASE UNCHANGED <<attachment, prefixList>>
  <2>1. OnGateway' = OnGateway /\ Listed' = Listed
    BY <1>1 DEF OnGateway, Attached, Listed, HasEntry
  <2>2. CASE UNCHANGED cluster
    BY <2>1, <2>2 DEF Promise!vars, Guarded
  <2>3. ASSUME NEW c \in Clusters, NEW r, StoreCluster(c, r)
        PROVE  [Promise!Next]_(Promise!vars)
    <3>1. cluster'[c] = r /\ \A d \in Clusters \ {c} : cluster'[d] = cluster[d]
      BY <1>0, <2>3 DEF StoreCluster
    <3>2. CASE c \in Guarded <=> c \in Guarded'
      <4>1. Guarded' = Guarded
        BY <3>1, <3>2 DEF Guarded
      <4> QED
        BY <2>1, <4>1 DEF Promise!vars
    <3>3. CASE c \notin Guarded /\ c \in Guarded'
      <4>1. Guarded' = Guarded \cup {c}
        BY <3>1, <3>3 DEF Guarded
      <4>2. Promise!Guard(c)
        BY <2>1, <3>3, <4>1 DEF Promise!Guard
      <4> QED
        BY <4>2 DEF Promise!Next
    <3>4. CASE c \in Guarded /\ c \notin Guarded'
      <4>1. Guarded' = Guarded \ {c}
        BY <3>1, <3>4 DEF Guarded
      <4>2. c \notin OnGateway'
        BY <3>4 DEF CopyInv, OnNet, OnGateway, Guarded, Protected
      <4>3. Promise!Release(c)
        BY <2>1, <3>4, <4>1, <4>2 DEF Promise!Release
      <4> QED
        BY <4>3 DEF Promise!Next
    <3> QED
      BY <3>2, <3>3, <3>4
  <2> QED
    BY <2>2, <2>3, StoreMoves DEF ClusterMoves, IInv
<1>2. ASSUME UNCHANGED <<cluster, prefixList>>,
             NEW t \in Gateways, NEW c \in Clusters, NEW s \in AttachmentStates,
             attachment' = [attachment EXCEPT ![t][c] = s]
      PROVE  [Promise!Next]_(Promise!vars)
  <2>1. Guarded' = Guarded /\ Listed' = Listed
    BY <1>2 DEF Guarded, Listed, HasEntry
  <2>2. \A d \in Clusters \ {c} : \A u \in Gateways : attachment'[u][d] = attachment[u][d]
    BY <1>0, <1>2
  <2>3. \A d \in Clusters \ {c} : d \in OnGateway <=> d \in OnGateway'
    BY <2>2 DEF OnGateway, Attached
  <2>4. OnGateway \subseteq Clusters /\ OnGateway' \subseteq Clusters
    BY DEF OnGateway
  <2>5. CASE c \in OnGateway <=> c \in OnGateway'
    <3>1. OnGateway' = OnGateway
      BY <2>3, <2>4, <2>5
    <3> QED
      BY <2>1, <3>1 DEF Promise!vars
  <2>6. CASE c \notin OnGateway /\ c \in OnGateway'
    <3>1. OnGateway' = OnGateway \cup {c}
      BY <2>3, <2>4, <2>6
    <3>2. c \in Guarded'
      BY <2>6 DEF CopyInv, OnNet, OnGateway, Guarded, Protected
    <3>3. Promise!Connect(c)
      BY <2>1, <2>6, <3>1, <3>2 DEF Promise!Connect
    <3> QED
      BY <3>3 DEF Promise!Next
  <2>7. CASE c \in OnGateway /\ c \notin OnGateway'
    <3>1. OnGateway' = OnGateway \ {c}
      BY <2>3, <2>4, <2>7
    <3>2. c \notin Listed'
      BY <2>7 DEF IInv, EntryInv, OnGateway, Listed
    <3>3. Promise!Disconnect(c)
      BY <2>1, <2>7, <3>1, <3>2 DEF Promise!Disconnect
    <3> QED
      BY <3>3 DEF Promise!Next
  <2> QED
    BY <2>5, <2>6, <2>7
<1>3. ASSUME UNCHANGED <<cluster, attachment>>, NEW c \in Clusters,
             \/ prefixList[Cidr[c]] \in {c, Nobody} /\ prefixList' = [prefixList EXCEPT ![Cidr[c]] = c]
             \/ HasEntry(c) /\ prefixList' = [prefixList EXCEPT ![Cidr[c]] = Nobody]
      PROVE  [Promise!Next]_(Promise!vars)
  <2>1. Guarded' = Guarded /\ OnGateway' = OnGateway
    BY <1>3 DEF Guarded, OnGateway, Attached
  <2>2. \A d \in Clusters \ {c} : d \in Listed <=> d \in Listed'
    BY <1>0, <1>3 DEF Listed, HasEntry
  <2>3. Listed \subseteq Clusters /\ Listed' \subseteq Clusters
    BY DEF Listed
  <2>4. CASE c \in Listed <=> c \in Listed'
    <3>1. Listed' = Listed
      BY <2>2, <2>3, <2>4
    <3> QED
      BY <2>1, <3>1 DEF Promise!vars
  <2>5. CASE c \notin Listed /\ c \in Listed'
    <3>1. Listed' = Listed \cup {c}
      BY <2>2, <2>3, <2>5
    <3>2. c \in OnGateway'
      BY <2>5 DEF IInv, EntryInv, OnGateway, Listed
    <3>3. Promise!List(c)
      BY <2>1, <2>5, <3>1, <3>2 DEF Promise!List
    <3> QED
      BY <3>3 DEF Promise!Next
  <2>6. CASE c \in Listed /\ c \notin Listed'
    <3>1. Listed' = Listed \ {c}
      BY <2>2, <2>3, <2>6
    <3>2. Promise!Unlist(c)
      BY <2>1, <2>6, <3>1 DEF Promise!Unlist
    <3> QED
      BY <3>2 DEF Promise!Next
  <2> QED
    BY <2>4, <2>5, <2>6
<1> QED
  BY <1>1, <1>2, <1>3, NetworkSteps DEF NetworkMoves, IInv

LEMMA PromiseInit == ASSUME IInv, CopyInv PROVE Promise!Init
BY DEF IInv, EntryInv, CopyInv, OnNet, Protected, Guarded, OnGateway, Listed, Promise!Init

-----------------------------------------------------------------------------
(* Who waits to be accepted.                                                *)

\* What is in service never waits again, and a request is not forgotten.
LEMMA PendingMoves ==
  ASSUME TypeOK, [Next]_vars, NEW t \in Gateways, NEW c \in Clusters,
         Attached(t, c), attachment'[t][c] = "pendingAcceptance"
  PROVE  attachment[t][c] = "pendingAcceptance"
<1>0. attachment \in [Gateways -> [Clusters -> AttachmentStates]] /\ nt.c \in Clusters
  BY Typed DEF TypeOK, NetworkTypeOK
<1>u. CASE UNCHANGED attachment
  BY <1>u
<1>1. CASE NTAttach
  <2>1. nt.gw \in Gateways /\ attachment[t][c] # "none"
    BY <1>1, Typed DEF NTAttach, NTAt, Attached
  <2>2. attachment'[t][c] = attachment[t][c]
    BY <1>0, <1>1, <2>1 DEF NTAttach, Attach
  <2> QED
    BY <2>2
<1>2. CASE NTDetach
  BY <1>0, <1>2 DEF NTDetach, Detach
<1>3. ASSUME NEW u \in Gateways, AWS(u)
      PROVE  attachment'[t][c] = "pendingAcceptance" => attachment[t][c] = "pendingAcceptance"
  <2>1. CASE GatewayAvailable(u)
    BY <2>1 DEF GatewayAvailable
  <2>2. ASSUME NEW d \in Clusters, AttachmentDeleted(u, d)
        PROVE  attachment'[t][c] \in {attachment[t][c], "none"}
    BY <1>0, <2>2 DEF AttachmentDeleted
  <2>3. ASSUME NEW d \in Clusters, AcceptAttachment(u, d)
        PROVE  attachment'[t][c] \in {attachment[t][c], "available"}
    BY <1>0, <2>3 DEF AcceptAttachment
  <2> QED
    BY <1>3, <2>1, <2>2, <2>3 DEF AWS
<1>4. ASSUME \/ NTAddFinalizer \/ NTAddAWSFinalizer \/ NTModeNotSupported \/ NTInvalidMode
             \/ NTIDMissing \/ NTNoGateway \/ NTSaveGateway \/ NTNotReady \/ NTNoVPC
             \/ NTSavePrefixList \/ NTUpdateStatus \/ NTUnregister \/ NTRemoveAWSFinalizer
             \/ NTRemoveFinalizer \/ NTPublish \/ NTDeleteGateway \/ NTAddToPrefixList
             \/ NTRemoveFromPrefixList \/ \E u \in Gateways : NTFindGateway(u) \/ NTCreateGateway(u)
      PROVE  UNCHANGED attachment
  BY <1>4 DEF NTAddFinalizer, NTAddAWSFinalizer, NTModeNotSupported, NTInvalidMode, NTIDMissing,
     NTNoGateway, NTSaveGateway, NTNotReady, NTNoVPC, NTSavePrefixList, NTUpdateStatus,
     NTUnregister, NTRemoveAWSFinalizer, NTRemoveFinalizer, NTFindGateway, networkVars,
     NTPublish, PublishSNSMessage, NTDeleteGateway, DeleteGateway, NTCreateGateway, CreateGateway,
     NTAddToPrefixList, AddEntry, NTRemoveFromPrefixList, RemoveEntry
<1>5. ASSUME SHWork \/ Fault \/ Restart \/ UNCHANGED vars
      PROVE  UNCHANGED attachment
  BY <1>5 DEF SHWork, SHStep, SHShareTransitGateway, SHAddFinalizer, SHAddAWSFinalizer,
     SHApplyGatewayShare, SHSharePrefixList, SHDeleteGatewayShare, SHDeletePrefixListShare,
     SHRemoveAWSFinalizer, SHRemoveFinalizer, ApplyResourceShare, DeleteResourceShare, networkVars,
     Fault, NTFault, NTAWSReadFails, SHFault, SHAWSReadFails, Restart, vars
<1>6. ASSUME NEW d \in Clusters, NTTake(d) \/ SHTake(d) \/ Deliver(d) \/ Provision(d) \/ User(d)
      PROVE  UNCHANGED attachment
  BY <1>6 DEF NTTake, SHTake, NTGet, SHGet, Deliver, Provision, User, networkVars
<1> QED
  BY <1>u, <1>1, <1>2, <1>3, <1>4, <1>5, <1>6 DEF Next, NTWork, NTStep

LEMMA RequestsStay == ASSUME [Next]_vars PROVE notified \subseteq notified'
<1>1. NTPublish => notified \subseteq notified'
  BY DEF NTPublish, PublishSNSMessage
<1>2. ASSUME \/ NTAddFinalizer \/ NTAddAWSFinalizer \/ NTModeNotSupported \/ NTInvalidMode
             \/ NTIDMissing \/ NTNoGateway \/ NTSaveGateway \/ NTNotReady \/ NTNoVPC \/ NTAttach
             \/ NTSavePrefixList \/ NTUpdateStatus \/ NTUnregister \/ NTRemoveAWSFinalizer
             \/ NTRemoveFinalizer \/ NTDetach \/ NTDeleteGateway \/ NTAddToPrefixList
             \/ NTRemoveFromPrefixList \/ \E u \in Gateways : NTFindGateway(u) \/ NTCreateGateway(u)
      PROVE  UNCHANGED notified
  BY <1>2 DEF NTAddFinalizer, NTAddAWSFinalizer, NTModeNotSupported, NTInvalidMode, NTIDMissing,
     NTNoGateway, NTSaveGateway, NTNotReady, NTNoVPC, NTSavePrefixList, NTUpdateStatus, NTAttach, Attach,
     NTUnregister, NTRemoveAWSFinalizer, NTRemoveFinalizer, NTFindGateway, networkVars, NTDetach, Detach,
     NTDeleteGateway, DeleteGateway, NTCreateGateway, CreateGateway,
     NTAddToPrefixList, AddEntry, NTRemoveFromPrefixList, RemoveEntry
<1>3. ASSUME SHWork \/ Fault \/ Restart \/ UNCHANGED vars
      PROVE  UNCHANGED notified
  BY <1>3 DEF SHWork, SHStep, SHShareTransitGateway, SHAddFinalizer, SHAddAWSFinalizer,
     SHApplyGatewayShare, SHSharePrefixList, SHDeleteGatewayShare, SHDeletePrefixListShare,
     SHRemoveAWSFinalizer, SHRemoveFinalizer, ApplyResourceShare, DeleteResourceShare, networkVars,
     Fault, NTFault, NTAWSReadFails, SHFault, SHAWSReadFails, Restart, vars
<1>4. ASSUME NEW d \in Clusters, NTTake(d) \/ SHTake(d) \/ Deliver(d) \/ Provision(d) \/ User(d)
      PROVE  UNCHANGED notified
  BY <1>4 DEF NTTake, SHTake, NTGet, SHGet, Deliver, Provision, User, networkVars
<1>5. ASSUME NEW u \in Gateways, AWS(u)
      PROVE  UNCHANGED notified
  BY <1>5 DEF AWS, GatewayAvailable, AttachmentDeleted, AcceptAttachment
<1> QED
  BY <1>1, <1>2, <1>3, <1>4, <1>5 DEF Next, NTWork, NTStep

LEMMA AskedStep ==
  ASSUME AnnotationsLeftToOperator, IInv, IInv', NamingInv, NTModeInv, ReadyInv, AskedInv,
         [Next]_vars
  PROVE  AskedInv'
<1>0. nt.c \in Clusters /\ TypeOK /\ NoGateway \notin Gateways
  BY Typed, StoreAssumption DEF IInv
<1>1. ASSUME NEW t \in Gateways, NEW c \in Clusters, Attached(t, c)'
      PROVE  cluster'[c].tgw = t
  <2>1. CASE Attached(t, c)
    <3>1. cluster[c].tgw = t /\ t # NoGateway
      BY <1>0, <2>1 DEF AskedInv
    <3> QED
      BY <3>1, TgwSticks
  <2>2. CASE ~Attached(t, c)
    <3>1. nt.pc = "Attach" /\ nt.c = c /\ nt.gw = t /\ UNCHANGED cluster
      BY <1>0, <1>1, <2>2, NewAttachment
    <3> QED
      BY <3>1 DEF NamingInv, ConnectStages
  <2> QED
    BY <2>1, <2>2
<1>2. ASSUME nt'.pc = "Publish"
      PROVE  nt'.gw \in Gateways /\ attachment'[nt'.gw][nt'.c] \in {"pendingAcceptance", "available"}
  <2>1. CASE nt' = nt
    <3>1. nt.gw \in Gateways /\ Attached(nt.gw, nt.c) /\ nt.pc # "Detach"
      BY <1>2, <2>1 DEF AskedInv
    <3> QED
      BY <1>0, <2>1, <3>1, ConnectionMoves
  <2>2. CASE GoesOn
    BY <1>2, <2>2 DEF GoesOn
  <2>3. ASSUME \/ Ends \/ Protects \/ Names \/ Registers \/ Unregisters
               \/ (\E t \in Gateways : Settles(t)) \/ \E c \in Clusters : Takes(c)
        PROVE  nt'.pc # "Publish"
    BY <2>3 DEF Ends, Protects, Names, Registers, Unregisters, Settles, Takes
  <2> QED
    BY <1>0, <1>2, <2>1, <2>2, <2>3, WorkerMoves
<1>3. ASSUME NEW c \in Clusters, cluster'[c].phase = "live", cluster'[c].mode = "UserManaged",
             SaysReady(c)'
      PROVE  /\ \E t \in Gateways : attachment'[t][c] \in {"pendingAcceptance", "available"}
             /\ \A u \in Gateways : attachment'[u][c] = "pendingAcceptance" => <<u, c>> \in notified'
  <2>1. cluster[c].phase = "live" /\ cluster[c].mode = "UserManaged"
    BY <1>3, ClusterKeeps, ReadySupported, SupportedStays DEF Keeps
  <2>2. ~(nt.c = c /\ nt.pc = "Detach")
    <3>1. ~Past(cached[c])
      BY <2>1, Known DEF ClusterFollows, Past
    <3> QED
      BY <3>1 DEF IInv, NTInv, UnregisterStages
  <2>3. ASSUME NEW t \in Gateways, Attached(t, c)
        PROVE  attachment'[t][c] \in {"pendingAcceptance", "available"}
    BY <1>0, <2>2, <2>3, ConnectionMoves
  <2>4. \A t, u \in Gateways :
          attachment'[t][c] \in {"pendingAcceptance", "available"} /\ attachment'[u][c] = "pendingAcceptance"
            => u = t
    BY <1>1 DEF Attached
  <2>5. CASE SaysReady(c)
    <3>1. PICK t \in Gateways : Attached(t, c)
      BY <2>1, <2>5 DEF AskedInv
    <3>2. ASSUME NEW u \in Gateways, attachment'[u][c] = "pendingAcceptance"
          PROVE  <<u, c>> \in notified'
      <4>1. u = t
        BY <2>3, <2>4, <3>1, <3>2
      <4>2. attachment[u][c] = "pendingAcceptance"
        BY <1>0, <3>1, <3>2, <4>1, PendingMoves
      <4>3. <<u, c>> \in notified
        BY <2>1, <2>5, <4>2 DEF AskedInv, Asked
      <4> QED
        BY <4>3, RequestsStay
    <3> QED
      BY <2>3, <3>1, <3>2
  <2>6. CASE nt.c = c /\ nt.pc = "SavePrefixList"
    <3>1. nt.obj.mode = GSM
      BY <2>6 DEF NTModeInv, ConnectStages
    <3>2. cluster[c].mode = GSM
      BY <2>6, <3>1, CopyMode DEF Supported, GSM
    <3> QED
      BY <2>1, <3>2 DEF GSM
  <2>7. CASE nt.c = c /\ nt.pc = "Publish" /\ notified' = notified \cup {<<nt.gw, nt.c>>}
    <3>1. nt.gw \in Gateways /\ attachment'[nt.gw][c] \in {"pendingAcceptance", "available"}
      BY <2>3, <2>7 DEF AskedInv
    <3> QED
      BY <2>4, <2>7, <3>1
  <2>8. CASE /\ nt.c = c /\ nt.pc = "Attach" /\ nt.gw \in Gateways
             /\ attachment'[nt.gw][nt.c] \in {"available", "deleting"}
    <3>1. ClusterLine(cached'[c], feed'[c], cluster'[c]) /\ feed'[c] \in Seq(ClusterRec)
      BY DEF IInv, ClusterHistory, TypeOK, StoreTypeOK
    <3>2. ClusterFollows(cached'[c], cluster'[c])
      BY <3>1, ClusterEnds
    <3>3. ~Past(cached'[c])
      BY <1>3, <3>2 DEF ClusterFollows, Past
    <3>4. attachment'[nt.gw][c] # "deleting"
      BY <2>8, <3>3 DEF IInv, DetachInv
    <3> QED
      BY <2>4, <2>8, <3>4
  <2> QED
    BY <1>3, <2>5, <2>6, <2>7, <2>8, SaysReadyMoves DEF Finishes
<1> QED
  BY <1>1, <1>2, <1>3 DEF AskedInv, Asked, Attached

LEMMA AskedInit == ASSUME Init, AnnotationsLeftToOperator PROVE AskedInv
<1>1. GatewaysInv /\ GuardInv /\ MC \in Clusters
  BY GatewaysInit, GuardsInit, StoreAssumption
<1>2. \A t \in Gateways, c \in Clusters : Attached(t, c) => cluster[c].tgw = t
  BY <1>1 DEF GuardInv, NamedInv
<1>3. nt.pc = "idle"
  BY DEF Init, NTInit, NTIdle
<1>4. ASSUME NEW c \in Clusters, SaysReady(c) PROVE cluster[c].mode # "UserManaged"
  <2>1. CASE c \in Churn
    <3>1. cluster[c].ready = "none" /\ cached[c] = NoCluster /\ feed[c] = <<cluster[c]>>
      <4>1. PICK m \in [Churn -> UserModes], t \in [Churn -> UserGateways], p \in [Churn -> UserLists] :
              cluster = [d \in Clusters |-> IF d \in Churn THEN NewCluster(m[d], t[d], p[d])
                                                           ELSE SettledCluster]
        BY DEF Init, StoreInit
      <4> QED
        BY <2>1, <4>1 DEF Init, StoreInit, NewCluster
    <3>2. Seen(c) = {NoCluster, cluster[c]}
      BY <3>1, FirstVersions DEF Seen
    <3> QED
      BY <1>3, <1>4, <3>1, <3>2 DEF SaysReady, NoCluster, NewCluster
  <2>2. CASE c \notin Churn
    BY <2>2 DEF Init, StoreInit, SettledCluster
  <2> QED
    BY <2>1, <2>2
<1> QED
  BY <1>2, <1>3, <1>4 DEF AskedInv

-----------------------------------------------------------------------------
\* A cluster that is attached stays named, guarded and on AWS's books, if the two
\* reconcilers read what is there.
THEOREM GuardInvariant == AnnotationsLeftToOperator /\ CaughtUp => (Spec => []GuardInv)
<1> SUFFICES ASSUME AnnotationsLeftToOperator, CaughtUp
             PROVE  Spec => []GuardInv
  OBVIOUS
<1>1. Init => IInv /\ GatewaysInv /\ GuardInv
  BY InitInv, GatewaysInit, GuardsInit
<1>2. IInv /\ GatewaysInv /\ GuardInv /\ [Next]_vars => (IInv /\ GatewaysInv /\ GuardInv)'
  BY NextInv, GatewaysNext, GuardsNext
<1> QED
  BY <1>1, <1>2, PTL DEF Spec

\* Shares are made for guarded clusters of other accounts, and withdrawn in the
\* order of share.go, under the same provisos and if users write neither of the
\* annotations.
THEOREM LastInvariant ==
  AnnotationsLeftToOperator /\ CaughtUp /\ ListsLeftToOperator => (Spec => []LastInv)
<1> SUFFICES ASSUME AnnotationsLeftToOperator, CaughtUp, ListsLeftToOperator
             PROVE  Spec => []LastInv
  OBVIOUS
<1>1. Init => IInv /\ GatewaysInv /\ LastInv
  BY InitInv, GatewaysInit, GuardsInit DEF LastInv
<1>2. IInv /\ GatewaysInv /\ LastInv /\ [Next]_vars => (IInv /\ GatewaysInv /\ LastInv)'
  BY NextInv, GatewaysNext, GuardsNext DEF LastInv
<1> QED
  BY <1>1, <1>2, PTL DEF Spec

\* A VPC that is attached belongs to a cluster with the network topology finalizer:
\* reconcileDelete has detached whatever reconcileNormal attached when the
\* finalizer goes, however the two reconcilers, failures and restarts interleave.
THEOREM AttachmentsAlwaysGuarded ==
  AnnotationsLeftToOperator /\ CaughtUp => (Spec => []AttachmentsGuarded)
<1>1. GuardInv => AttachmentsGuarded
  BY DEF GuardInv, CopyInv, OnNet, Protected, AttachmentsGuarded
<1> QED
  BY <1>1, GuardInvariant, PTL

\* The patches of cluster.go carry the whole list of finalizers; none of them ever
\* drops the finalizer of the other reconciler.
THEOREM FinalizersLeaveByOwner ==
  AnnotationsLeftToOperator /\ CaughtUp => (Spec => FinalizerLeavesByOwner)
<1>1. ASSUME IInv, GuardInv, [Next]_vars
      PROVE  [\A c \in Clusters :
                /\ "nettop" \in cluster[c].fins \ cluster'[c].fins => NTAt("RemoveFinalizer") /\ nt.c = c
                /\ "share" \in cluster[c].fins \ cluster'[c].fins => SHAt("RemoveFinalizer") /\ sh.c = c]_vars
  BY <1>1, Unguards, Unshares DEF GuardInv, Protected, Shares, NTAt, SHAt
<1> QED
  BY <1>1, InductiveInvariant, GuardInvariant, PTL DEF Spec, FinalizerLeavesByOwner

\* However far the caches lag, the share reconciler's patches never take the network
\* topology finalizer off a Cluster: it adds its own only to a copy that has both,
\* and removes it only when the other is gone for good.
THEOREM GuardLeavesByOwner ==
  AnnotationsLeftToOperator =>
    (Spec => [][\A c \in Clusters : Protected(cluster[c]) /\ ~Protected(cluster'[c])
                  => NTAt("RemoveFinalizer") /\ nt.c = c]_vars)
<1>1. ASSUME IInv, [Next]_vars
      PROVE  [\A c \in Clusters : Protected(cluster[c]) /\ ~Protected(cluster'[c])
                => NTAt("RemoveFinalizer") /\ nt.c = c]_vars
  BY <1>1, Unguards DEF NTAt
<1> QED
  BY <1>1, InductiveInvariant, PTL DEF Spec

\* The operator implements GuardedNetwork: guard, connect, list, and the reverse.
THEOREM PromiseKept == AnnotationsLeftToOperator /\ CaughtUp => (Spec => ImplementsPromise)
<1> SUFFICES ASSUME AnnotationsLeftToOperator, CaughtUp
             PROVE  Spec => ImplementsPromise
  OBVIOUS
<1>1. IInv /\ GuardInv => CopyInv
  BY DEF GuardInv
<1>2. IInv /\ CopyInv => Promise!Init
  BY PromiseInit
<1>3. IInv /\ IInv' /\ CopyInv' /\ [Next]_vars => [Promise!Next]_(Promise!vars)
  BY PromiseStep
<1>4. Spec => []IInv /\ []GuardInv
  BY InductiveInvariant, GuardInvariant
<1> QED
  BY <1>1, <1>2, <1>3, <1>4, PTL DEF Spec, ImplementsPromise, Promise!Spec

\* What is shared is shared for a cluster with the share finalizer, so share.go's
\* reconcileDelete still gets to take it back. It is so although the prefix list
\* is shared without a look at the finalizer.
THEOREM SharesAlwaysGuarded ==
  AnnotationsLeftToOperator /\ CaughtUp /\ ListsLeftToOperator => (Spec => []SharesGuarded)
<1>1. LastInv => SharesGuarded
  BY DEF LastInv, WithdrawInv, Shares, SharesGuarded
<1> QED
  BY <1>1, LastInvariant, PTL

\* Nothing is still shared for a cluster that is gone.
THEOREM SharesAlwaysReclaimed ==
  AnnotationsLeftToOperator /\ CaughtUp /\ ListsLeftToOperator => (Spec => []SharesReclaimed)
<1>1. GatewaysInv /\ LastInv => SharesReclaimed
  BY DEF GatewaysInv, BareInv, LastInv, WithdrawInv, Shares, SharesReclaimed
<1> QED
  BY <1>1, GatewaysInvariant, LastInvariant, PTL

\* The share reconciler, which waits only for the other's finalizer to go, never
\* takes a gateway's share back while a VPC of that account is attached to it.
THEOREM SharesOutliveAttachments ==
  AnnotationsLeftToOperator /\ CaughtUp /\ ListsLeftToOperator => (Spec => []ShareOutlivesAttachment)
<1>1. LastInv => ShareOutlivesAttachment
  BY DEF LastInv, WithdrawInv, ShareOutlivesAttachment
<1> QED
  BY <1>1, LastInvariant, PTL

\* Who is attached to what, and whom a UserManaged cluster still has to ask.
THEOREM AskedInvariant == AnnotationsLeftToOperator => (Spec => []AskedInv)
<1> SUFFICES ASSUME AnnotationsLeftToOperator
             PROVE  Spec => []AskedInv
  OBVIOUS
<1>1. Init => IInv /\ GatewaysInv /\ AskedInv
  BY InitInv, GatewaysInit, AskedInit
<1>2. IInv /\ GatewaysInv /\ AskedInv /\ [Next]_vars => (IInv /\ GatewaysInv /\ AskedInv)'
  BY NextInv, GatewaysNext, AskedStep DEF GatewaysInv
<1> QED
  BY <1>1, <1>2, PTL DEF Spec

\* A live UserManaged cluster reports ready while its attachment still waits to be
\* accepted only after the SNS message that asks for it was sent: publishing comes
\* before the condition, and a registration that failed in between starts over.
THEOREM PendingAlwaysNotified == AnnotationsLeftToOperator => (Spec => []PendingIsNotified)
<1>1. IInv /\ AskedInv => PendingIsNotified
  <2> SUFFICES ASSUME IInv, AskedInv, NEW c \in Clusters, NEW t \in Gateways,
                      cluster[c].phase = "live", cluster[c].mode = "UserManaged",
                      cluster[c].ready = "True", attachment[t][c] = "pendingAcceptance"
               PROVE  <<t, c>> \in notified
    BY DEF PendingIsNotified
  <2>1. /\ cached[c] \in ClusterRec /\ feed[c] \in Seq(ClusterRec)
        /\ Version(cached[c], feed[c], Len(feed[c])) = cluster[c]
    BY DEF IInv, TypeOK, StoreTypeOK, ClusterHistory, ClusterLine
  <2>2. cluster[c] \in Seen(c)
    BY <2>1, VersionsEnds DEF Seen
  <2>3. SaysReady(c)
    BY <2>2 DEF SaysReady
  <2> QED
    BY <2>3 DEF AskedInv, Asked
<1> QED
  BY <1>1, InductiveInvariant, AskedInvariant, PTL
=============================================================================
