----------------------------- MODULE OperatorTypes -----------------------------
(***************************************************************************)
(* Type correctness of the operator, for every value of the constants.     *)
(***************************************************************************)
EXTENDS Operator, SequenceTheorems, TLAPS

\* Writing an object keeps the store typed.
LEMMA StoreClusterType ==
  ASSUME StoreTypeOK, NEW c \in Clusters, NEW r \in ClusterRec, StoreCluster(c, r)
  PROVE  /\ cluster' \in [Clusters -> ClusterRec]
         /\ feed' \in [Clusters -> Seq(ClusterRec)]
BY AppendProperties DEF StoreTypeOK, StoreCluster

LEMMA StoreAWSType ==
  ASSUME StoreTypeOK, NEW c \in Clusters, NEW r \in AWSRec, StoreAWS(c, r)
  PROVE  /\ awsCluster' \in [Clusters -> AWSRec]
         /\ awsFeed' \in [Clusters -> Seq(AWSRec)]
BY AppendProperties DEF StoreTypeOK, StoreAWS

\* What the store computes from records are records.
LEMMA RecordTypes ==
  /\ NoCluster \in ClusterRec /\ SettledCluster \in ClusterRec
  /\ NoAWSCluster \in AWSRec /\ SettledAWSCluster \in AWSRec
BY StoreAssumption DEF NoCluster, NewCluster, SettledCluster, NoAWSCluster, SettledAWSCluster,
   ClusterRec, AWSRec, Phases, Finalizers, Modes, Conditions

LEMMA PatchTypes ==
  ASSUME NEW x \in ClusterRec, NEW object \in ClusterRec, NEW f \in Finalizers
  PROVE  /\ FinalizerAdded(object, x, f) \in ClusterRec
         /\ FinalizerRemoved(object, x, f) \in ClusterRec
         /\ Refreshed(x, object) \in ClusterRec
BY DEF FinalizerAdded, FinalizerRemoved, PatchedFins, Refreshed, ClusterRec

LEMMA AWSPatchTypes ==
  ASSUME NEW x \in AWSRec, NEW object \in AWSRec, NEW f \in Finalizers
  PROVE  /\ FinalizerAdded(object, x, f) \in AWSRec
         /\ FinalizerRemoved(object, x, f) \in AWSRec
BY DEF FinalizerAdded, FinalizerRemoved, PatchedFins, AWSRec

LEMMA StatusType ==
  ASSUME StoreTypeOK, NEW c \in Clusters, NEW x \in ClusterRec, StatusUpdated(c, x)
  PROVE  /\ cluster' \in [Clusters -> ClusterRec]
         /\ feed' \in [Clusters -> Seq(ClusterRec)]
<1> DEFINE r == IF Exists(cluster[c]) /\ IsCurrent(c, x)
                THEN [cluster[c] EXCEPT !.ready = x.ready] ELSE cluster[c]
<1>1. r \in ClusterRec
  BY DEF StoreTypeOK, ClusterRec
<1>2. StoreCluster(c, r)
  BY DEF StatusUpdated
<1> QED
  BY <1>1, <1>2, StoreClusterType

LEMMA NTIdleType == NTIdle \in [pc: NTStages, c: Clusters, obj: ClusterRec, mode: Modes,
             gw: Gateways \cup {NoGateway}, up: BOOLEAN, vpc: BOOLEAN, again: BOOLEAN]
BY StoreAssumption, RecordTypes DEF NTIdle, NTStages, Modes

-----------------------------------------------------------------------------
(* The network topology reconciler.                                        *)

\* How a step may leave the worker and the queue.
LEMMA NTEndTypes ==
  ASSUME TypeOK, NTRetry \/ NTDone
  PROVE  NTTypeOK' /\ queue' \in [Finalizers -> SUBSET Clusters]
<1>1. nt' = NTIdle
  BY DEF NTRetry, NTDone
<1>2. NTTypeOK'
  BY <1>1, NTIdleType DEF NTTypeOK, NTIdle
<1>3. nt.c \in Clusters
  BY DEF TypeOK, NTTypeOK
<1> QED
  BY <1>2, <1>3 DEF TypeOK, StoreTypeOK, NTRetry, NTDone, Enqueue, Finalizers

LEMMA NTRegisteredType ==
  ASSUME TypeOK, NEW condition \in Conditions, NEW again \in BOOLEAN,
         NTRegistered(condition, again) \/ NTRegisterFails
  PROVE  NTTypeOK'
<1> DEFINE o == [nt.obj EXCEPT !.ready = condition]
<1>1. nt.obj \in ClusterRec /\ o \in ClusterRec
  BY DEF TypeOK, NTTypeOK, ClusterRec
<1>2. \/ nt' = [nt EXCEPT !.pc = "UpdateStatus", !.obj = o, !.again = again]
      \/ nt' = [nt EXCEPT !.pc = "UpdateStatus", !.again = TRUE]
  BY DEF NTRegistered, NTRegisterFails
<1> HIDE DEF o
<1> QED
  BY <1>1, <1>2 DEF TypeOK, NTTypeOK, NTStages, RegisterStages

LEMMA NTGetType ==
  ASSUME TypeOK, NEW c \in Clusters, NTGet(c), UNCHANGED sh
  PROVE  TypeOK'
<1> DEFINE x == cached[c]
           fresh == [x EXCEPT !.ready = IF @ = "none" THEN "InProgress" ELSE @]
<1>1. x \in ClusterRec /\ fresh \in ClusterRec
  <2>1. x \in ClusterRec
    BY DEF TypeOK, StoreTypeOK
  <2> HIDE DEF x
  <2>2. (IF x.ready = "none" THEN "InProgress" ELSE x.ready) \in Conditions
    BY <2>1 DEF ClusterRec, Conditions
  <2>3. fresh \in ClusterRec
    BY <2>1, <2>2 DEF ClusterRec
  <2> QED
    BY <2>1, <2>3
<1>2. cluster' \in [Clusters -> ClusterRec] /\ feed' \in [Clusters -> Seq(ClusterRec)]
  <2>1. CASE Exists(x) /\ ~x.paused
    <3>1. StatusUpdated(c, fresh)
      BY <2>1 DEF NTGet
    <3> QED
      BY <3>1, <1>1, StatusType DEF TypeOK
  <2>2. CASE ~(Exists(x) /\ ~x.paused)
    BY <2>2 DEF NTGet, TypeOK, StoreTypeOK
  <2> QED
    BY <2>1, <2>2
<1>3. queue' \in [Finalizers -> SUBSET Clusters]
  BY DEF NTGet, TypeOK, StoreTypeOK, Finalizers
<1>4. NTTypeOK'
  <2>1. \/ nt' = NTIdle
        \/ nt' = [NTIdle EXCEPT !.pc = "AddFinalizer", !.c = c, !.obj = fresh]
        \/ nt' = [NTIdle EXCEPT !.pc = "Unregister", !.c = c, !.obj = fresh]
    BY DEF NTGet
  <2> HIDE DEF fresh
  <2>2. NTIdle.pc = "idle"
    BY DEF NTIdle
  <2>3. nt'.pc \in {"idle", "AddFinalizer", "Unregister"}
    BY <2>1, <2>2, NTIdleType
  <2>4. {"AddFinalizer", "Unregister"} \subseteq NTStages
    BY DEF NTStages, FinalizerStages, UnregisterStages
  <2>5. nt' \in [pc: NTStages, c: Clusters, obj: ClusterRec, mode: Modes,
                 gw: Gateways \cup {NoGateway}, up: BOOLEAN, vpc: BOOLEAN, again: BOOLEAN]
    BY <2>1, <2>4, <1>1, NTIdleType
  <2> QED
    BY <2>3, <2>5 DEF NTTypeOK
<1> HIDE DEF x, fresh
<1>5. UNCHANGED <<awsCluster, cached, cachedAWS, awsFeed, faults, networkVars>>
  BY DEF NTGet
<1>6. StoreTypeOK'
  BY <1>2, <1>3, <1>5 DEF TypeOK, StoreTypeOK
<1>7. NetworkTypeOK' /\ SHTypeOK'
  BY <1>5 DEF TypeOK, NetworkTypeOK, networkVars, SHTypeOK
<1> QED
  BY <1>4, <1>6, <1>7 DEF TypeOK

\* Every call to AWS keeps the network typed.
LEMMA NetworkCallTypes ==
  ASSUME NetworkTypeOK, NEW c \in Clusters, NEW vpc \in BOOLEAN, NEW kind \in ShareKinds
  PROVE  /\ \A t \in Gateways :
              /\ CreateGateway(t) \/ DeleteGateway(t) \/ GatewayAvailable(t) => NetworkTypeOK'
              /\ Attach(t, c) \/ AttachmentDeleted(t, c) \/ AcceptAttachment(t, c) => NetworkTypeOK'
              /\ PublishSNSMessage(t, c) => NetworkTypeOK'
         /\ \A t \in Gateways \cup {NoGateway} : Detach(t, c, vpc) => NetworkTypeOK'
         /\ AddEntry(c) \/ RemoveEntry(c, vpc) => NetworkTypeOK'
         /\ ApplyResourceShare(c, kind) \/ DeleteResourceShare(c, kind) => NetworkTypeOK'
         /\ UNCHANGED networkVars => NetworkTypeOK'
<1>1. ASSUME NEW t \in Gateways, CreateGateway(t) \/ DeleteGateway(t) \/ GatewayAvailable(t)
      PROVE  NetworkTypeOK'
  BY <1>1 DEF NetworkTypeOK, CreateGateway, DeleteGateway, GatewayAvailable, GatewayStates
<1>2. ASSUME NEW t \in Gateways,
             Attach(t, c) \/ AttachmentDeleted(t, c) \/ AcceptAttachment(t, c)
      PROVE  NetworkTypeOK'
  <2>1. PICK s \in AttachmentStates :
          attachment' = [attachment EXCEPT ![t] = [attachment[t] EXCEPT ![c] = s]]
    BY <1>2 DEF NetworkTypeOK, Attach, AttachmentDeleted, AcceptAttachment, AttachmentStates
  <2> QED
    BY <1>2, <2>1 DEF NetworkTypeOK, Attach, AttachmentDeleted, AcceptAttachment
<1>3. ASSUME NEW t \in Gateways, PublishSNSMessage(t, c)
      PROVE  NetworkTypeOK'
  BY <1>3 DEF NetworkTypeOK, PublishSNSMessage
<1>4. ASSUME NEW t \in Gateways \cup {NoGateway}, Detach(t, c, vpc)
      PROVE  NetworkTypeOK'
  <2>1. CASE attachment' = attachment
    BY <1>4, <2>1 DEF NetworkTypeOK, Detach
  <2>2. CASE t # NoGateway
    BY <1>4, <2>2 DEF NetworkTypeOK, Detach, AttachmentStates
  <2> QED
    BY <1>4, <2>1, <2>2 DEF Detach
<1>5. ASSUME AddEntry(c) \/ RemoveEntry(c, vpc)
      PROVE  NetworkTypeOK'
  BY <1>5 DEF NetworkTypeOK, AddEntry, RemoveEntry, Cidrs
<1>6. ASSUME ApplyResourceShare(c, kind) \/ DeleteResourceShare(c, kind)
      PROVE  NetworkTypeOK'
  BY <1>6 DEF NetworkTypeOK, ApplyResourceShare, DeleteResourceShare
<1>7. UNCHANGED networkVars => NetworkTypeOK'
  BY DEF NetworkTypeOK, networkVars
<1> QED
  BY <1>1, <1>2, <1>3, <1>4, <1>5, <1>6, <1>7

\* The steps that patch finalizers.
LEMMA NTFinalizerTypes ==
  ASSUME TypeOK, UNCHANGED sh,
         NTAddFinalizer \/ NTAddAWSFinalizer \/ NTRemoveAWSFinalizer \/ NTRemoveFinalizer
  PROVE  TypeOK'
<1> DEFINE c == nt.c
<1>0. c \in Clusters /\ cluster[c] \in ClusterRec /\ nt.obj \in ClusterRec
      /\ awsCluster[c] \in AWSRec /\ cachedAWS[c] \in AWSRec /\ "nettop" \in Finalizers
  BY DEF TypeOK, StoreTypeOK, NTTypeOK, Finalizers
<1>1. CASE NTAddFinalizer
  <2> DEFINE r == FinalizerAdded(cluster[c], nt.obj, "nettop")
             o == Refreshed(nt.obj, r)
  <2>1. r \in ClusterRec /\ o \in ClusterRec
    BY <1>0, PatchTypes
  <2>2. CASE StoreCluster(c, r) /\ nt' = [nt EXCEPT !.pc = "AddAWSFinalizer", !.obj = o]
             /\ UNCHANGED queue
    <3> HIDE DEF r, o
    <3>1. NTTypeOK'
      BY <2>1, <2>2 DEF TypeOK, NTTypeOK, NTStages, FinalizerStages
    <3> QED
      BY <1>0, <1>1, <2>1, <2>2, <3>1, StoreClusterType
      DEF TypeOK, StoreTypeOK, NTAddFinalizer, NetworkTypeOK, networkVars, SHTypeOK
  <2>3. CASE NTRetry /\ UNCHANGED <<cluster, feed>>
    BY <1>1, <2>3, NTEndTypes
    DEF TypeOK, StoreTypeOK, NTAddFinalizer, NetworkTypeOK, networkVars, SHTypeOK
  <2> QED
    BY <1>1, <2>2, <2>3 DEF NTAddFinalizer
<1>2. CASE NTAddAWSFinalizer
  <2> DEFINE r == FinalizerAdded(awsCluster[c], cachedAWS[c], "nettop")
  <2>1. r \in AWSRec
    BY <1>0, AWSPatchTypes
  <2>2. CASE StoreAWS(c, r) /\ NTGoto("Register") /\ UNCHANGED queue
    <3>1. NTTypeOK'
      BY <2>2 DEF TypeOK, NTTypeOK, NTGoto, NTStages, RegisterStages
    <3> QED
      BY <1>0, <1>2, <2>1, <2>2, <3>1, StoreAWSType
      DEF TypeOK, StoreTypeOK, NTAddAWSFinalizer, NetworkTypeOK, networkVars, SHTypeOK
  <2>3. CASE NTRetry /\ UNCHANGED <<awsCluster, awsFeed>>
    BY <1>2, <2>3, NTEndTypes
    DEF TypeOK, StoreTypeOK, NTAddAWSFinalizer, NetworkTypeOK, networkVars, SHTypeOK
  <2> QED
    BY <1>2, <2>2, <2>3 DEF NTAddAWSFinalizer
<1>3. CASE NTRemoveAWSFinalizer
  <2> DEFINE r == FinalizerRemoved(awsCluster[c], cachedAWS[c], "nettop")
  <2>1. r \in AWSRec
    BY <1>0, AWSPatchTypes
  <2>2. NTGoto("RemoveFinalizer") => NTTypeOK'
    BY DEF TypeOK, NTTypeOK, NTGoto, NTStages, UnregisterStages, ReleaseStages
  <2>3. CASE NTGoto("RemoveFinalizer") /\ UNCHANGED <<awsCluster, awsFeed, queue>>
    BY <1>3, <2>2, <2>3
    DEF TypeOK, StoreTypeOK, NTRemoveAWSFinalizer, NetworkTypeOK, networkVars, SHTypeOK
  <2>4. CASE StoreAWS(c, r) /\ NTGoto("RemoveFinalizer") /\ UNCHANGED queue
    BY <1>0, <1>3, <2>1, <2>2, <2>4, StoreAWSType
    DEF TypeOK, StoreTypeOK, NTRemoveAWSFinalizer, NetworkTypeOK, networkVars, SHTypeOK
  <2>5. CASE NTRetry /\ UNCHANGED <<awsCluster, awsFeed>>
    BY <1>3, <2>5, NTEndTypes
    DEF TypeOK, StoreTypeOK, NTRemoveAWSFinalizer, NetworkTypeOK, networkVars, SHTypeOK
  <2> QED
    BY <1>3, <2>3, <2>4, <2>5 DEF NTRemoveAWSFinalizer
<1>4. CASE NTRemoveFinalizer
  <2> DEFINE r == FinalizerRemoved(cluster[c], nt.obj, "nettop")
  <2>1. r \in ClusterRec
    BY <1>0, PatchTypes
  <2>2. (StoreCluster(c, r) /\ NTDone) \/ (NTRetry /\ UNCHANGED <<cluster, feed>>)
    BY <1>4 DEF NTRemoveFinalizer
  <2> QED
    BY <1>0, <1>4, <2>1, <2>2, StoreClusterType, NTEndTypes
    DEF TypeOK, StoreTypeOK, NTRemoveFinalizer, NetworkTypeOK, networkVars, SHTypeOK
<1> QED
  BY <1>1, <1>2, <1>3, <1>4

\* The steps of Register that only decide.
LEMMA NTDecisionTypes ==
  ASSUME TypeOK, UNCHANGED sh,
         \/ NTInvalidMode \/ NTIDMissing \/ NTNoGateway \/ NTNotReady \/ NTNoVPC
         \/ \E t \in Gateways : NTFindGateway(t)
  PROVE  TypeOK'
<1>1. NTTypeOK'
  <2>1. CASE NTInvalidMode \/ NTIDMissing \/ NTNoGateway \/ NTNotReady \/ NTNoVPC
    BY <2>1, NTRegisteredType
    DEF NTInvalidMode, NTIDMissing, NTNoGateway, NTNotReady, NTNoVPC, Conditions
  <2>2. ASSUME NEW t \in Gateways, NTFindGateway(t)
        PROVE  NTTypeOK'
    BY <2>2 DEF TypeOK, NTTypeOK, NTFindGateway, NTStages, RegisterStages, ClusterRec
  <2> QED
    BY <2>1, <2>2
<1>2. UNCHANGED <<storeVars, networkVars>>
  BY DEF NTInvalidMode, NTIDMissing, NTNoGateway, NTNotReady, NTNoVPC, NTFindGateway
<1> QED
  BY <1>1, <1>2 DEF TypeOK, StoreTypeOK, storeVars, NetworkTypeOK, networkVars, SHTypeOK

\* The steps that write annotations and the condition.
LEMMA NTSaveTypes ==
  ASSUME TypeOK, UNCHANGED sh,
         NTModeNotSupported \/ NTSaveGateway \/ NTSavePrefixList \/ NTUpdateStatus
  PROVE  TypeOK'
<1> DEFINE c == nt.c
<1>0. c \in Clusters /\ cluster[c] \in ClusterRec /\ nt.obj \in ClusterRec
  BY DEF TypeOK, StoreTypeOK, NTTypeOK
<1> USE DEF storeButCluster
<1>1. CASE NTModeNotSupported
  <2> DEFINE r == [cluster[c] EXCEPT !.mode = "None"]
             o == [r EXCEPT !.ready = "ModeNotSupported"]
  <2>1. r \in ClusterRec /\ o \in ClusterRec
    BY <1>0 DEF ClusterRec, Modes, Conditions
  <2>2. CASE StoreCluster(c, r)
             /\ nt' = [nt EXCEPT !.pc = "UpdateStatus", !.again = FALSE, !.obj = o]
    <3> HIDE DEF r, o
    <3>1. NTTypeOK'
      BY <2>1, <2>2 DEF TypeOK, NTTypeOK, NTStages, RegisterStages
    <3> QED
      BY <1>0, <1>1, <2>1, <2>2, <3>1, StoreClusterType
      DEF TypeOK, StoreTypeOK, NTModeNotSupported, NetworkTypeOK, networkVars, SHTypeOK
  <2>3. CASE UNCHANGED <<cluster, feed>>
             /\ (NTRegistered("ModeNotSupported", FALSE) \/ NTRegisterFails)
    BY <1>1, <2>3, NTRegisteredType
    DEF Conditions, TypeOK, StoreTypeOK, NTModeNotSupported, NetworkTypeOK, networkVars, SHTypeOK
  <2> QED
    BY <1>1, <2>2, <2>3 DEF NTModeNotSupported
<1>2. CASE NTSaveGateway
  <2> DEFINE r == [cluster[c] EXCEPT !.tgw = nt.gw]
             o == Refreshed(nt.obj, r)
  <2>1. r \in ClusterRec
    BY <1>0 DEF TypeOK, NTTypeOK, ClusterRec
  <2>2. o \in ClusterRec
    BY <1>0, <2>1, PatchTypes DEF Finalizers
  <2>3. CASE StoreCluster(c, r) /\ nt' = [nt EXCEPT !.pc = "Attach", !.obj = o]
    <3> HIDE DEF r, o
    <3>1. NTTypeOK'
      BY <1>2, <2>2, <2>3 DEF TypeOK, NTTypeOK, NTStages, RegisterStages, NTSaveGateway, NTAt
    <3> QED
      BY <1>0, <1>2, <2>1, <2>3, <3>1, StoreClusterType
      DEF TypeOK, StoreTypeOK, NTSaveGateway, NetworkTypeOK, networkVars, SHTypeOK
  <2>4. CASE NTRegisterFails /\ UNCHANGED <<cluster, feed>>
    BY <1>2, <2>4, NTRegisteredType
    DEF Conditions, TypeOK, StoreTypeOK, NTSaveGateway, NetworkTypeOK, networkVars, SHTypeOK
  <2> QED
    BY <1>2, <2>3, <2>4 DEF NTSaveGateway
<1>3. CASE NTSavePrefixList
  <2> DEFINE r == [cluster[c] EXCEPT !.pl = TRUE]
             o == [r EXCEPT !.ready = "True"]
  <2>1. r \in ClusterRec /\ o \in ClusterRec
    BY <1>0 DEF ClusterRec, Conditions
  <2>2. CASE StoreCluster(c, r)
             /\ nt' = [nt EXCEPT !.pc = "UpdateStatus", !.again = TRUE, !.obj = o]
    <3> HIDE DEF r, o
    <3>1. NTTypeOK'
      BY <2>1, <2>2 DEF TypeOK, NTTypeOK, NTStages, RegisterStages
    <3> QED
      BY <1>0, <1>3, <2>1, <2>2, <3>1, StoreClusterType
      DEF TypeOK, StoreTypeOK, NTSavePrefixList, NetworkTypeOK, networkVars, SHTypeOK
  <2>3. CASE NTRegisterFails /\ UNCHANGED <<cluster, feed>>
    BY <1>3, <2>3, NTRegisteredType
    DEF Conditions, TypeOK, StoreTypeOK, NTSavePrefixList, NetworkTypeOK, networkVars, SHTypeOK
  <2> QED
    BY <1>3, <2>2, <2>3 DEF NTSavePrefixList
<1>4. CASE NTUpdateStatus
  BY <1>0, <1>4, StatusType, NTEndTypes
  DEF TypeOK, StoreTypeOK, NTUpdateStatus, NetworkTypeOK, networkVars, SHTypeOK
<1> QED
  BY <1>1, <1>2, <1>3, <1>4

\* The steps that change AWS resources, and the one that only looks.
LEMMA NTNetworkTypes ==
  ASSUME TypeOK, UNCHANGED sh,
         \/ \E t \in Gateways : NTCreateGateway(t)
         \/ NTAttach \/ NTPublish \/ NTAddToPrefixList
         \/ NTRemoveFromPrefixList \/ NTDetach \/ NTDeleteGateway \/ NTUnregister
  PROVE  TypeOK'
<1>0. /\ nt.c \in Clusters /\ nt.obj \in ClusterRec /\ nt.vpc \in BOOLEAN
      /\ nt.obj.tgw \in Gateways \cup {NoGateway} /\ nt.obj.mode \in Modes
      /\ cachedAWS[nt.c].vpc \in BOOLEAN /\ NetworkTypeOK
      /\ "transit-gateway" \in ShareKinds /\ "True" \in Conditions
  BY DEF TypeOK, StoreTypeOK, NTTypeOK, ClusterRec, AWSRec, ShareKinds, Conditions
<1>1. ASSUME NEW stage \in NTStages \ {"SaveGateway", "Attach", "Publish"}, NTGoto(stage)
      PROVE  NTTypeOK'
  BY <1>1 DEF TypeOK, NTTypeOK, NTGoto
<1>2. ASSUME UNCHANGED storeVars, NTTypeOK', NetworkTypeOK'
      PROVE  TypeOK'
  BY <1>2 DEF TypeOK, StoreTypeOK, storeVars, SHTypeOK
<1>3. ASSUME UNCHANGED storeButQueue, queue' \in [Finalizers -> SUBSET Clusters],
             NTTypeOK', NetworkTypeOK'
      PROVE  TypeOK'
  BY <1>3 DEF TypeOK, StoreTypeOK, storeButQueue, SHTypeOK
<1>4. queue \in [Finalizers -> SUBSET Clusters]
  BY DEF TypeOK, StoreTypeOK
<1> USE DEF NTStages, FinalizerStages, RegisterStages, UnregisterStages, ReleaseStages
<1>5. ASSUME NEW t \in Gateways, NTCreateGateway(t)
      PROVE  TypeOK'
  <2>1. NetworkTypeOK'
    BY <1>0, <1>5, NetworkCallTypes DEF NTCreateGateway
  <2>2. NTTypeOK'
    BY <1>0, <1>5 DEF TypeOK, NTTypeOK, NTCreateGateway
  <2> QED
    BY <1>2, <1>5, <2>1, <2>2 DEF NTCreateGateway
<1>6. CASE NTAttach
  <2>1. nt.gw \in Gateways
    BY <1>6 DEF TypeOK, NTTypeOK, NTAttach, NTAt
  <2>2. NetworkTypeOK'
    BY <1>0, <1>6, <2>1, NetworkCallTypes DEF NTAttach
  <2>3. NTTypeOK'
    <3>1. CASE NTRegistered("True", TRUE)
      BY <1>0, <3>1, NTRegisteredType
    <3>2. CASE nt' = [nt EXCEPT !.pc = "AddToPrefixList", !.vpc = TRUE]
               \/ nt' = [nt EXCEPT !.pc = "Publish", !.vpc = TRUE]
      BY <2>1, <3>2 DEF TypeOK, NTTypeOK
    <3> QED
      BY <1>6, <3>1, <3>2 DEF NTAttach
  <2> QED
    BY <1>2, <1>6, <2>2, <2>3 DEF NTAttach
<1>7. CASE NTPublish
  <2>1. nt.gw \in Gateways
    BY <1>7 DEF TypeOK, NTTypeOK, NTPublish, NTAt
  <2>2. NetworkTypeOK'
    BY <1>0, <1>7, <2>1, NetworkCallTypes DEF NTPublish
  <2>3. NTTypeOK'
    BY <1>0, <1>7, NTRegisteredType DEF NTPublish
  <2> QED
    BY <1>2, <1>7, <2>2, <2>3 DEF NTPublish
<1>8. CASE NTAddToPrefixList
  <2>1. NetworkTypeOK'
    BY <1>0, <1>8, NetworkCallTypes DEF NTAddToPrefixList
  <2>2. NTTypeOK'
    BY <1>0, <1>1, <1>8, NTRegisteredType DEF NTAddToPrefixList
  <2> QED
    BY <1>2, <1>8, <2>1, <2>2 DEF NTAddToPrefixList
<1>9. CASE NTRemoveFromPrefixList
  <2>1. NetworkTypeOK'
    BY <1>0, <1>9, NetworkCallTypes DEF NTRemoveFromPrefixList
  <2>2. NTTypeOK' /\ queue' \in [Finalizers -> SUBSET Clusters]
    BY <1>1, <1>4, <1>9, NTEndTypes DEF NTRemoveFromPrefixList
  <2> QED
    BY <1>3, <1>9, <2>1, <2>2 DEF NTRemoveFromPrefixList
<1>10. CASE NTDetach
  <2>1. NetworkTypeOK'
    BY <1>0, <1>10, NetworkCallTypes DEF NTDetach
  <2>2. NTTypeOK'
    BY <1>1, <1>10 DEF NTDetach
  <2> QED
    BY <1>2, <1>10, <2>1, <2>2 DEF NTDetach
<1>11. CASE NTDeleteGateway
  <2>1. NetworkTypeOK'
    BY <1>0, <1>11, NetworkCallTypes DEF NTDeleteGateway, CanDeleteGateway
  <2>2. NTTypeOK' /\ queue' \in [Finalizers -> SUBSET Clusters]
    BY <1>1, <1>4, <1>11, NTEndTypes DEF NTDeleteGateway
  <2> QED
    BY <1>3, <1>11, <2>1, <2>2 DEF NTDeleteGateway
<1>12. CASE NTUnregister
  <2>1. NetworkTypeOK'
    BY <1>0, <1>12, NetworkCallTypes DEF NTUnregister
  <2>2. CASE NTRetry
    BY <1>3, <1>12, <2>1, <2>2, NTEndTypes DEF NTUnregister
  <2>3. ASSUME NEW next \in {"RemoveAWSFinalizer", "Detach", "RemoveFromPrefixList"},
               nt' = [nt EXCEPT !.pc = next, !.mode = nt.obj.mode, !.vpc = cachedAWS[nt.c].vpc],
               UNCHANGED queue
        PROVE  TypeOK'
    <3>1. NTTypeOK'
      BY <1>0, <2>3 DEF TypeOK, NTTypeOK
    <3> QED
      BY <1>3, <1>4, <1>12, <2>1, <2>3, <3>1 DEF NTUnregister
  <2> QED
    BY <1>12, <2>2, <2>3 DEF NTUnregister
<1> QED
  BY <1>5, <1>6, <1>7, <1>8, <1>9, <1>10, <1>11, <1>12

LEMMA NTAWSReadFailsType ==
  ASSUME TypeOK, UNCHANGED sh, NTAWSReadFails
  PROVE  TypeOK'
<1>1. NTTypeOK'
  BY DEF NTAWSReadFails, TypeOK, NTTypeOK, NTGoto, NTStages, UnregisterStages, ReleaseStages
<1>2. faults' \in 0..MaxFaults
  BY StoreAssumption DEF NTAWSReadFails, TypeOK, StoreTypeOK
<1> QED
  BY <1>1, <1>2 DEF NTAWSReadFails, TypeOK, StoreTypeOK, NetworkTypeOK, networkVars, SHTypeOK

LEMMA NTFaultType ==
  ASSUME TypeOK, UNCHANGED sh, NTFault
  PROVE  TypeOK'
<1>1. NTTypeOK' /\ queue' \in [Finalizers -> SUBSET Clusters]
  <2>1. CASE NTRetry \/ NTDone
    BY <2>1, NTEndTypes
  <2>2. CASE NTRegisterFails /\ UNCHANGED queue
    BY <2>2, NTRegisteredType DEF TypeOK, StoreTypeOK, Conditions
  <2> QED
    BY <2>1, <2>2 DEF NTFault
<1>2. faults' \in 0..MaxFaults
  BY StoreAssumption DEF NTFault, TypeOK, StoreTypeOK
<1> QED
  BY <1>1, <1>2 DEF NTFault, TypeOK, StoreTypeOK, NetworkTypeOK, networkVars, SHTypeOK

-----------------------------------------------------------------------------
(* The share reconciler.                                                   *)

LEMMA SHEndTypes ==
  ASSUME TypeOK, SHRetry \/ SHDone
  PROVE  SHTypeOK' /\ queue' \in [Finalizers -> SUBSET Clusters]
<1>1. sh' = SHIdle
  BY DEF SHRetry, SHDone
<1>2. SHTypeOK'
  BY <1>1, StoreAssumption, RecordTypes DEF SHTypeOK, SHIdle, SHStages
<1>3. sh.c \in Clusters
  BY DEF TypeOK, SHTypeOK
<1> QED
  BY <1>2, <1>3 DEF TypeOK, StoreTypeOK, SHRetry, SHDone, Enqueue, Finalizers

\* The steps that patch finalizers.
LEMMA SHFinalizerTypes ==
  ASSUME TypeOK, UNCHANGED nt,
         SHAddFinalizer \/ SHAddAWSFinalizer \/ SHRemoveAWSFinalizer \/ SHRemoveFinalizer
  PROVE  TypeOK'
<1> DEFINE c == sh.c
<1>0. c \in Clusters /\ cluster[c] \in ClusterRec /\ sh.obj \in ClusterRec
      /\ awsCluster[c] \in AWSRec /\ cachedAWS[c] \in AWSRec /\ "share" \in Finalizers
  BY DEF TypeOK, StoreTypeOK, SHTypeOK, Finalizers
<1>1. CASE SHAddFinalizer
  <2> DEFINE r == FinalizerAdded(cluster[c], sh.obj, "share")
             o == Refreshed(sh.obj, r)
  <2>1. r \in ClusterRec /\ o \in ClusterRec
    BY <1>0, PatchTypes
  <2>2. CASE StoreCluster(c, r) /\ sh' = [sh EXCEPT !.pc = "AddAWSFinalizer", !.obj = o]
             /\ UNCHANGED queue
    <3> HIDE DEF r, o
    <3>1. SHTypeOK'
      BY <2>1, <2>2 DEF TypeOK, SHTypeOK, SHStages
    <3> QED
      BY <1>0, <1>1, <2>1, <2>2, <3>1, StoreClusterType
      DEF TypeOK, StoreTypeOK, SHAddFinalizer, NetworkTypeOK, networkVars, NTTypeOK
  <2>3. CASE SHRetry /\ UNCHANGED <<cluster, feed>>
    BY <1>1, <2>3, SHEndTypes
    DEF TypeOK, StoreTypeOK, SHAddFinalizer, NetworkTypeOK, networkVars, NTTypeOK
  <2> QED
    BY <1>1, <2>2, <2>3 DEF SHAddFinalizer
<1>2. CASE SHAddAWSFinalizer
  <2> DEFINE r == FinalizerAdded(awsCluster[c], cachedAWS[c], "share")
  <2>1. r \in AWSRec
    BY <1>0, AWSPatchTypes
  <2>2. CASE StoreAWS(c, r) /\ SHGoto("ApplyGatewayShare") /\ UNCHANGED queue
    <3>1. SHTypeOK'
      BY <2>2 DEF TypeOK, SHTypeOK, SHGoto, SHStages
    <3> QED
      BY <1>0, <1>2, <2>1, <2>2, <3>1, StoreAWSType
      DEF TypeOK, StoreTypeOK, SHAddAWSFinalizer, NetworkTypeOK, networkVars, NTTypeOK
  <2>3. CASE SHRetry /\ UNCHANGED <<awsCluster, awsFeed>>
    BY <1>2, <2>3, SHEndTypes
    DEF TypeOK, StoreTypeOK, SHAddAWSFinalizer, NetworkTypeOK, networkVars, NTTypeOK
  <2> QED
    BY <1>2, <2>2, <2>3 DEF SHAddAWSFinalizer
<1>3. CASE SHRemoveAWSFinalizer
  <2> DEFINE r == FinalizerRemoved(awsCluster[c], cachedAWS[c], "share")
  <2>1. r \in AWSRec
    BY <1>0, AWSPatchTypes
  <2>2. SHGoto("RemoveFinalizer") => SHTypeOK'
    BY DEF TypeOK, SHTypeOK, SHGoto, SHStages
  <2>3. CASE SHGoto("RemoveFinalizer") /\ UNCHANGED <<awsCluster, awsFeed, queue>>
    BY <1>3, <2>2, <2>3
    DEF TypeOK, StoreTypeOK, SHRemoveAWSFinalizer, NetworkTypeOK, networkVars, NTTypeOK
  <2>4. CASE StoreAWS(c, r) /\ SHGoto("RemoveFinalizer") /\ UNCHANGED queue
    BY <1>0, <1>3, <2>1, <2>2, <2>4, StoreAWSType
    DEF TypeOK, StoreTypeOK, SHRemoveAWSFinalizer, NetworkTypeOK, networkVars, NTTypeOK
  <2>5. CASE SHRetry /\ UNCHANGED <<awsCluster, awsFeed>>
    BY <1>3, <2>5, SHEndTypes
    DEF TypeOK, StoreTypeOK, SHRemoveAWSFinalizer, NetworkTypeOK, networkVars, NTTypeOK
  <2> QED
    BY <1>3, <2>3, <2>4, <2>5 DEF SHRemoveAWSFinalizer
<1>4. CASE SHRemoveFinalizer
  <2> DEFINE r == FinalizerRemoved(cluster[c], sh.obj, "share")
  <2>1. r \in ClusterRec
    BY <1>0, PatchTypes
  <2>2. (StoreCluster(c, r) /\ SHDone) \/ (SHRetry /\ UNCHANGED <<cluster, feed>>)
    BY <1>4 DEF SHRemoveFinalizer
  <2> QED
    BY <1>0, <1>4, <2>1, <2>2, StoreClusterType, SHEndTypes
    DEF TypeOK, StoreTypeOK, SHRemoveFinalizer, NetworkTypeOK, networkVars, NTTypeOK
<1> QED
  BY <1>1, <1>2, <1>3, <1>4

\* The other steps: decisions, and the calls to RAM.
LEMMA SHShareTypes ==
  ASSUME TypeOK, UNCHANGED nt,
         \/ SHShareTransitGateway \/ SHApplyGatewayShare \/ SHSharePrefixList
         \/ SHDeleteGatewayShare \/ SHDeletePrefixListShare
  PROVE  TypeOK'
<1>1. NetworkTypeOK'
  <2>1. /\ sh.c \in Clusters /\ NetworkTypeOK /\ MC \in Clusters
        /\ "transit-gateway" \in ShareKinds /\ "prefix-list" \in ShareKinds
    BY StoreAssumption DEF TypeOK, SHTypeOK, ShareKinds
  <2>2. \/ ApplyResourceShare(sh.c, "transit-gateway") \/ ApplyResourceShare(sh.c, "prefix-list")
        \/ DeleteResourceShare(sh.c, "transit-gateway") \/ DeleteResourceShare(sh.c, "prefix-list")
        \/ UNCHANGED networkVars
    BY DEF SHShareTransitGateway, SHApplyGatewayShare, SHSharePrefixList,
           SHDeleteGatewayShare, SHDeletePrefixListShare
  <2> QED
    BY <2>1, <2>2, NetworkCallTypes
<1>2. SHTypeOK' /\ queue' \in [Finalizers -> SUBSET Clusters]
  <2>1. CASE SHRetry \/ SHDone
    BY <2>1, SHEndTypes
  <2>2. ASSUME NEW stage \in SHStages, SHGoto(stage), UNCHANGED queue
        PROVE  SHTypeOK' /\ queue' \in [Finalizers -> SUBSET Clusters]
    BY <2>2 DEF TypeOK, StoreTypeOK, SHTypeOK, SHGoto
  <2> QED
    BY <2>1, <2>2
    DEF SHShareTransitGateway, SHApplyGatewayShare, SHSharePrefixList, SHDeleteGatewayShare,
        SHDeletePrefixListShare, SHDone, storeVars, SHStages
<1>3. UNCHANGED <<cluster, awsCluster, cached, cachedAWS, feed, awsFeed, faults>>
  BY DEF SHShareTransitGateway, SHApplyGatewayShare, SHSharePrefixList, SHDeleteGatewayShare,
         SHDeletePrefixListShare, storeVars
<1> QED
  BY <1>1, <1>2, <1>3 DEF TypeOK, StoreTypeOK, NTTypeOK

LEMMA SHGetType ==
  ASSUME TypeOK, UNCHANGED nt, NEW c \in Clusters, SHGet(c)
  PROVE  TypeOK'
<1>1. cached[c] \in ClusterRec /\ SHFirst(cached[c]) \in SHStages
  BY DEF TypeOK, StoreTypeOK, SHFirst, SHStages
<1>2. SHIdle \in [pc: SHStages, c: Clusters, obj: ClusterRec]
  BY StoreAssumption, RecordTypes DEF SHIdle, SHStages
<1>3. SHTypeOK'
  BY <1>1, <1>2 DEF SHGet, SHTypeOK
<1>4. queue' \in [Finalizers -> SUBSET Clusters]
  BY DEF SHGet, TypeOK, StoreTypeOK, Finalizers
<1> QED
  BY <1>3, <1>4 DEF SHGet, TypeOK, StoreTypeOK, NetworkTypeOK, networkVars, NTTypeOK

LEMMA SHAWSReadFailsType ==
  ASSUME TypeOK, UNCHANGED nt, SHAWSReadFails
  PROVE  TypeOK'
<1>1. SHTypeOK'
  BY DEF SHAWSReadFails, TypeOK, SHTypeOK, SHGoto, SHStages
<1>2. faults' \in 0..MaxFaults
  BY StoreAssumption DEF SHAWSReadFails, TypeOK, StoreTypeOK
<1> QED
  BY <1>1, <1>2 DEF SHAWSReadFails, TypeOK, StoreTypeOK, NetworkTypeOK, networkVars, NTTypeOK

LEMMA SHFaultType ==
  ASSUME TypeOK, UNCHANGED nt, SHFault
  PROVE  TypeOK'
<1>1. faults' \in 0..MaxFaults
  BY StoreAssumption DEF SHFault, TypeOK, StoreTypeOK
<1> QED
  BY <1>1, SHEndTypes
  DEF SHFault, TypeOK, StoreTypeOK, NetworkTypeOK, networkVars, NTTypeOK

-----------------------------------------------------------------------------
(* The caches, the owners of the objects, and AWS.                         *)

LEMMA DeliverTypes ==
  ASSUME TypeOK, UNCHANGED <<nt, sh>>, NEW c \in Clusters, Deliver(c)
  PROVE  TypeOK'
<1>1. StoreTypeOK'
  <2>1. CASE DeliverCluster(c)
    <3>1. feed[c] \in Seq(ClusterRec) /\ feed[c] # <<>>
      BY <2>1 DEF DeliverCluster, TypeOK, StoreTypeOK
    <3>2. Head(feed[c]) \in ClusterRec /\ Tail(feed[c]) \in Seq(ClusterRec)
      BY <3>1, HeadTailProperties
    <3> QED
      BY <2>1, <3>2 DEF DeliverCluster, TypeOK, StoreTypeOK
  <2>2. CASE DeliverAWS(c)
    <3>1. awsFeed[c] \in Seq(AWSRec) /\ awsFeed[c] # <<>>
      BY <2>2 DEF DeliverAWS, TypeOK, StoreTypeOK
    <3>2. Head(awsFeed[c]) \in AWSRec /\ Tail(awsFeed[c]) \in Seq(AWSRec)
      BY <3>1, HeadTailProperties
    <3> QED
      BY <2>2, <3>2 DEF DeliverAWS, TypeOK, StoreTypeOK
  <2> QED
    BY <2>1, <2>2 DEF Deliver
<1> QED
  BY <1>1 DEF Deliver, TypeOK, NetworkTypeOK, networkVars, NTTypeOK, SHTypeOK

LEMMA RestartType == ASSUME TypeOK, Restart PROVE TypeOK'
<1>1. StoreTypeOK'
  <2>1. faults' \in 0..MaxFaults
    BY StoreAssumption DEF Restart, Relist, TypeOK, StoreTypeOK
  <2>2. <<>> \in Seq(ClusterRec) /\ <<>> \in Seq(AWSRec)
    OBVIOUS
  <2> QED
    BY <2>1, <2>2 DEF Restart, Relist, TypeOK, StoreTypeOK
<1>2. NTTypeOK' /\ SHTypeOK'
  BY NTIdleType, StoreAssumption, RecordTypes
  DEF Restart, NTTypeOK, SHTypeOK, NTIdle, SHIdle, SHStages
<1> QED
  BY <1>1, <1>2 DEF Restart, TypeOK, NetworkTypeOK, networkVars

\* What CAPI, CAPA and users do to the objects.
LEMMA OwnersTypes ==
  ASSUME TypeOK, NEW c \in Clusters, Provision(c) \/ User(c)
  PROVE  TypeOK'
<1>0. cluster[c] \in ClusterRec /\ awsCluster[c] \in AWSRec
  BY DEF TypeOK, StoreTypeOK
<1>1. StoreTypeOK'
  <2>1. ASSUME NEW r \in ClusterRec, StoreCluster(c, r), UNCHANGED storeButCluster
        PROVE  StoreTypeOK'
    BY <2>1, StoreClusterType DEF TypeOK, StoreTypeOK, storeButCluster
  <2>2. ASSUME NEW r \in AWSRec, StoreAWS(c, r),
               UNCHANGED <<cluster, cached, cachedAWS, feed, queue, faults>>
        PROVE  StoreTypeOK'
    BY <2>2, StoreAWSType DEF TypeOK, StoreTypeOK
  <2>3. CASE DeleteCluster(c) \/ ChangeMode(c) \/ TogglePause(c) \/ CollectCluster(c)
    BY <1>0, <2>1, <2>3
    DEF DeleteCluster, ChangeMode, TogglePause, CollectCluster, storeButCluster, ClusterRec, Phases
  <2>4. CASE CreateAWSCluster(c) \/ VPCReady(c) \/ DeleteAWSCluster(c) \/ RemoveInfrastructure(c)
    BY <1>0, <2>2, <2>4
    DEF CreateAWSCluster, VPCReady, DeleteAWSCluster, RemoveInfrastructure, CollectAWSCluster,
        NoAWSCluster, AWSRec, Phases
  <2> QED
    BY <2>3, <2>4 DEF Provision, User
<1> QED
  BY <1>1 DEF Provision, User, TypeOK, NetworkTypeOK, networkVars, NTTypeOK, SHTypeOK

LEMMA AWSTypes ==
  ASSUME TypeOK, NEW t \in Gateways, AWS(t)
  PROVE  TypeOK'
<1>1. NetworkTypeOK'
  <2>1. NetworkTypeOK /\ MC \in Clusters /\ "prefix-list" \in ShareKinds
    BY StoreAssumption DEF TypeOK, ShareKinds
  <2>2. CASE GatewayAvailable(t)
    BY <2>1, <2>2, NetworkCallTypes
  <2>3. ASSUME NEW c \in Clusters, AttachmentDeleted(t, c) \/ AcceptAttachment(t, c)
        PROVE  NetworkTypeOK'
    BY <2>1, <2>3, NetworkCallTypes
  <2> QED
    BY <2>2, <2>3 DEF AWS
<1> QED
  BY <1>1 DEF AWS, storeVars, TypeOK, StoreTypeOK, NTTypeOK, SHTypeOK

-----------------------------------------------------------------------------
\* The initial states are typed.
LEMMA InitTypeOK == ASSUME Init PROVE TypeOK
<1>1. StoreTypeOK
  <2>1. cluster \in [Clusters -> ClusterRec]
    BY StoreAssumption, RecordTypes
    DEF Init, StoreInit, NewCluster, ClusterRec, Phases, Finalizers, Conditions
  <2>2. awsCluster \in [Clusters -> AWSRec]
    BY StoreAssumption, RecordTypes DEF Init, StoreInit, AWSRec
  <2>3. cached \in [Clusters -> ClusterRec] /\ cachedAWS \in [Clusters -> AWSRec]
    BY <2>2, RecordTypes DEF Init, StoreInit
  <2>4. feed \in [Clusters -> Seq(ClusterRec)] /\ awsFeed \in [Clusters -> Seq(AWSRec)]
    BY <2>1 DEF Init, StoreInit
  <2>5. queue \in [Finalizers -> SUBSET Clusters] /\ faults \in 0..MaxFaults
    BY StoreAssumption DEF Init, StoreInit
  <2> QED
    BY <2>1, <2>2, <2>3, <2>4, <2>5 DEF StoreTypeOK
<1>2. NetworkTypeOK
  <2>1. shares \in [Clusters -> SUBSET ShareKinds] /\ notified \subseteq Gateways \X Clusters
    BY DEF Init, NetworkInit
  <2>2. prefixList \in [Cidrs -> Clusters \cup {Nobody}]
    BY StoreAssumption DEF Init, NetworkInit
  <2> QED
    BY <2>1, <2>2 DEF Init, NetworkInit, NetworkTypeOK, GatewayStates, AttachmentStates
<1>3. NTTypeOK /\ SHTypeOK
  BY NTIdleType, StoreAssumption, RecordTypes
  DEF Init, NTInit, SHInit, NTTypeOK, SHTypeOK, NTIdle, SHIdle, SHStages
<1> QED
  BY <1>1, <1>2, <1>3 DEF TypeOK

\* Every step keeps the state typed.
LEMMA NextTypeOK == ASSUME TypeOK, [Next]_vars PROVE TypeOK'
<1>1. CASE NTWork
  BY <1>1, NTFinalizerTypes, NTDecisionTypes, NTSaveTypes, NTNetworkTypes DEF NTWork, NTStep
<1>2. CASE SHWork
  BY <1>2, SHFinalizerTypes, SHShareTypes DEF SHWork, SHStep
<1>3. CASE Fault
  BY <1>3, NTFaultType, NTAWSReadFailsType, SHFaultType, SHAWSReadFailsType DEF Fault
<1>4. CASE Restart
  BY <1>4, RestartType
<1>5. ASSUME NEW c \in Clusters, NTTake(c) \/ SHTake(c) \/ Deliver(c) \/ Provision(c) \/ User(c)
      PROVE  TypeOK'
  <2>1. CASE NTTake(c)
    BY <2>1, NTGetType DEF NTTake
  <2>2. CASE SHTake(c)
    BY <2>2, SHGetType DEF SHTake
  <2>3. CASE Deliver(c)
    BY <2>3, DeliverTypes DEF Deliver
  <2>4. CASE Provision(c) \/ User(c)
    BY <2>4, OwnersTypes
  <2> QED
    BY <1>5, <2>1, <2>2, <2>3, <2>4
<1>6. ASSUME NEW t \in Gateways, AWS(t)
      PROVE  TypeOK'
  BY <1>6, AWSTypes
<1>7. CASE UNCHANGED vars
  BY <1>7
  DEF vars, storeVars, networkVars, TypeOK, StoreTypeOK, NetworkTypeOK, NTTypeOK, SHTypeOK
<1> QED
  BY <1>1, <1>2, <1>3, <1>4, <1>5, <1>6, <1>7 DEF Next

\* Every variable holds what its component's module says it may, for any clusters,
\* gateways, accounts and bounds: in particular the condition is always one the
\* registrar sets, and the worker has a gateway whenever it saves or attaches one.
THEOREM TypeCorrect == Spec => []TypeOK
<1>1. Init => TypeOK
  BY InitTypeOK
<1>2. TypeOK /\ [Next]_vars => TypeOK'
  BY NextTypeOK
<1> QED
  BY <1>1, <1>2, PTL DEF Spec
=============================================================================
