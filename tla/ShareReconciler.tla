---------------------------- MODULE ShareReconciler ----------------------------
(***************************************************************************)
(* The share reconciler (controllers/share.go): RAM resource shares of the *)
(* transit gateway and of the prefix list with the account of a workload   *)
(* cluster. It reads the annotations the network topology reconciler saves *)
(* and waits for that reconciler's finalizer to go before it cleans up;    *)
(* the two share nothing else.                                             *)
(***************************************************************************)
EXTENDS AwsNetwork

VARIABLE sh  \* the worker

SHStages == {"idle", "ShareTransitGateway", "AddFinalizer", "AddAWSFinalizer",
             "ApplyGatewayShare", "SharePrefixList", "DeleteGatewayShare",
             "DeletePrefixListShare", "RemoveAWSFinalizer", "RemoveFinalizer"}

\* c: the request; obj: the reconciler's copy of the Cluster.
SHTypeOK == sh \in [pc: SHStages, c: Clusters, obj: ClusterRec]

SHIdle == [pc |-> "idle", c |-> MC, obj |-> NoCluster]
SHInit == sh = SHIdle

SHAt(stage) == sh.pc = stage
SHGoto(stage) == sh' = [sh EXCEPT !.pc = stage]
SHRetry == sh' = SHIdle /\ Enqueue("share", sh.c)
SHDone == sh' = SHIdle /\ UNCHANGED queue

\* Mutants: a deletion does not wait; it waits for every finalizer.
SHFirstNotWaiting(x) ==
  IF ~Exists(x) \/ x.mode # "GiantSwarmManaged" THEN "idle"
  ELSE IF x.phase = "live" THEN "ShareTransitGateway" ELSE "DeleteGatewayShare"
SHFirstWaitingForAll(x) ==
  IF ~Exists(x) \/ x.mode # "GiantSwarmManaged" THEN "idle"
  ELSE IF x.phase = "live" THEN "ShareTransitGateway"
  ELSE IF x.fins # {} THEN "idle" ELSE "DeleteGatewayShare"

\* Whatever is not GiantSwarmManaged is left alone, being deleted or not; a
\* deletion waits until the network topology finalizer is gone.
SHFirst(x) ==
  IF ~Exists(x) \/ x.mode # "GiantSwarmManaged" THEN "idle"
  ELSE IF x.phase = "live" THEN "ShareTransitGateway"
  ELSE IF "nettop" \in x.fins THEN "idle" ELSE "DeleteGatewayShare"

SHGet(c) ==
  LET x == cached[c]
  IN  /\ SHAt("idle") /\ c \in queue["share"] /\ Readable(c)
      /\ queue' = [queue EXCEPT !["share"] = @ \ {c}]
      /\ sh' = IF SHFirst(x) = "idle" THEN SHIdle
               ELSE [pc |-> SHFirst(x), c |-> c, obj |-> x]
      /\ UNCHANGED <<cluster, awsCluster, cached, cachedAWS, feed, awsFeed, faults, networkVars>>

\* getAccountId needs the AWSCluster; without a gateway annotation, or with a
\* gateway of the cluster's own account, there is no gateway to share.
SHShareTransitGateway ==
  LET foreign == sh.obj.tgw # NoGateway /\ GatewayAccount[sh.obj.tgw] # Account[sh.c]
  IN  /\ SHAt("ShareTransitGateway") /\ ReadableAWS(sh.c)
      /\ IF ~Exists(cachedAWS[sh.c]) THEN SHRetry
         ELSE SHGoto(IF foreign THEN "AddFinalizer" ELSE "SharePrefixList") /\ UNCHANGED queue
      /\ UNCHANGED <<cluster, awsCluster, cached, cachedAWS, feed, awsFeed, faults, networkVars>>

SHAddFinalizer ==
  LET c == sh.c
      patched == FinalizerAdded(cluster[c], sh.obj, "share")
  IN  /\ SHAt("AddFinalizer")
      /\ IF Accepts(cluster[c], patched)
         THEN /\ StoreCluster(c, patched) /\ UNCHANGED queue
              /\ sh' = [sh EXCEPT !.pc = "AddAWSFinalizer", !.obj = Refreshed(@, patched)]
         ELSE SHRetry /\ UNCHANGED <<cluster, feed>>
      /\ UNCHANGED <<awsCluster, cached, cachedAWS, awsFeed, faults, networkVars>>

SHAddAWSFinalizer ==
  LET c == sh.c
      patched == FinalizerAdded(awsCluster[c], cachedAWS[c], "share")
  IN  /\ SHAt("AddAWSFinalizer") /\ ReadableAWS(c)
      /\ IF Exists(cachedAWS[c]) /\ Accepts(awsCluster[c], patched)
         THEN StoreAWS(c, patched) /\ SHGoto("ApplyGatewayShare") /\ UNCHANGED queue
         ELSE SHRetry /\ UNCHANGED <<awsCluster, awsFeed>>
      /\ UNCHANGED <<cluster, cached, cachedAWS, feed, faults, networkVars>>

SHApplyGatewayShare ==
  /\ SHAt("ApplyGatewayShare")
  /\ ApplyResourceShare(sh.c, "transit-gateway")
  /\ SHGoto("SharePrefixList") /\ UNCHANGED storeVars

\* The prefix list belongs to the account of the MC. No finalizer is added here.
SHSharePrefixList ==
  /\ SHAt("SharePrefixList")
  /\ IF sh.obj.pl /\ Account[sh.c] # Account[MC]
     THEN ApplyResourceShare(sh.c, "prefix-list") ELSE UNCHANGED networkVars
  /\ sh' = SHIdle /\ UNCHANGED storeVars

SHDeleteGatewayShare ==
  /\ SHAt("DeleteGatewayShare")
  /\ DeleteResourceShare(sh.c, "transit-gateway")
  /\ SHGoto("DeletePrefixListShare") /\ UNCHANGED storeVars

SHDeletePrefixListShare ==
  /\ SHAt("DeletePrefixListShare")
  /\ DeleteResourceShare(sh.c, "prefix-list")
  /\ SHGoto("RemoveAWSFinalizer") /\ UNCHANGED storeVars

\* An AWSCluster the cache does not have is passed over.
SHRemoveAWSFinalizer ==
  LET c == sh.c
      patched == FinalizerRemoved(awsCluster[c], cachedAWS[c], "share")
  IN  /\ SHAt("RemoveAWSFinalizer") /\ ReadableAWS(c)
      /\ IF ~Exists(cachedAWS[c])
         THEN SHGoto("RemoveFinalizer") /\ UNCHANGED <<awsCluster, awsFeed, queue>>
         ELSE IF Accepts(awsCluster[c], patched)
         THEN StoreAWS(c, patched) /\ SHGoto("RemoveFinalizer") /\ UNCHANGED queue
         ELSE SHRetry /\ UNCHANGED <<awsCluster, awsFeed>>
      /\ UNCHANGED <<cluster, cached, cachedAWS, feed, faults, networkVars>>

\* RemoveFinalizer ignores any error of GetAWSCluster, for this finalizer too.
SHAWSReadFails ==
  /\ SHAt("RemoveAWSFinalizer") /\ faults < MaxFaults /\ faults' = faults + 1
  /\ SHGoto("RemoveFinalizer")
  /\ UNCHANGED <<cluster, awsCluster, cached, cachedAWS, feed, awsFeed, queue, networkVars>>

SHRemoveFinalizer ==
  LET c == sh.c
      patched == FinalizerRemoved(cluster[c], sh.obj, "share")
  IN  /\ SHAt("RemoveFinalizer")
      /\ IF Accepts(cluster[c], patched)
         THEN StoreCluster(c, patched) /\ SHDone
         ELSE SHRetry /\ UNCHANGED <<cluster, feed>>
      /\ UNCHANGED <<awsCluster, cached, cachedAWS, awsFeed, faults, networkVars>>

\* Any call may fail. Every error but that of the read in SHAWSReadFails requeues
\* the request.
SHFault ==
  /\ ~SHAt("idle") /\ faults < MaxFaults /\ faults' = faults + 1
  /\ SHRetry
  /\ UNCHANGED <<cluster, awsCluster, cached, cachedAWS, feed, awsFeed, networkVars>>

\* One step of the worker after it has taken a request.
SHStep ==
  \/ SHShareTransitGateway \/ SHAddFinalizer \/ SHAddAWSFinalizer
  \/ SHApplyGatewayShare \/ SHSharePrefixList
  \/ SHDeleteGatewayShare \/ SHDeletePrefixListShare
  \/ SHRemoveAWSFinalizer \/ SHRemoveFinalizer
=============================================================================
