-------------------------------- MODULE NetTop --------------------------------
(***************************************************************************)
(* The network topology reconciler (controllers/networktopology.go) with   *)
(* the transit gateway registrar it calls (pkg/registrar). One worker; its *)
(* program counter stops before every call that reads a cache or changes   *)
(* an object or an AWS resource, so that everything else may happen there. *)
(***************************************************************************)
EXTENDS AwsNetwork

VARIABLE nt  \* the worker

RegisterStages == {"Register", "SaveGateway", "Attach", "Publish", "AddToPrefixList",
                   "SavePrefixList", "UpdateStatus"}
FinalizerStages == {"AddFinalizer", "AddAWSFinalizer"}
ReleaseStages == {"DeleteGateway", "RemoveAWSFinalizer", "RemoveFinalizer"}
UnregisterStages == {"Unregister", "RemoveFromPrefixList", "Detach"} \cup ReleaseStages
NTStages == {"idle"} \cup FinalizerStages \cup RegisterStages \cup UnregisterStages

\* c: the request; obj: the reconciler's copy of the Cluster; mode: the branch
\* Register took; gw: the gateway it settled on and up: whether that was
\* available; vpc: the VPC of the AWSCluster copy; again: requeue at the end.
NTTypeOK ==
  /\ nt \in [pc: NTStages, c: Clusters, obj: ClusterRec, mode: Modes,
             gw: Gateways \cup {NoGateway}, up: BOOLEAN, vpc: BOOLEAN, again: BOOLEAN]
  /\ nt.pc \in {"SaveGateway", "Attach", "Publish"} => nt.gw \in Gateways

NTIdle == [pc |-> "idle", c |-> MC, obj |-> NoCluster, mode |-> "unset",
           gw |-> NoGateway, up |-> FALSE, vpc |-> FALSE, again |-> FALSE]
NTInit == nt = NTIdle

NTAt(stage) == nt.pc = stage
NTGoto(stage) == nt' = [nt EXCEPT !.pc = stage]

\* The reconcile ends with an error or a requeue, or with neither.
NTDone == nt' = NTIdle /\ UNCHANGED queue
NTRetry == nt' = NTIdle /\ Enqueue("nettop", nt.c)

\* Mutants: nothing is requeued; a failed registration is marked true.
NTRegisteredOnce(condition, again) ==
  nt' = [nt EXCEPT !.pc = "UpdateStatus", !.obj.ready = condition, !.again = FALSE]
NTRegisterFailsReady ==
  nt' = [nt EXCEPT !.pc = "UpdateStatus", !.obj.ready = "True", !.again = TRUE]

\* Register ends; the deferred UpdateStatus is still to run.
NTRegistered(condition, again) ==
  nt' = [nt EXCEPT !.pc = "UpdateStatus", !.obj.ready = condition, !.again = again]
NTRegisterFails == nt' = [nt EXCEPT !.pc = "UpdateStatus", !.again = TRUE]

storeButQueue == <<cluster, awsCluster, cached, cachedAWS, feed, awsFeed, faults>>
storeButCluster == <<awsCluster, cached, cachedAWS, awsFeed, queue, faults>>

-----------------------------------------------------------------------------
(* Reconcile                                                               *)

\* A Cluster without the condition gets InProgress first; that its update may
\* be refused is ignored.
NTGet(c) ==
  LET x == cached[c]
      fresh == [x EXCEPT !.ready = IF @ = "none" THEN "InProgress" ELSE @]
      handles == Exists(x) /\ ~x.paused
      next == CASE x.phase = "live" -> "AddFinalizer"
                [] x.phase = "deleting" /\ "nettop" \in x.fins -> "Unregister"
                [] OTHER -> "idle"
  IN  /\ NTAt("idle") /\ c \in queue["nettop"] /\ Readable(c)
      /\ queue' = [queue EXCEPT !["nettop"] = @ \ {c}]
      /\ IF handles THEN StatusUpdated(c, fresh) ELSE UNCHANGED <<cluster, feed>>
      /\ nt' = IF handles /\ next # "idle"
               THEN [NTIdle EXCEPT !.pc = next, !.c = c, !.obj = fresh] ELSE NTIdle
      /\ UNCHANGED <<awsCluster, cached, cachedAWS, awsFeed, faults, networkVars>>

NTAddFinalizer ==
  LET c == nt.c
      patched == FinalizerAdded(cluster[c], nt.obj, "nettop")
  IN  /\ NTAt("AddFinalizer")
      /\ IF Accepts(cluster[c], patched)
         THEN /\ StoreCluster(c, patched)
              /\ nt' = [nt EXCEPT !.pc = "AddAWSFinalizer", !.obj = Refreshed(@, patched)]
              /\ UNCHANGED queue
         ELSE NTRetry /\ UNCHANGED <<cluster, feed>>
      /\ UNCHANGED <<awsCluster, cached, cachedAWS, awsFeed, faults, networkVars>>

\* The AWSCluster patch starts from the cached AWSCluster.
NTAddAWSFinalizer ==
  LET c == nt.c
      patched == FinalizerAdded(awsCluster[c], cachedAWS[c], "nettop")
  IN  /\ NTAt("AddAWSFinalizer") /\ ReadableAWS(c)
      /\ IF Exists(cachedAWS[c]) /\ Accepts(awsCluster[c], patched)
         THEN StoreAWS(c, patched) /\ NTGoto("Register") /\ UNCHANGED queue
         ELSE NTRetry /\ UNCHANGED <<awsCluster, awsFeed>>
      /\ UNCHANGED <<cluster, cached, cachedAWS, feed, faults, networkVars>>

-----------------------------------------------------------------------------
(* Register                                                                *)

\* An unset mode is saved as None; neither is supported.
NTModeNotSupported ==
  LET c == nt.c
      patched == [cluster[c] EXCEPT !.mode = "None"]
  IN  /\ NTAt("Register") /\ nt.obj.mode \in {"unset", "None"}
      /\ IF nt.obj.mode = "None"
         THEN NTRegistered("ModeNotSupported", FALSE) /\ UNCHANGED <<cluster, feed>>
         ELSE IF Exists(cluster[c])
         THEN /\ StoreCluster(c, patched)
              /\ nt' = [nt EXCEPT !.pc = "UpdateStatus", !.again = FALSE,
                                  !.obj = [patched EXCEPT !.ready = "ModeNotSupported"]]
         ELSE NTRegisterFails /\ UNCHANGED <<cluster, feed>>
      /\ UNCHANGED <<storeButCluster, networkVars>>

NTInvalidMode ==
  /\ NTAt("Register") /\ nt.obj.mode = "invalid"
  /\ NTRegisterFails /\ UNCHANGED <<storeVars, networkVars>>

\* UserManaged needs the prefix list annotation, and a gateway on the MC.
IDMissing == /\ nt.obj.mode = "UserManaged"
             /\ ~nt.obj.pl \/ (nt.c = MC /\ nt.obj.tgw = NoGateway)

NTIDMissing ==
  /\ NTAt("Register") /\ IDMissing
  /\ NTRegistered("RequiredIDMissing", FALSE) /\ UNCHANGED <<storeVars, networkVars>>

Managed == nt.obj.mode \in {"UserManaged", "GiantSwarmManaged"} /\ ~IDMissing

\* A workload cluster without a gateway of its own uses the MC's annotation.
UsesMC == nt.c # MC /\ nt.obj.tgw = NoGateway
WantedGateway == IF UsesMC THEN cached[MC].tgw ELSE nt.obj.tgw

\* Mutant: the cluster's own annotation is kept, not the gateway that was found.
NTFindGatewayLost(t) ==
  /\ NTAt("Register") /\ Managed /\ t = WantedGateway
  /\ nt' = [nt EXCEPT !.pc = "SaveGateway", !.mode = nt.obj.mode, !.gw = nt.obj.tgw,
                      !.up = (gateway[t] = "available")]
  /\ UNCHANGED <<storeVars, networkVars>>

NTFindGateway(t) ==
  /\ NTAt("Register") /\ Managed
  /\ UsesMC => Readable(MC) /\ Exists(cached[MC])
  /\ t = WantedGateway /\ gateway[t] # "absent"
  /\ nt' = [nt EXCEPT !.pc = "SaveGateway", !.mode = nt.obj.mode, !.gw = t,
                      !.up = (gateway[t] = "available")]
  /\ UNCHANGED <<storeVars, networkVars>>

\* The MC is not there, has no gateway yet, or AWS does not know the gateway.
NTNoGateway ==
  /\ NTAt("Register") /\ Managed
  /\ UsesMC => Readable(MC)
  /\ \/ UsesMC /\ (~Exists(cached[MC]) \/ cached[MC].tgw = NoGateway)
     \/ WantedGateway \in Gateways /\ gateway[WantedGateway] \in {"absent", "deleted"}
  /\ NTRegisterFails /\ UNCHANGED <<storeVars, networkVars>>

NTCreateGateway(t) ==
  /\ NTAt("Register") /\ nt.obj.mode = "GiantSwarmManaged"
  /\ nt.c = MC /\ nt.obj.tgw = NoGateway
  /\ CreateGateway(t)
  /\ nt' = [nt EXCEPT !.pc = "SaveGateway", !.mode = nt.obj.mode, !.gw = t, !.up = FALSE]
  /\ UNCHANGED storeVars

NTSaveGateway ==
  LET c == nt.c
      patched == [cluster[c] EXCEPT !.tgw = nt.gw]
  IN  /\ NTAt("SaveGateway")
      /\ IF Exists(cluster[c])
         THEN /\ StoreCluster(c, patched)
              /\ nt' = [nt EXCEPT !.pc = "Attach", !.obj = Refreshed(@, patched)]
         ELSE NTRegisterFails /\ UNCHANGED <<cluster, feed>>
      /\ UNCHANGED <<storeButCluster, networkVars>>

\* The AWSCluster copy is read here; what follows uses it.
NTNotReady ==
  LET aws == cachedAWS[nt.c]
  IN  /\ NTAt("Attach") /\ ReadableAWS(nt.c)
      /\ \/ ~Exists(aws) /\ NTRegisterFails
         \/ Exists(aws) /\ ~aws.vpc /\ NTRegistered("VPCNotReady", TRUE)
         \/ /\ Exists(aws) /\ aws.vpc /\ ~nt.up
            /\ NTRegistered("TransitGatewayNotAvailable", TRUE)
         \/ Exists(aws) /\ aws.vpc /\ nt.up /\ ~CanAttach(nt.gw, nt.c) /\ NTRegisterFails
      /\ UNCHANGED <<storeVars, networkVars>>

\* Mutant: only the reconcile that creates the attachment asks.
AsksOnce(t, c) == attachment[t][c] = "none" /\ attachment'[t][c] = "pendingAcceptance"

\* Whether the attachment that was found or created has yet to be accepted.
Asks(t, c) == attachment'[t][c] = "pendingAcceptance"

NTAttach ==
  LET aws == cachedAWS[nt.c]
  IN  /\ NTAt("Attach") /\ ReadableAWS(nt.c)
      /\ Exists(aws) /\ aws.vpc /\ nt.up /\ CanAttach(nt.gw, nt.c)
      /\ Exists(awsCluster[nt.c])
      /\ Attach(nt.gw, nt.c)
      /\ IF nt.mode = "GiantSwarmManaged"
         THEN nt' = [nt EXCEPT !.pc = "AddToPrefixList", !.vpc = TRUE]
         ELSE IF Asks(nt.gw, nt.c) THEN nt' = [nt EXCEPT !.pc = "Publish", !.vpc = TRUE]
         ELSE NTRegistered("True", TRUE)
      /\ UNCHANGED storeVars

\* The VPC is gone although the cached AWSCluster still names it.
NTNoVPC ==
  /\ NTAt("Attach") /\ ReadableAWS(nt.c) /\ ~Exists(awsCluster[nt.c])
  /\ NTRegisterFails /\ UNCHANGED <<storeVars, networkVars>>

NTPublish ==
  /\ NTAt("Publish")
  /\ PublishSNSMessage(nt.gw, nt.c)
  /\ NTRegistered("True", TRUE) /\ UNCHANGED storeVars

\* getOrCreatePrefixList reads the MC; a CIDR block another cluster holds is refused.
NTAddToPrefixList ==
  /\ NTAt("AddToPrefixList") /\ Readable(MC)
  /\ IF Exists(cached[MC]) /\ ~EntryConflicts(nt.c)
     THEN AddEntry(nt.c) /\ NTGoto("SavePrefixList")
     ELSE NTRegisterFails /\ UNCHANGED networkVars
  /\ UNCHANGED storeVars

NTSavePrefixList ==
  LET c == nt.c
      patched == [cluster[c] EXCEPT !.pl = TRUE]
  IN  /\ NTAt("SavePrefixList")
      /\ IF Exists(cluster[c])
         THEN /\ StoreCluster(c, patched)
              /\ nt' = [nt EXCEPT !.pc = "UpdateStatus", !.again = TRUE,
                                  !.obj = [patched EXCEPT !.ready = "True"]]
         ELSE NTRegisterFails /\ UNCHANGED <<cluster, feed>>
      /\ UNCHANGED <<storeButCluster, networkVars>>

NTUpdateStatus ==
  /\ NTAt("UpdateStatus")
  /\ StatusUpdated(nt.c, nt.obj)
  /\ IF nt.again THEN NTRetry ELSE NTDone
  /\ UNCHANGED <<awsCluster, cached, cachedAWS, awsFeed, faults, networkVars>>

-----------------------------------------------------------------------------
(* Unregister                                                              *)

NTUnregister ==
  LET aws == cachedAWS[nt.c]
      managed == nt.obj.mode \in {"UserManaged", "GiantSwarmManaged"}
      next == IF ~managed \/ ~Exists(aws) THEN "RemoveAWSFinalizer"
              ELSE IF nt.obj.mode = "UserManaged" THEN "Detach" ELSE "RemoveFromPrefixList"
  IN  /\ NTAt("Unregister") /\ (managed => ReadableAWS(nt.c))
      /\ IF nt.obj.mode = "invalid" THEN NTRetry
         ELSE /\ nt' = [nt EXCEPT !.pc = next, !.mode = nt.obj.mode, !.vpc = aws.vpc]
              /\ UNCHANGED queue
      /\ UNCHANGED <<storeButQueue, networkVars>>

\* Needs the MC for the prefix list, also when there is nothing to remove.
NTRemoveFromPrefixList ==
  /\ NTAt("RemoveFromPrefixList") /\ Readable(MC)
  /\ IF Exists(cached[MC])
     THEN RemoveEntry(nt.c, nt.vpc) /\ NTGoto("Detach") /\ UNCHANGED queue
     ELSE NTRetry /\ UNCHANGED networkVars
  /\ UNCHANGED storeButQueue

\* Mutant: the gateway is never deleted.
NTDetachOnly ==
  /\ NTAt("Detach") /\ Detach(nt.obj.tgw, nt.c, nt.vpc)
  /\ NTGoto("RemoveAWSFinalizer") /\ UNCHANGED storeVars

\* The gateway is the one named by the reconciler's copy of the Cluster.
NTDetach ==
  /\ NTAt("Detach")
  /\ Detach(nt.obj.tgw, nt.c, nt.vpc)
  /\ NTGoto(IF nt.mode = "GiantSwarmManaged" /\ nt.c = MC THEN "DeleteGateway"
                                                          ELSE "RemoveAWSFinalizer")
  /\ UNCHANGED storeVars

NTDeleteGateway ==
  /\ NTAt("DeleteGateway")
  /\ IF CanDeleteGateway(nt.obj.tgw)
     THEN DeleteGateway(nt.obj.tgw) /\ NTGoto("RemoveAWSFinalizer") /\ UNCHANGED queue
     ELSE NTRetry /\ UNCHANGED networkVars
  /\ UNCHANGED storeButQueue

\* An AWSCluster the cache does not have is passed over, and so is one that could
\* not be read: see NTAWSReadFails.
NTRemoveAWSFinalizer ==
  LET c == nt.c
      patched == FinalizerRemoved(awsCluster[c], cachedAWS[c], "nettop")
  IN  /\ NTAt("RemoveAWSFinalizer") /\ ReadableAWS(c)
      /\ IF ~Exists(cachedAWS[c])
         THEN NTGoto("RemoveFinalizer") /\ UNCHANGED <<awsCluster, awsFeed, queue>>
         ELSE IF Accepts(awsCluster[c], patched)
         THEN StoreAWS(c, patched) /\ NTGoto("RemoveFinalizer") /\ UNCHANGED queue
         ELSE NTRetry /\ UNCHANGED <<awsCluster, awsFeed>>
      /\ UNCHANGED <<cluster, cached, cachedAWS, feed, faults, networkVars>>

\* RemoveFinalizer ignores any error of GetAWSCluster: the AWSCluster keeps its
\* finalizer, and the Cluster loses its own all the same.
NTAWSReadFails ==
  /\ NTAt("RemoveAWSFinalizer") /\ faults < MaxFaults /\ faults' = faults + 1
  /\ NTGoto("RemoveFinalizer")
  /\ UNCHANGED <<cluster, awsCluster, cached, cachedAWS, feed, awsFeed, queue, networkVars>>

NTRemoveFinalizer ==
  LET c == nt.c
      patched == FinalizerRemoved(cluster[c], nt.obj, "nettop")
  IN  /\ NTAt("RemoveFinalizer")
      /\ IF Accepts(cluster[c], patched)
         THEN StoreCluster(c, patched) /\ NTDone
         ELSE NTRetry /\ UNCHANGED <<cluster, feed>>
      /\ UNCHANGED <<awsCluster, cached, cachedAWS, awsFeed, faults, networkVars>>

-----------------------------------------------------------------------------
\* Any call may fail. Register's errors still pass the deferred UpdateStatus;
\* that call's own failure only loses the condition. At RemoveAWSFinalizer the
\* patch fails; a failed read there is NTAWSReadFails.
NTFault ==
  /\ ~NTAt("idle") /\ faults < MaxFaults /\ faults' = faults + 1
  /\ IF NTAt("UpdateStatus")
     THEN IF nt.again THEN NTRetry ELSE NTDone
     ELSE IF nt.pc \in RegisterStages THEN NTRegisterFails /\ UNCHANGED queue ELSE NTRetry
  /\ UNCHANGED <<cluster, awsCluster, cached, cachedAWS, feed, awsFeed, networkVars>>

\* One step of the worker after it has taken a request.
NTStep ==
  \/ NTAddFinalizer \/ NTAddAWSFinalizer
  \/ NTModeNotSupported \/ NTInvalidMode \/ NTIDMissing \/ NTNoGateway
  \/ \E t \in Gateways : NTFindGateway(t) \/ NTCreateGateway(t)
  \/ NTSaveGateway \/ NTNotReady \/ NTAttach \/ NTNoVPC \/ NTPublish
  \/ NTAddToPrefixList \/ NTSavePrefixList \/ NTUpdateStatus
  \/ NTUnregister \/ NTRemoveFromPrefixList \/ NTDetach \/ NTDeleteGateway
  \/ NTRemoveAWSFinalizer \/ NTRemoveFinalizer
=============================================================================
