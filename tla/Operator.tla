------------------------------- MODULE Operator -------------------------------
(***************************************************************************)
(* The operator: both reconcilers in one process (main.go), the API server *)
(* with the owners of its objects, and AWS. What the two reconcilers do    *)
(* interleaves at every call; they meet in the finalizer lists, the        *)
(* annotations and the resource shares.                                    *)
(***************************************************************************)
EXTENDS NetTop, ShareReconciler

vars == <<storeVars, networkVars, nt, sh>>

Init == StoreInit /\ NetworkInit /\ NTInit /\ SHInit

NTTake(c) == NTGet(c) /\ UNCHANGED sh
SHTake(c) == SHGet(c) /\ UNCHANGED nt
NTWork == NTStep /\ UNCHANGED sh
SHWork == SHStep /\ UNCHANGED nt
Fault ==
  \/ (NTFault \/ NTAWSReadFails) /\ UNCHANGED sh
  \/ (SHFault \/ SHAWSReadFails) /\ UNCHANGED nt

\* The process ends anywhere and another takes over with caches of its own.
Restart == Relist /\ nt' = NTIdle /\ sh' = SHIdle /\ UNCHANGED networkVars

Deliver(c) == (DeliverCluster(c) \/ DeliverAWS(c)) /\ UNCHANGED <<networkVars, nt, sh>>

\* AWS does not let CAPA remove a VPC that has an attachment.
RemoveInfrastructure(c) == CollectAWSCluster(c) /\ ~HasAttachment(c)

\* What CAPI and CAPA do in the end, and what users may do.
Provision(c) ==
  /\ \/ CreateAWSCluster(c) \/ VPCReady(c) \/ DeleteAWSCluster(c)
     \/ RemoveInfrastructure(c) \/ CollectCluster(c)
  /\ UNCHANGED <<networkVars, nt, sh>>
User(c) ==
  /\ DeleteCluster(c) \/ ChangeMode(c) \/ TogglePause(c)
  /\ UNCHANGED <<networkVars, nt, sh>>

AWS(t) ==
  /\ \/ GatewayAvailable(t)
     \/ \E c \in Clusters : AttachmentDeleted(t, c) \/ AcceptAttachment(t, c)
  /\ UNCHANGED <<storeVars, nt, sh>>

Next ==
  \/ NTWork \/ SHWork \/ Fault \/ Restart
  \/ \E c \in Clusters : NTTake(c) \/ SHTake(c) \/ Deliver(c) \/ Provision(c) \/ User(c)
  \/ \E t \in Gateways : AWS(t)

Spec == Init /\ [][Next]_vars

\* The process keeps running and its work queues are first in, first out, so a
\* waiting request is taken in the end although others compete for the worker;
\* watches deliver; CAPI, CAPA, AWS and the owners of gateways do their part.
\* Users owe nothing, and faults need not happen.
Fairness ==
  /\ WF_vars(NTWork) /\ WF_vars(SHWork)
  /\ \A c \in Clusters : /\ SF_vars(NTTake(c)) /\ SF_vars(SHTake(c))
                         /\ WF_vars(DeliverCluster(c) /\ UNCHANGED <<networkVars, nt, sh>>)
                         /\ WF_vars(DeliverAWS(c) /\ UNCHANGED <<networkVars, nt, sh>>)
                         /\ WF_vars(Provision(c))
  /\ \A t \in Gateways : WF_vars(AWS(t))

FairSpec == Spec /\ Fairness

-----------------------------------------------------------------------------
(* Properties                                                              *)

\* Every variable holds what its component's module says it may.
TypeOK == StoreTypeOK /\ NetworkTypeOK /\ NTTypeOK /\ SHTypeOK

\* A cluster whose CIDR block is in the prefix list carries the network topology
\* finalizer: it cannot disappear and leave the entry behind (cluster.go
\* AddFinalizer, networktopology.go reconcileNormal and reconcileDelete).
EntriesGuarded == \A c \in Clusters : HasEntry(c) => "nettop" \in cluster[c].fins

\* A cluster with an attachment that is not on its way out carries it too.
AttachmentsGuarded ==
  \A c \in Clusters : (\E t \in Gateways : Attached(t, c)) => "nettop" \in cluster[c].fins

\* A cluster something is shared for carries the resource share finalizer, so the
\* share reconciler still gets to see it and take the shares back (share.go).
SharesGuarded == \A c \in Clusters : shares[c] # {} => "share" \in cluster[c].fins

\* Nothing is still shared for a cluster that is gone.
SharesReclaimed == \A c \in Clusters : cluster[c].phase = "gone" => shares[c] = {}

\* While a VPC is attached to a gateway of another account, the gateway stays
\* shared with that VPC's account: the share reconciler, which runs on its own,
\* never takes the share back early (share.go reconcileDelete).
ShareOutlivesAttachment ==
  \A c \in Clusters, t \in Gateways :
    Attached(t, c) /\ GatewayAccount[t] # Account[c] => "transit-gateway" \in shares[c]

\* A live GiantSwarmManaged cluster that reports NetworkTopologyReady is attached
\* to the gateway its annotation names and its CIDR block is in the prefix list.
ReadyMeansConnected ==
  \A c \in Clusters :
    LET x == cluster[c]
    IN  x.phase = "live" /\ x.ready = "True" /\ x.mode = "GiantSwarmManaged"
          => x.tgw # NoGateway /\ Attached(x.tgw, c) /\ HasEntry(c)

\* A finalizer leaves a Cluster only by the RemoveFinalizer of the reconciler it
\* belongs to: no patch of the other one, which carries the whole list, drops it.
FinalizerLeavesByOwner ==
  [][\A c \in Clusters :
       /\ "nettop" \in cluster[c].fins \ cluster'[c].fins => NTAt("RemoveFinalizer") /\ nt.c = c
       /\ "share" \in cluster[c].fins \ cluster'[c].fins => SHAt("RemoveFinalizer") /\ sh.c = c]_vars

\* AddFinalizer adds the given finalizer to the cluster: while Register works on
\* a Cluster, that Cluster has the network topology finalizer.
RegistersGuarded == nt.pc \in RegisterStages => "nettop" \in cluster[nt.c].fins

\* A prefix list entry is never overwritten by another cluster that has the same
\* CIDR block, and is removed only when its own cluster is unregistered.
EntryKeepsOwner ==
  [][\A d \in Cidrs : prefixList'[d] # prefixList[d] /\ prefixList[d] # Nobody
       => /\ prefixList'[d] = Nobody
          /\ NTAt("RemoveFromPrefixList") /\ nt.c = prefixList[d]]_vars

\* A gateway that exists and is not the one the MC names was left behind by a
\* failure: at most one each, apart from the one just being created or removed.
StrayGateways ==
  {t \in Gateways \ UserGateways : /\ gateway[t] \in {"pending", "available"}
                                   /\ cluster[MC].tgw # t /\ nt.gw # t}
StraysAreFaults == Cardinality(StrayGateways) <= faults

\* When the MC's finalizer has been removed, its gateway is gone as well.
GatewayReleased ==
  cluster[MC].phase = "gone" /\ cluster[MC].mode = "GiantSwarmManaged" /\ cluster[MC].tgw # NoGateway
    => gateway[cluster[MC].tgw] = "deleted"

\* A UserManaged cluster reports ready while its attachment still waits to be
\* accepted only after the SNS message that asks for it has been sent, also when
\* the process failed between creating the attachment and sending the message.
PendingIsNotified ==
  \A c \in Clusters, t \in Gateways :
    cluster[c].phase = "live" /\ cluster[c].mode = "UserManaged" /\ cluster[c].ready = "True"
      /\ attachment[t][c] = "pendingAcceptance" => <<t, c>> \in notified

\* The operator implements the abstract promise.
Guarded == {c \in Clusters : "nettop" \in cluster[c].fins}
OnGateway == {c \in Clusters : \E t \in Gateways : Attached(t, c)}
Listed == {c \in Clusters : HasEntry(c)}
Promise == INSTANCE GuardedNetwork WITH guarded <- Guarded, attached <- OnGateway, listed <- Listed
ImplementsPromise == Promise!Spec

\* A cluster whose deletion was requested goes in the end: neither reconciler
\* waits for ever for the other, and no finalizer is forgotten (reconcileDelete of
\* networktopology.go and share.go). It holds as long as no call fails.
DeletionCompletes ==
  \A c \in Churn : cluster[c].phase = "deleting" ~> cluster[c].phase = "gone"

\* After a failure, the AWSCluster has a finalizer of the operator that the Cluster
\* has lost.
Forgotten(c) == faults > 0 /\ awsCluster[c].fins \ cluster[c].fins # {}

\* When calls fail, a deletion still completes, but for one way of hanging: the
\* AWSCluster could not be read when its finalizer was to be removed, the error was
\* ignored (cluster.go RemoveFinalizer), and without the Cluster's finalizer no
\* later reconcile takes it off.
DeletionCompletesOrForgets ==
  \A c \in Churn :
    cluster[c].phase = "deleting" ~> (cluster[c].phase = "gone" \/ []Forgotten(c))

\* A live GiantSwarmManaged cluster becomes ready, unless it is deleted first.
BecomesReady ==
  \A c \in Churn : cluster[c].phase = "live" /\ cluster[c].mode = "GiantSwarmManaged"
                     ~> cluster[c].phase # "live" \/ cluster[c].ready = "True"
=============================================================================
