------------------------------- MODULE GatewayInv -------------------------------
(***************************************************************************)
(* More of the inductive invariant of Operator: which gateway a Cluster    *)
(* names, which gateways nobody names, when the management cluster's own   *)
(* is gone, and what a condition that says True is worth. It holds however *)
(* far the caches lag.                                                     *)
(***************************************************************************)
EXTENDS OperatorInv

\* The versions of an object that somebody has read or may still read.
Versions(now, later) == {Version(now, later, i) : i \in 0..Len(later)}
Seen(c) == Versions(cached[c], feed[c])
SeenAWS(c) == Versions(cachedAWS[c], awsFeed[c])

\* A gateway annotation is written once, by the worker that registers the Cluster;
\* that worker's copy is up to date in it once the first finalizer is on.
ConnectStages == {"Attach", "Publish", "AddToPrefixList", "SavePrefixList"}
NamingInv ==
  /\ \A c \in Clusters : \A x \in Seen(c) : x.tgw \in {NoGateway, cluster[c].tgw}
  /\ nt.pc # "idle" => nt.obj.tgw \in {NoGateway, cluster[nt.c].tgw}
  /\ sh.pc # "idle" => sh.obj.tgw \in {NoGateway, cluster[sh.c].tgw}
  /\ nt.pc \in {"AddAWSFinalizer"} \cup RegisterStages => nt.obj.tgw = cluster[nt.c].tgw
  /\ nt.pc = "SaveGateway" => cluster[nt.c].tgw \in {NoGateway, nt.gw}
  /\ nt.pc \in ConnectStages => cluster[nt.c].tgw = nt.gw

\* What is not there has no finalizers.
BareInv ==
  \A c \in Clusters : /\ cluster[c].phase = "gone" => cluster[c].fins = {}
                      /\ \A x \in SeenAWS(c) : ~Exists(x) => x.fins = {}

\* A gateway is unnamed by a failure each, but for the one about to be named.
Unnamed == {t \in Gateways \ UserGateways : /\ gateway[t] \in {"pending", "available"}
                                            /\ cluster[MC].tgw # t}
Naming == nt.pc = "SaveGateway" /\ nt.c = MC
StrayInv ==
  /\ IsFiniteSet(Unnamed)
  /\ Cardinality(IF Naming THEN Unnamed \ {nt.gw} ELSE Unnamed) <= faults

\* The management cluster names a gateway of its own account, so nothing of it is
\* shared with itself and the share reconciler never touches its finalizers.
SHAddStages == {"AddFinalizer", "AddAWSFinalizer", "ApplyGatewayShare"}
MCOwnInv ==
  /\ cluster[MC].tgw # NoGateway => GatewayAccount[cluster[MC].tgw] = Account[MC]
  /\ Naming => GatewayAccount[nt.gw] = Account[MC]
  /\ sh.c = MC => sh.pc \notin SHAddStages
  /\ \A x \in SeenAWS(MC) : "share" \notin x.fins

\* Its AWSCluster is protected from before a gateway is named until that gateway is
\* deleted, so a reconcile that finds no AWSCluster has no gateway to delete.
Manages == cluster[MC].mode = GSM \/ cluster[MC].phase = "live"  \* or may yet be told to
Released == cluster[MC].tgw # NoGateway /\ gateway[cluster[MC].tgw] = "deleted"
ReleaseInv ==
  Manages =>
    /\ cluster[MC].tgw # NoGateway /\ ~Protected(cluster[MC]) => Released
    /\ cluster[MC].tgw # NoGateway \/ (nt.c = MC /\ nt.pc \in RegisterStages)
         => Protected(awsCluster[MC]) \/ Released
    /\ \A x \in SeenAWS(MC) : Protected(x) =>
         cachedAWS[MC].phase # "none" /\ (Protected(awsCluster[MC]) \/ Released)
    /\ nt.c = MC /\ nt.pc \in {"RemoveAWSFinalizer", "RemoveFinalizer"} =>
         \/ Released
         \/ cluster[MC].tgw = NoGateway /\ \A x \in SeenAWS(MC) : ~Protected(x)

NTModeInv ==
  /\ nt.pc \in {"RemoveFromPrefixList", "Detach", "DeleteGateway"} => nt.mode = nt.obj.mode
  /\ nt.pc \in ConnectStages \cup {"SaveGateway"} => nt.mode = nt.obj.mode /\ nt.mode \in Supported
  /\ nt.pc \in {"AddToPrefixList", "SavePrefixList"} => nt.mode = GSM
  /\ nt.pc = "Publish" => nt.mode # GSM

\* What a live managed cluster's condition says in any copy of it is still so.
Connected(c) == cluster[c].tgw \in Gateways /\ Attached(cluster[c].tgw, c) /\ HasEntry(c)
SaysReady(c) ==
  \/ \E x \in Seen(c) : x.ready = "True"
  \/ nt.c = c /\ nt.pc # "idle" /\ nt.obj.ready = "True"
ReadyInv ==
  /\ \A c \in Clusters : SaysReady(c) => cluster[c].mode \in Supported
  /\ \A c \in Clusters :
       cluster[c].phase = "live" /\ cluster[c].mode = GSM /\ SaysReady(c) => Connected(c)
  /\ nt.pc \in {"AddToPrefixList", "SavePrefixList"} =>
       nt.gw \in Gateways /\ Attached(nt.gw, nt.c)
  /\ nt.pc = "SavePrefixList" => HasEntry(nt.c)

\* The management cluster is set up and stays, or its gateway is the operator's, or
\* it is not GiantSwarmManaged.
MCInv ==
  IF MC \notin Churn THEN cluster[MC].phase = "live"
  ELSE IF UserGateways = {NoGateway} THEN MCOwnInv /\ ReleaseInv
  ELSE cluster[MC].mode # GSM

GatewaysInv == NamingInv /\ BareInv /\ StrayInv /\ NTModeInv /\ ReadyInv /\ MCInv

\* A VPC is attached only to the gateway its cluster names. A live UserManaged
\* cluster that says in any copy to be ready is attached, and whoever has to accept
\* it has been asked. This is a part of its own: it is about other clusters.
Asked(c) == \A t \in Gateways : attachment[t][c] = "pendingAcceptance" => <<t, c>> \in notified
AskedInv ==
  /\ \A t \in Gateways, c \in Clusters : Attached(t, c) => cluster[c].tgw = t
  /\ \A c \in Clusters :
       cluster[c].phase = "live" /\ cluster[c].mode = "UserManaged" /\ SaysReady(c) =>
         Asked(c) /\ \E t \in Gateways : Attached(t, c)
  /\ nt.pc = "Publish" => nt.gw \in Gateways /\ Attached(nt.gw, nt.c)
=============================================================================
