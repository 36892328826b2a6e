------------------------------- MODULE PromiseInv -------------------------------
(***************************************************************************)
(* The last part of the inductive invariant of Operator: what keeps a      *)
(* cluster guarded, and the gateway shared, as long as its VPC is attached.*)
(* It takes workers that read what is there (CaughtUp): a worker that      *)
(* handles a deletion by a copy without the gateway annotation leaves the  *)
(* attachment behind (stale_copy_leaks_attachment.cfg).                    *)
(***************************************************************************)
EXTENDS GatewayInv

\* A cache is read only when the watch has delivered everything.
CaughtUp == MaxLag = 0
\* A management cluster that is set up has a gateway of its own account, and users
\* leave all annotations of resources to the operator.
ListsLeftToOperator ==
  /\ UserGateways = {NoGateway} /\ UserLists = {FALSE}
  /\ GatewayAccount[Gateway0] = Account[MC]

Shares(x) == "share" \in x.fins
OnNet(c) == \E t \in Gateways : Attached(t, c)

\* A VPC is attached only to the gateway its cluster names, and AWS does not let it
\* go while it is: every version of its AWSCluster has it.
NamedInv ==
  /\ \A t \in Gateways, c \in Clusters : Attached(t, c) =>
       /\ cluster[c].tgw = t /\ cluster[c].mode \in Supported
       /\ \A x \in SeenAWS(c) : Exists(x) /\ x.vpc
  /\ nt.pc \in {"RemoveFromPrefixList", "Detach"} /\ OnNet(nt.c) => nt.vpc

\* The network topology reconciler's copy names the gateway of its Cluster, so that
\* what it takes off the network is all there is.
CopyInv ==
  /\ nt.pc # "idle" => nt.obj.tgw = cluster[nt.c].tgw
  /\ nt.pc \in ReleaseStages => ~OnNet(nt.c)
  /\ \A c \in Clusters : OnNet(c) => Protected(cluster[c])

\* No patch of a whole list of finalizers, made from a copy, drops the finalizer of
\* the other reconciler.
FinsInv ==
  /\ \A c \in Clusters : cluster[c].phase = "live" /\ Shares(cluster[c]) => Protected(cluster[c])
  /\ nt.pc = "AddFinalizer" /\ ~Protected(nt.obj) => cluster[nt.c].fins = {}
  /\ nt.pc \in UnregisterStages => cluster[nt.c].fins \subseteq nt.obj.fins
  /\ sh.pc \in {"ShareTransitGateway", "AddFinalizer"} =>
       /\ Protected(sh.obj) => Protected(cluster[sh.c]) \/ Past(cluster[sh.c])
       /\ Shares(sh.obj) => Shares(cluster[sh.c])

GuardInv == NamedInv /\ CopyInv /\ FinsInv

\* Whatever the annotations name is in the account of the management cluster, and
\* a prefix list is named only after a gateway; so who gets a share gets a
\* finalizer first, and keeps it until the last share is gone.
AccountsInv ==
  /\ \A c \in Clusters : /\ cluster[c].tgw # NoGateway => GatewayAccount[cluster[c].tgw] = Account[MC]
                         /\ cluster[c].pl => cluster[c].tgw # NoGateway
  /\ nt.pc = "SaveGateway" => GatewayAccount[nt.gw] = Account[MC]
  /\ sh.pc = "ShareTransitGateway" =>
       /\ sh.obj.tgw # NoGateway => GatewayAccount[sh.obj.tgw] = Account[MC]
       /\ sh.obj.pl => sh.obj.tgw # NoGateway
WithdrawInv ==
  /\ \A c \in Clusters : shares[c] # {} => Shares(cluster[c])
  /\ sh.pc \in {"AddAWSFinalizer", "ApplyGatewayShare"} => Shares(cluster[sh.c])
  /\ sh.pc = "SharePrefixList" /\ sh.obj.pl /\ Account[sh.c] # Account[MC] => Shares(cluster[sh.c])
  /\ sh.pc = "DeletePrefixListShare" => "transit-gateway" \notin shares[sh.c]
  /\ sh.pc \in {"RemoveAWSFinalizer", "RemoveFinalizer"} => shares[sh.c] = {}
  /\ \A t \in Gateways, c \in Clusters :
       Attached(t, c) /\ GatewayAccount[t] # Account[c] => "transit-gateway" \in shares[c]

LastInv == GuardInv /\ AccountsInv /\ WithdrawInv
=============================================================================
