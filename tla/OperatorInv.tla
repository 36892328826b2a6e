------------------------------ MODULE OperatorInv ------------------------------
(***************************************************************************)
(* The inductive invariant behind EntriesGuarded and RegistersGuarded, in  *)
(* parts. It holds however far the caches lag and whatever fails, as long  *)
(* as users leave the gateway annotations of GiantSwarmManaged clusters to *)
(* the operator and a supported mode as it is.                             *)
(***************************************************************************)
EXTENDS Operator

Supported == {"UserManaged", "GiantSwarmManaged"}

\* A mode may be set late, but is then kept. One that was left out is not, unless a
\* worker sees at once that it was set: it would write "None" over it.
ModesSetOnce ==
  /\ ModeChanges \subseteq {"None", "invalid"} \X Supported
  /\ ModeChanges # {} => "unset" \notin UserModes \/ MaxLag = 0

GSM == "GiantSwarmManaged"

\* Users may name a gateway where no cluster is, or becomes, GiantSwarmManaged: the
\* share reconciler, which starts from that annotation, has nothing to do there.
AnnotationsLeftToOperator ==
  /\ \/ UserGateways = {NoGateway}
     \/ GSM \notin UserModes /\ \A m \in Modes : <<m, GSM>> \notin ModeChanges
  /\ ModesSetOnce

Past(x) == x.phase \in {"deleting", "gone"}
Protected(x) == "nettop" \in x.fins

\* The versions of an object: the cached one (0), then those to be delivered.
Version(now, later, i) == IF i = 0 THEN now ELSE later[i]

\* What a later version y keeps of an earlier version x: a deletion is not taken
\* back, and gets no new finalizer; a VPC stays recorded.
ClusterFollows(x, y) ==
  /\ x.phase # "none" => y.phase # "none"
  /\ Past(x) => Past(y) /\ (Protected(y) => Protected(x))
AWSFollows(x, y) ==
  /\ x.phase # "none" => y.phase # "none"
  /\ x.phase = "gone" => y.phase = "gone"
  /\ x.vpc => y.vpc

\* How the mode of a version x leads to that of a later one: a supported mode stays,
\* and one that is not becomes supported only before the deletion.
ModeLeads(x, server) ==
  \/ server.mode = x.mode
  \/ x.mode = "unset" /\ server.mode = "None"
  \/ /\ x.mode \notin Supported /\ server.mode \in Supported
     /\ ModeChanges # {} /\ ~Past(x)

\* A Cluster whose gateway was not given by its user.
OperatorNamed(x) == x.tgw # NoGateway /\ (UserGateways = {NoGateway} \/ x.mode = GSM)

\* What a version x of a Cluster tells of the server's: its mode; that a live one the
\* operator named a gateway for is protected; that a live one that is protected still is.
Tells(x, server) ==
  /\ x.phase # "none" =>
       ModeLeads(x, server) /\ (x.mode = "unset" => "unset" \in UserModes)
  /\ x.phase = "live" /\ OperatorNamed(x) => Protected(x)
  /\ x.phase = "live" /\ Protected(x) => Protected(server)

\* The versions of a Cluster, or of an AWSCluster, are ordered and end with the
\* server's.
ClusterLine(now, later, server) ==
  /\ Version(now, later, Len(later)) = server /\ server.phase # "none"
  /\ \A i, j \in 0..Len(later) :
       i <= j => ClusterFollows(Version(now, later, i), Version(now, later, j))
  /\ \A i \in 0..Len(later) : Tells(Version(now, later, i), server)
AWSLine(now, later, server) ==
  /\ Version(now, later, Len(later)) = server
  /\ server.phase = "none" => ~server.vpc
  /\ \A i, j \in 0..Len(later) :
       i <= j => AWSFollows(Version(now, later, i), Version(now, later, j))

ClusterHistory == \A c \in Clusters : ClusterLine(cached[c], feed[c], cluster[c])
AWSHistory == \A c \in Clusters : AWSLine(cachedAWS[c], awsFeed[c], awsCluster[c])

\* A cluster that has, or is about to get, its entry is protected, managed,
\* attached, and every version of its AWSCluster has the VPC.
Listing(c) == nt.pc = "AddToPrefixList" /\ nt.c = c
Ready(now, later) ==
  \A i \in 0..Len(later) : Exists(Version(now, later, i)) /\ Version(now, later, i).vpc
EntryInv ==
  \A c \in Clusters : HasEntry(c) \/ Listing(c) =>
    /\ Protected(cluster[c]) /\ cluster[c].mode = GSM
    /\ \E t \in Gateways : Attached(t, c)
    /\ Ready(cachedAWS[c], awsFeed[c])

\* An attachment is on its way out only once the deletion has been read, and the
\* cluster is not being registered any more.
DetachInv ==
  \A t \in Gateways, c \in Clusters : attachment[t][c] = "deleting" =>
    /\ Past(cached[c])
    /\ nt.c = c => nt.pc \notin FinalizerStages \cup RegisterStages

\* What the worker's copy x of a Cluster tells of the server's. A mode that was left
\* out is still left out, or is None for good: saving None takes nothing back.
CopyTells(x, server) ==
  /\ ModeLeads(x, server) /\ (Past(x) => Past(server))
  /\ x.mode = "unset" => \/ server.mode = "unset"
                         \/ server.mode = "None" /\ ModeChanges = {}

NTInv ==
  LET x == cluster[nt.c]
  IN  /\ nt.pc = "AddFinalizer" => (Protected(nt.obj) => Protected(x))
      /\ nt.pc \in RegisterStages \cup {"AddAWSFinalizer"} => Protected(x)
      /\ nt.pc # "idle" => CopyTells(nt.obj, x)
      /\ nt.pc \in {"SaveGateway", "Attach"} => (nt.mode = GSM => x.mode = GSM)
      /\ nt.pc \in UnregisterStages => Past(cached[nt.c]) /\ Past(nt.obj)
      /\ nt.pc = "RemoveFromPrefixList" /\ HasEntry(nt.c) => nt.vpc
      /\ nt.pc \in {"Detach"} \cup ReleaseStages => ~HasEntry(nt.c)

SHReleaseStages == {"DeleteGatewayShare", "DeletePrefixListShare",
                    "RemoveAWSFinalizer", "RemoveFinalizer"}
SHInv ==
  LET x == cluster[sh.c]
  IN  /\ sh.pc = "ShareTransitGateway" /\ sh.obj.tgw # NoGateway => Protected(sh.obj)
      /\ sh.pc = "AddFinalizer" => Protected(sh.obj)
      /\ sh.pc \in SHReleaseStages => Past(x) /\ ~Protected(x)

IInv == /\ TypeOK /\ ClusterHistory /\ AWSHistory
        /\ EntryInv /\ DetachInv /\ NTInv /\ SHInv
=============================================================================
