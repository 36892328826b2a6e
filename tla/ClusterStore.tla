----------------------------- MODULE ClusterStore -----------------------------
(***************************************************************************)
(* The Kubernetes objects the operator works on, as pkg/k8sclient sees     *)
(* them: CAPI Clusters and their AWSClusters at the API server, the        *)
(* informer caches every Get is served from (with the versions the watch   *)
(* has not delivered yet), the work queues of the two controllers, and the *)
(* owners of the objects (user, CAPI, CAPA), which are external.           *)
(***************************************************************************)
EXTENDS Naturals, Sequences, FiniteSets

CONSTANTS
  Clusters,      \* the CAPI clusters, each with an AWSCluster of its own
  MC,            \* the management cluster
  Churn,         \* the clusters whose life the model follows from creation
  Provisioned,   \* those of Churn whose AWSCluster and VPC are there from the start
  Gateways,      \* transit gateways that exist or may be created
  NoGateway,     \* the empty transit gateway annotation
  Gateway0,      \* the gateway of a management cluster that is already set up
  UserModes,     \* modes a user may give a new cluster
  UserGateways,  \* transit gateway annotations a user may give a new cluster
  UserLists,     \* may a new cluster carry a prefix list annotation
  ModeChanges,   \* pairs <<old mode, new mode>> a user may apply later
  Pausable,      \* clusters a user may pause and resume
  MaxLag,        \* versions of an object a cached read may be behind
  MaxFaults,     \* bound on failed calls and restarts
  Restarts       \* may the process restart

Finalizers == {"nettop", "share"}
Modes == {"unset", "None", "UserManaged", "GiantSwarmManaged", "invalid"}
Conditions == {"none", "InProgress", "ModeNotSupported", "VPCNotReady",
               "TransitGatewayNotAvailable", "RequiredIDMissing", "True"}
Phases == {"none", "live", "deleting", "gone"}

ASSUME StoreAssumption ==
  /\ MC \in Clusters /\ Churn \subseteq Clusters /\ Provisioned \subseteq Churn
  /\ Clusters \ Churn \subseteq {MC}
  /\ NoGateway \notin Gateways /\ Gateway0 \in Gateways
  /\ UserModes \subseteq Modes /\ ModeChanges \subseteq Modes \X Modes
  /\ UserGateways \subseteq Gateways \cup {NoGateway}
  /\ UserLists \subseteq BOOLEAN /\ Pausable \subseteq Clusters
  /\ MaxLag \in Nat /\ MaxFaults \in Nat /\ Restarts \in BOOLEAN

VARIABLES
  cluster,     \* the Clusters at the API server
  awsCluster,  \* the AWSClusters at the API server
  cached,      \* the Clusters in the informer cache
  cachedAWS,   \* the AWSClusters in the informer cache
  feed,        \* versions of each Cluster the watch has still to deliver
  awsFeed,     \* versions of each AWSCluster the watch has still to deliver
  queue,       \* requests waiting for each controller
  faults       \* failed calls and restarts so far

storeVars == <<cluster, awsCluster, cached, cachedAWS, feed, awsFeed, queue, faults>>

\* A Cluster: its finalizers, the annotations the operator reads and writes,
\* its NetworkTopologyReady condition and the paused flag.
ClusterRec == [phase: Phases, fins: SUBSET Finalizers, mode: Modes,
               tgw: Gateways \cup {NoGateway}, pl: BOOLEAN,
               ready: Conditions, paused: BOOLEAN]
AWSRec == [phase: Phases, fins: SUBSET Finalizers, vpc: BOOLEAN]

StoreTypeOK ==
  /\ cluster \in [Clusters -> ClusterRec] /\ awsCluster \in [Clusters -> AWSRec]
  /\ cached \in [Clusters -> ClusterRec] /\ cachedAWS \in [Clusters -> AWSRec]
  /\ feed \in [Clusters -> Seq(ClusterRec)] /\ awsFeed \in [Clusters -> Seq(AWSRec)]
  /\ queue \in [Finalizers -> SUBSET Clusters]
  /\ faults \in 0..MaxFaults

NewCluster(m, t, p) == [phase |-> "live", fins |-> {}, mode |-> m, tgw |-> t,
                        pl |-> p, ready |-> "none", paused |-> FALSE]
NoCluster == [NewCluster("unset", NoGateway, FALSE) EXCEPT !.phase = "none"]
SettledCluster == [phase |-> "live", fins |-> {"nettop"}, mode |-> "GiantSwarmManaged",
                   tgw |-> Gateway0, pl |-> TRUE, ready |-> "True", paused |-> FALSE]
NoAWSCluster == [phase |-> "none", fins |-> {}, vpc |-> FALSE]
SettledAWSCluster == [phase |-> "live", fins |-> {"nettop"}, vpc |-> TRUE]

Exists(object) == object.phase \in {"live", "deleting"}

\* Clusters outside Churn are set up and quiet; those of Churn have just been
\* created by their user and no cache has seen them yet.
StoreInit ==
  /\ \E m \in [Churn -> UserModes], t \in [Churn -> UserGateways], p \in [Churn -> UserLists] :
       cluster = [c \in Clusters |-> IF c \in Churn THEN NewCluster(m[c], t[c], p[c])
                                                    ELSE SettledCluster]
  /\ awsCluster = [c \in Clusters |->
                     IF c \in Provisioned THEN [SettledAWSCluster EXCEPT !.fins = {}]
                     ELSE IF c \in Churn THEN NoAWSCluster ELSE SettledAWSCluster]
  /\ cached = [c \in Clusters |-> IF c \in Churn THEN NoCluster ELSE SettledCluster]
  /\ cachedAWS = awsCluster
  /\ feed = [c \in Clusters |-> IF c \in Churn THEN <<cluster[c]>> ELSE <<>>]
  /\ awsFeed = [c \in Clusters |-> <<>>]
  /\ queue = [r \in Finalizers |-> {}]
  /\ faults = 0

-----------------------------------------------------------------------------
(* Writes. A change of an object is one more version for the watch.        *)

StoreCluster(c, r) ==
  /\ cluster' = [cluster EXCEPT ![c] = r]
  /\ feed' = IF r = cluster[c] THEN feed ELSE [feed EXCEPT ![c] = Append(@, r)]

StoreAWS(c, r) ==
  /\ awsCluster' = [awsCluster EXCEPT ![c] = r]
  /\ awsFeed' = IF r = awsCluster[c] THEN awsFeed ELSE [awsFeed EXCEPT ![c] = Append(@, r)]

\* A merge patch computed by MergeFrom names the finalizer list only when the
\* caller's copy changed it, and then carries the whole list.
PatchedFins(object, base, new) == IF new = base THEN object ELSE [object EXCEPT !.fins = new]

\* The API server refuses a patch of an absent object, and a new finalizer on
\* an object that is being deleted.
Accepts(object, patched) ==
  /\ Exists(object)
  /\ object.phase = "deleting" => patched.fins \subseteq object.fins

\* Mutants: only the new finalizer is kept; no finalizer is kept.
FinalizerReplaced(object, x, f) == [object EXCEPT !.fins = {f}]
FinalizersCleared(object, x, f) == [object EXCEPT !.fins = {}]

\* AddFinalizer / RemoveFinalizer on the caller's copy x: what the object becomes.
FinalizerAdded(object, x, f) == PatchedFins(object, x.fins, x.fins \cup {f})
FinalizerRemoved(object, x, f) == PatchedFins(object, x.fins, x.fins \ {f})

\* Mutant: the caller goes on with the copy it had.
NotRefreshed(x, object) == x

\* The API response overwrites the caller's copy; a condition the server does
\* not have survives in the copy, where nothing in the response replaces it.
Refreshed(x, object) ==
  [object EXCEPT !.ready = IF object.ready = "none" THEN x.ready ELSE object.ready]

\* Status().Update is refused unless the copy is of the current version.
IsCurrent(c, x) == [x EXCEPT !.ready = cluster[c].ready] = cluster[c]
StatusUpdated(c, x) ==
  StoreCluster(c, IF Exists(cluster[c]) /\ IsCurrent(c, x)
                  THEN [cluster[c] EXCEPT !.ready = x.ready] ELSE cluster[c])

-----------------------------------------------------------------------------
(* Reads go to the caches.                                                 *)

Readable(c) == Len(feed[c]) <= MaxLag
ReadableAWS(c) == Len(awsFeed[c]) <= MaxLag

Enqueue(r, c) == queue' = [queue EXCEPT ![r] = @ \cup {c}]

\* The watch delivers the next version of a Cluster, and both controllers,
\* which watch Clusters, get a request for it.
DeliverCluster(c) ==
  /\ feed[c] # <<>>
  /\ cached' = [cached EXCEPT ![c] = Head(feed[c])]
  /\ feed' = [feed EXCEPT ![c] = Tail(@)]
  /\ queue' = [r \in Finalizers |-> queue[r] \cup {c}]
  /\ UNCHANGED <<cluster, awsCluster, cachedAWS, awsFeed, faults>>

\* Neither controller watches AWSClusters: the cache moves on, nobody is woken.
DeliverAWS(c) ==
  /\ awsFeed[c] # <<>>
  /\ cachedAWS' = [cachedAWS EXCEPT ![c] = Head(awsFeed[c])]
  /\ awsFeed' = [awsFeed EXCEPT ![c] = Tail(@)]
  /\ UNCHANGED <<cluster, awsCluster, cached, feed, queue, faults>>

\* A new process lists every object and queues every Cluster it finds.
Relist ==
  /\ Restarts /\ faults < MaxFaults /\ faults' = faults + 1
  /\ cached' = cluster /\ cachedAWS' = awsCluster
  /\ feed' = [c \in Clusters |-> <<>>] /\ awsFeed' = [c \in Clusters |-> <<>>]
  /\ queue' = [r \in Finalizers |-> {c \in Clusters : Exists(cluster[c])}]
  /\ UNCHANGED <<cluster, awsCluster>>

-----------------------------------------------------------------------------
(* The owners of the objects.                                              *)

DeleteCluster(c) ==
  /\ c \in Churn /\ cluster[c].phase = "live"
  /\ StoreCluster(c, [cluster[c] EXCEPT !.phase = "deleting"])
  /\ UNCHANGED <<awsCluster, cached, cachedAWS, awsFeed, queue, faults>>

ChangeMode(c) ==
  /\ cluster[c].phase = "live"
  /\ \E m \in Modes :
       /\ <<cluster[c].mode, m>> \in ModeChanges
       /\ StoreCluster(c, [cluster[c] EXCEPT !.mode = m])
  /\ UNCHANGED <<awsCluster, cached, cachedAWS, awsFeed, queue, faults>>

\* Bounded: not while the watch is more than MaxLag versions behind.
TogglePause(c) ==
  /\ c \in Pausable /\ Exists(cluster[c]) /\ Readable(c)
  /\ StoreCluster(c, [cluster[c] EXCEPT !.paused = ~@])
  /\ UNCHANGED <<awsCluster, cached, cachedAWS, awsFeed, queue, faults>>

\* CAPI keeps a Cluster until its AWSCluster and the operator's finalizers are gone.
CollectCluster(c) ==
  /\ cluster[c].phase = "deleting" /\ cluster[c].fins = {} /\ ~Exists(awsCluster[c])
  /\ StoreCluster(c, [cluster[c] EXCEPT !.phase = "gone"])
  /\ UNCHANGED <<awsCluster, cached, cachedAWS, awsFeed, queue, faults>>

CreateAWSCluster(c) ==
  /\ cluster[c].phase = "live" /\ awsCluster[c].phase = "none"
  /\ StoreAWS(c, [NoAWSCluster EXCEPT !.phase = "live"])
  /\ UNCHANGED <<cluster, cached, cachedAWS, feed, queue, faults>>

\* CAPA has created the VPC and recorded it with its CIDR block.
VPCReady(c) ==
  /\ awsCluster[c].phase = "live" /\ ~awsCluster[c].vpc
  /\ StoreAWS(c, [awsCluster[c] EXCEPT !.vpc = TRUE])
  /\ UNCHANGED <<cluster, cached, cachedAWS, feed, queue, faults>>

\* CAPI deletes the infrastructure object of a Cluster that is being deleted.
DeleteAWSCluster(c) ==
  /\ cluster[c].phase = "deleting" /\ awsCluster[c].phase = "live"
  /\ StoreAWS(c, [awsCluster[c] EXCEPT !.phase = "deleting"])
  /\ UNCHANGED <<cluster, cached, cachedAWS, feed, queue, faults>>

\* The AWSCluster goes once the operator's finalizers are off it and CAPA has
\* removed the VPC (see AwsNetwork for when AWS lets it).
CollectAWSCluster(c) ==
  /\ awsCluster[c].phase = "deleting" /\ awsCluster[c].fins = {}
  /\ StoreAWS(c, [awsCluster[c] EXCEPT !.phase = "gone"])
  /\ UNCHANGED <<cluster, cached, cachedAWS, feed, queue, faults>>
=============================================================================
