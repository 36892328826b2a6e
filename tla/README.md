# A TLA+ model of aws-network-topology-operator

The operator connects the VPCs of CAPI clusters on AWS. For every `Cluster` that
asks for it, it attaches the cluster's VPC to a transit gateway, puts the VPC's
CIDR block into a prefix list that the management cluster (MC) owns, and shares
both with the account of a workload cluster (WC). It undoes all of it before the
`Cluster` may disappear. The modules here model that life from creation to
removal, with two reconcilers that run side by side on cached copies, calls that
fail, restarts, and users, CAPI, CAPA and AWS going about their own business.

## Inventory

| Component (source) | State | Operations | Interacts with | What is hard | What makes it correct |
|---|---|---|---|---|---|
| Kubernetes client (`pkg/k8sclient/cluster.go`) | objects at the API server, informer caches | `Get`, `GetManagementCluster`, `GetAWSCluster`, `Patch`, `AddFinalizer`, `RemoveFinalizer`, `UpdateStatus` | both reconcilers, the registrar | reads are cached, patches carry no version but whole lists | a finalizer leaves only when its owner removes it |
| Network topology reconciler (`controllers/networktopology.go`) | one worker's copy of a Cluster | `Reconcile`, `reconcileNormal`, `reconcileDelete` | client, registrar | early returns, deferred status update, requeue or not | guarded before registered, ready means connected, deletion completes |
| Transit gateway registrar (`pkg/registrar/transitgateway.go`) | annotations, AWS resources | `Register`, `Unregister` in five modes | client, EC2, SNS | half done sequences repeated with other copies | nothing is left behind, nobody else's is touched |
| Share reconciler (`controllers/share.go`) | one worker's copy of a Cluster | `Reconcile`, `reconcileNormal`, `reconcileDelete` | client, RAM, the other reconciler's finalizer and annotations | order against the other reconciler | a share exists as long as it is used, and not for ever |
| Prefix list (`transitgateway.go:575-731`) | versions of a list, found by ID or by name | `getOrCreatePrefixList`, `addToPrefixList`, `removeFromPrefixList` | EC2, other users of the list | what was read may be old when it is acted on; names are not unique; calls given up may still land | entries keep their owners, nobody's entry outlives the cluster, one list |
| Attachments (`transitgateway.go:427-573`) | attachments EC2 lists, also ended ones | `attachTransitGateway`, `detachTransitGateway` | EC2 through the cluster's client | zero, one or more attachments in any state | attached in the end, nothing left attached, no nil attachment of the operator's own making |
| RAM client (`pkg/aws/ram.go`) | resource shares with statuses | `ApplyResourceShare`, `DeleteResourceShare`, `getResourceShare` | RAM | idempotence by a name that is not unique, shares on their way out | one share of the right list while the cluster lives, none after |
| AWS clients (`main.go:127-150`, `ec2Client.go`, `transitGatewayClient.go`, `snsClient.go`) | cached clients by cluster name, the role each has assumed | look-up, expiry, every EC2 call, `PublishSNSMessage` | STS, the AWSCluster's identity | a name used again in another account within five minutes | calls go to the account of the cluster they are for |
| Subnet choice (`transitgateway.go:733-776`) | none | pure | EC2 | tagged subnets or the default, order | the first private subnet of each zone |
| Helpers (`annotations`, `arn.go`, `errors.go`), process set-up | none | conversions, configuration | | | |

Generated fakes, acceptance fixtures, Helm chart and CI carry no logic of the
operator and are not modelled.

## Modules

```
ClusterStore          API server, caches, work queues; CAPI, CAPA and users (external)
  AwsNetwork          gateways, attachments, prefix list, shares, SNS (calls of registrar and RAM client)
    NetTop            network topology reconciler + registrar: one worker
    ShareReconciler   share reconciler: one worker
      Operator        both, with restarts and everybody else; properties
        OperatorInv   inductive invariant: versions, finalizer of the entries
          GatewayInv  ... gateways, annotations and conditions
            PromiseInv   ... attachments and shares, with caches up to date
              OperatorMC     instances for TLC
        OperatorTypes type correctness, proved
          OperatorProofs       OperatorInv is inductive
            GatewayProofs      GatewayInv is inductive on top of it
              PromiseProofs    PromiseInv on top of both, and the refinement
GuardedNetwork        what the operator promises, abstractly

PrefixList            the prefix list's three functions call by call
  PrefixListInv       its inductive invariant
    PrefixListMC      its instance for TLC
    PrefixListProofs  what a caller has read is true of that version; entries keep owners
      PrefixListSafety   one list, nothing left behind, annotations tell the truth
  ResourceShares      the RAM client call by call
    MCAccount         both together, in the account of the management cluster
      MCAccountInv    its inductive invariant
        MCAccountMC   its instance for TLC
        MCAccountProofs  proved inductive (on PrefixListSafety)
AwsClients            the client cache and the roles clients assume
Subnets               the choice of subnets
  Attachments         attaching and detaching call by call (EXTENDS both)
    AttachmentsInv    its inductive invariant
      AttachmentsMC   its instance for TLC
      AttachmentsProofs  proved inductive
```

The two halves look at the same program at two resolutions. `Operator` has every
step of both reconcilers and all of Kubernetes, and takes the prefix list, an
attachment and a share as one step on one object. `PrefixList`, `Attachments` and
`ResourceShares` open these steps: they have every AWS call, and reduce the
reconcilers to when they start and what happens to the cluster when they are done.

**ClusterStore.** `cluster` and `awsCluster` are the objects at the API server;
`cached`, `cachedAWS` what a `Get` returns; `feed`, `awsFeed` the versions in
between, which `DeliverCluster` and `DeliverAWS` hand over in order.
`DeliverCluster` also enqueues the Cluster for both controllers, since both
watch Clusters (`For(&capi.Cluster{})`); nobody is woken for an AWSCluster. A
record keeps what the code reads and writes: phase (live, with a deletion
timestamp, gone), finalizers, mode, the two annotations, the
`NetworkTopologyReady` condition and the paused flag. `FinalizerAdded` and
`FinalizerRemoved` are the merge patches of `cluster.go:71-100`: a patch that
changes the list replaces the server's list by the copy's, one that does not
change it says nothing of the list. `Refreshed` is how the response of a patch
overwrites the caller's copy. `StatusUpdated` is refused when the copy is not
the current version.

**AwsNetwork.** One operator for each AWS call. The prefix list maps a CIDR
block to the cluster its description names; an attachment goes through
pendingAcceptance, available and deleting; a share is a set of kinds by cluster.

**NetTop.** `nt` is the worker: `pc` names the call it is about to make, `obj`
is the Go pointer `cluster`, `gw`/`up` the gateway Register settled on and its
state when it was described, `vpc` the copy of the AWSCluster. One action stands
for the code from one call to the next; everything else in the system may
happen between two actions.

| Code | Actions |
|---|---|
| `Reconcile` to the first branch, InProgress condition included | `NTGet` |
| `AddFinalizer` on the Cluster, then on the AWSCluster | `NTAddFinalizer`, `NTAddAWSFinalizer` |
| `Register`, modes unset/None, invalid, UserManaged without IDs | `NTModeNotSupported`, `NTInvalidMode`, `NTIDMissing` |
| `Register`, gateway lookup or creation | `NTFindGateway`, `NTNoGateway`, `NTCreateGateway` |
| annotation patch, AWSCluster, attachment, SNS | `NTSaveGateway`, `NTNotReady`, `NTAttach`, `NTNoVPC`, `NTPublish` |
| `addToPrefixList`, annotation patch | `NTAddToPrefixList`, `NTSavePrefixList` |
| deferred `UpdateStatus`, requeue | `NTUpdateStatus` |
| `Unregister` | `NTUnregister`, `NTRemoveFromPrefixList`, `NTDetach`, `NTDeleteGateway` |
| `RemoveFinalizer` on the AWSCluster, then on the Cluster | `NTRemoveAWSFinalizer` (`NTAWSReadFails`: the AWSCluster's read fails and is ignored), `NTRemoveFinalizer` |
| any call fails | `NTFault` |

**ShareReconciler.** The same for `controllers/share.go` (`SHAWSReadFails`, `SHFault`).

**Operator.** Composes the two workers, `Restart` (both workers lose what they
were doing, the caches list everything again, every Cluster is queued), the
watches, CAPI, CAPA, users and AWS; and states the properties.

**GuardedNetwork.** The abstract specification: a cluster is guarded, then
attached, then listed; it is taken off in the opposite order. `Operator`
implements it under `guarded <- ` the clusters with the finalizer, `attached <- `
those with an attachment in service or waiting for its acceptance, `listed <- `
those whose entry is in the prefix list (`ImplementsPromise`).

**PrefixList.** `versions[l]` is the history of list `l`, `<<>>` while there is no
such list; a version maps each block to the owner its description names. `pw` is
the worker: the operation, the cluster, and the list and version it was
described with.

| Code | Actions |
|---|---|
| the MC and its annotation are read | `Start` |
| describe by ID, fall back | `FindByID`, `FallBack` |
| describe by name: none, one, several | `FindByName` |
| `CreateManagedPrefixList` | `Create` |
| `GetManagedPrefixListEntries` and the loop over them | `GetEntries` (`AfterEntries`) |
| `ModifyManagedPrefixList` with `CurrentVersion` | `Modify` (`Accepted`, `Changed`) |
| annotation patch; finalizer removal | `Save`; `Release` |
| any call fails, perhaps only for the caller | `Fail`, then `LandLate` |
| another user of the list; the informer; users | `ForeignWrite`; `Deliver`; `RequestDeletion`, `CreateAgain` |

**ResourceShares** and **MCAccount.** `ram[c]` holds the shares of the name of
cluster `c`, each with a status and the list it shares; `rw` is the share
reconciler's worker. `MCAccount` runs it beside `PrefixList`'s worker, coupled
only by `annotated` (what `Save` wrote) and by the finalizers (`Release` lets the
share reconciler withdraw, `ShareRelease` lets the cluster go).

**AwsClients** and **Attachments.** `pool` is the cache of `main.go`, `client` the
copy of an EC2 client that the worker's `TGWClient` holds, with the account whose
role it has assumed, if any. Every EC2 call of `Attachments` is a `Call` through
it, and sees and changes only what belongs to that account. `att` are the
attachments EC2 lists, ended ones included; `strays` those the operator did not
make, or made in a call it had given up.

**Subnets.** Both functions are one loop (`FirstPerZone`, whose rounds are a
recursive function), over the tagged subnets or over the private ones.
`SubnetsRight` compares it with a definition
by the least index of each zone for all 341 lists of up to four subnets in two
zones (any visibility).

One observation has no property of its own. `main.go:127` says the cache is there
"to avoid lots of credential requests". The cached client is copied into each
`TGWClient` (`NewTGWClient(*ec2ServiceWorkloadCluster, ...)`), and the role is
assumed by the copy, so the cached one never has a role and each reconcile
assumes it again. `AwsClients` models this copy, and `CallsInOwnAccount` shows
what it is good for: with a client passed by reference the property fails for a
name that comes back in another account.

### Modelling assumptions

* **Cached reads.** `MaxLag` is the number of versions a cached read may be
  behind the server. With 0, a reconciler reads what is there at the moment of
  the read and may act on it much later; with 1 or 2 the read itself is stale.
* **CAPI and CAPA.** CAPI keeps a Cluster until its AWSCluster is gone and
  deletes the AWSCluster only after the Cluster's deletion was requested. CAPA
  keeps the AWSCluster while it has a finalizer, and AWS does not give up a VPC
  with an attachment.
* **Prefix list.** In `Operator`, reading the list and modifying it is one step:
  the code sends the version it read and AWS refuses the change if the list has
  moved on. A refusal is one of the failures (`NTFault`). `PrefixList` does
  without this assumption.
* **One process.** Leader election, where it is enabled, is taken to work: there
  is one worker of each reconciler at a time. A call that lands late is what a
  predecessor could still do.
* **Late calls.** A call that changes something in AWS may be carried out after
  its caller has seen it fail; `astray`, `twice` and `strays` say that it
  happened, and the properties that cannot hold then say so.
* **EC2 and RAM** accept what their documentation says they accept: a change of a
  list only with its current version, one attachment in force for a VPC and
  gateway, no deletion of what is deleted. Whether the deletion of what is being
  deleted is refused is left open. A change of a list is done when it is accepted.
* **Failures.** `NTFault` and `SHFault` fail the call the worker is about to
  make, and the reconcile ends with an error. One error is ignored by the code:
  `RemoveFinalizer` goes on to the Cluster when it could not read the AWSCluster
  (`cluster.go:88-90`), and `NTAWSReadFails` and `SHAWSReadFails` go on as well. A
  call that took effect and whose answer was lost is the failure of the next call,
  which leaves the same state. `MaxFaults` bounds failures and
  restarts together.
* **A condition's conflict.** `UpdateStatus` succeeds when the copy equals the
  server's object in everything but the condition. A change that is undone in
  between (pause, resume) is a conflict for the API server and none here; the
  effect is that a condition is saved that the server would have refused.
* **Gateways.** A gateway in a Cluster's annotation is visible to the MC's
  account, with whose client the code describes it. Annotations hold ARNs.
* **What AWS answers about IDs.** A gateway that is named and not there is an error
  of the describe call. An answer without gateways and without an error would make
  `getOrCreateTransitGateway` create another one, and leave `Register` without a gateway
  in UserManaged mode; the model creates one only when none is named.
* **Entries are read at once.** `GetManagedPrefixListEntries` asks for one page of 100
  entries (`transitgateway.go:648`), the model reads the whole list. A list the
  operator made has at most 45; a longer one given by a user is not modelled.
* **Resync.** The periodic resync of informers (every ten hours) is left out: no
  liveness property relies on it. It would not take off a finalizer of the network
  topology reconciler that `NTAWSReadFails` left, since a Cluster without that
  finalizer is not handled; the share reconciler, which does not look at the
  Cluster's finalizer, would take its own off.
* **A management cluster that is not in `Churn`** has been set up before and is
  quiet: its gateway exists, its entry is in the list.
* **Deadlock** is not checked: when every object is gone or settled and nobody
  asks for anything, the system is quiet, as it should be.

## Runs

Bounds of the `OperatorMC` runs: one management cluster and at most one
workload cluster (the reconcilers have one worker each, so two workload clusters
meet only in the prefix list, where `PrefixListProofs` has any number of them);
one to three gateways; one failure or restart, anywhere (in `wc_recovers` two
failed calls and no restart, which would have every object of the API server
reconciled again beside them); caches up to one version behind. Bounds of the others: two clusters, one list given by the user
and two that can be made, one block nobody's cluster has, a list that is full
with two entries, one failure, one change by others, one name that comes back;
two shares of a name; one cluster name, two accounts with a VPC each and two
attachments at a time. Every hazard the project lists needs at most two
actors and one failure. When a wider bound reaches a state that breaks a
property, there is a run that shows it.

| Run | Instance | Properties |
|---|---|---|
| `wc_lifecycle` | WC in an account of its own, mode unset or GiantSwarmManaged, mode set later, 1 fault, lag 0 | `AttachmentsGuarded`, `SharesGuarded`, `ShareOutlivesAttachment`, `ReadyMeansConnected`, `IInv`, `LastInv`, `FinalizerLeavesByOwner`, `ImplementsPromise` |
| `wc_recovers` | WC in an account of its own, with its VPC, 2 failed calls, no restart, fairness | `DeletionCompletesOrForgets`, `BecomesReady`, `TypeOK`, `EntriesGuarded`, `RegistersGuarded` |
| `mc_lifecycle` | MC alone, 3 gateways, 1 fault, lag 1 | `StraysAreFaults`, `GatewayReleased`, `GatewaysInv` |
| `mc_liveness` | MC alone from its creation (AWSCluster and VPC come later), no faults, fairness | `DeletionCompletes`, `BecomesReady` |
| `user_managed` | WC UserManaged or invalid, every annotation a user may give, manual acceptance, pausing, 1 fault | `AttachmentsGuarded`, `PendingIsNotified`, `AskedInv` |
| `prefix_list` | MC and WC, fairness | `ListInv`, `EntryKeepsOwner`, `ForksAreFaults`, `NothingLeftBehind`, `AnnotatedIsListed`, `ListedInTheEnd`, `ReleasedInTheEnd` |
| `mc_account` | MC and WC, both workers | `AccountInv`, `AppliedMeansShared`, `GoneMeansUnshared`, `DuplicatesAreFaults`, `SharedListHoldsEntry` |
| `attachments` | one name in either account and mode, fairness | `AttInv`, `CallsInOwnAccount`, `ReleasedMeansDetached`, `SubnetsRight`, `PanicsAreForeign`, `AttachedInTheEnd`, `ReleasedInTheEnd` |

`IInv`, `GatewaysInv`, `AskedInv`, `LastInv`, `ListInv`, `AccountInv` and `AttInv`
are the inductive invariants of the proofs below; TLC checks each one on an
instance where what it speaks of happens.

`DeletionCompletes` holds without failures (`mc_liveness`). With them it does not: when
the AWSCluster cannot be read at the moment its finalizer is to be removed,
`RemoveFinalizer` ignores the error and removes the Cluster's finalizer
(`cluster.go:88-90`). Later reconciles return early (`networktopology.go:132`), so the
AWSCluster keeps the finalizer, and the Cluster waits for the AWSCluster. One failed
call is enough; TLC shows it when `DeletionCompletes` is put into `wc_recovers.cfg`
(the trace ends with nothing left to do). CHANGELOG.md:78 speaks of a fix for deletions
"when the AWSCluster is still around but the finalizer has been removed"; this is such a
deletion. What is left of the promise is
`DeletionCompletesOrForgets`: a deletion completes, or, once a call has failed, the
AWSCluster has for good a finalizer of the operator that the Cluster has lost. With two
failures this includes the reads of both reconcilers; no other way of hanging is left to
a workload cluster. The management cluster has one, see `mc_deletion_stuck`.

What the last three show:

* An entry keeps its owner through every interleaving of readers, writers, late
  calls and other users of the list, because the version that was read is sent
  along (when the change is sent without it, `EntryKeepsOwner` fails).
* A cluster is released only when its entry has gone, unless a failed describe
  call sent the operator to another list (`transitgateway.go:599`) or a call
  landed late. The same two are what it takes for a second list to be there, and
  a second list of the name keeps every cluster out, and in, for good.
* A live cluster is listed unless its block is another's or the list is full.
* A share that is on its way out is not taken for the one a cluster created
  again needs; a share that appears late is what stops the share reconciler.
* A VPC without a cluster is attached only by what others did, or by a call that
  landed late. (This is said of VPCs and not of names: a name that came back may
  have the VPC of its predecessor.)
* The nil attachment of `transitgateway.go:500` is dereferenced only when there is
  an attachment the operator did not make itself. The process then ends, and
  ends again, until EC2 has forgotten one; the cluster is attached and released
  all the same.

`FinalizerLeavesByOwner`, `SharesGuarded` and `AttachmentsGuarded` hold only as
long as caches are up to date when they are read and users leave certain annotations
alone; the theorems below say so in their hypotheses. The next runs show what happens
otherwise, each against a sentence of the repository:

| Run | What happens |
|---|---|
| `finalizer_lost_update` | The user gives the gateway annotation, so both reconcilers add their finalizer at once. Both patches were computed from the same copy; the second drops the first's finalizer (`cluster.go:74`). Register goes on without the guard. With a cache behind by two versions, the same happens to the share finalizer without any user annotation (`SharesGuarded` fails). |
| `stale_copy_leaks_attachment` | A reconcile fails after attaching; the deletion is then handled with a copy that has no gateway annotation yet. `detachTransitGateway` looks for attachments of the gateway "" and finds none; the finalizer goes, the attachment stays (`transitgateway.go:541`), and pins the VPC. |
| `mc_deletion_stuck` | `DeletionCompletesOrForgets` fails, so the cause is another one. A failure after `DeleteTransitGateway`, or before the gateway's annotation was saved: every retry calls `DeleteTransitGateway` on a gateway that is gone, or on none, and fails (`transitgateway.go:519`). |
| `prefix_list_share_leaks` | A Cluster with a prefix list annotation and no gateway annotation yet: the list is shared, but no finalizer is added (`share.go:219`). The Cluster can go before the share reconciler sees the deletion. |

### Fairness

`FairSpec` assumes that the process keeps running: each worker takes its next
step (weak fairness of `NTWork`, `SHWork`); a request that waits is taken in the
end although others compete for the worker (strong fairness of `NTTake`,
`SHTake`: the work queues of controller-runtime are first in, first out and
requeued requests come back after their delay); watches deliver; CAPI, CAPA, AWS
and owners of gateways do their part. Users owe nothing. Failures and restarts
are never required to happen, and are finitely many.

`PrefixList!FairSpec` and `Attachments!Spec` are fair in the same way: to the
worker, to requests that wait (strongly, since others compete for the worker), to
the informer, to CAPA, and to EC2, which moves on what was begun and forgets what
is over. Late calls need not land, other users owe nothing, the cache need not
expire. A process that ended by itself is started again. A request whose
reconcile was refused (a full list, a conflicting entry) is put back with a delay,
as the reconciler returns the error.

## Proofs

Eight modules hold theorems; every one holds for all values of the constants that
satisfy the named assumptions: any number of clusters, gateways, lists, accounts
and names, any bound on failures, any lag of the caches (but see `CaughtUp`).
These assumptions (`StoreAssumption`, `NetworkAssumption`, `PrefixListAssumption`,
`SharesAssumption`, `ClientsAssumption`, `AttachmentsAssumption`) give constants
their types, say that model values differ, and that only the management cluster
can be outside `Churn`. What a theorem of `Operator` asks in addition is in its
statement:

| Proviso | Says | Without it |
|---|---|---|
| `AnnotationsLeftToOperator` | users give no gateway annotation where a cluster is, or may become, GiantSwarmManaged (UserManaged clusters may have a gateway of their own), and `ModesSetOnce`: a mode that does nothing (None, or no mode there is) may become a supported one while the Cluster lives, and is then kept; where that happens, no Cluster is created without a mode, or `MaxLag = 0` | `finalizer_lost_update` shows an unguarded registration of a GiantSwarmManaged cluster with a gateway given. A mode that is taken back makes both reconcilers skip what they set up. A worker with an old copy that has no mode writes `None` over one that was set meanwhile (`transitgateway.go:85`), which takes it back too |
| `CaughtUp` (`MaxLag = 0`) | a reconciler reads what is there at the moment of the read (what it acts on later may be old all the same) | `stale_copy_leaks_attachment` |
| `ListsLeftToOperator` | users give neither a prefix list nor a gateway annotation, and the gateway an MC was set up with is in its own account | `prefix_list_share_leaks` |

Each theorem about an invariant is `Init => Inv`, `Inv /\ [Next]_vars => Inv'` and
`Inv =>` the property, with one lemma for each action or group of actions and,
under it, one step for each part the action can disturb.

| Theorems | Property of the runs | Proviso |
|---|---|---|
| `OperatorTypes!TypeCorrect` | `TypeOK` | none |
| `OperatorProofs!InductiveInvariant`, `EntriesAlwaysGuarded`, `RegistersAlwaysGuarded` | `IInv`, `EntriesGuarded`, `RegistersGuarded` | annotations |
| `OperatorProofs!EntryKept` | `EntryKeepsOwner` of `Operator` | none |
| `GatewayProofs!GatewaysInvariant`, `StraysAlwaysFaults`, `GatewayAlwaysReleased`, `ReadyAlwaysConnected` | `GatewaysInv`, `StraysAreFaults`, `GatewayReleased`, `ReadyMeansConnected` | annotations |
| `PromiseProofs!AskedInvariant`, `PendingAlwaysNotified` | `AskedInv`, `PendingIsNotified` | annotations |
| `PromiseProofs!GuardLeavesByOwner` | half of `FinalizerLeavesByOwner` | annotations |
| `PromiseProofs!GuardInvariant`, `AttachmentsAlwaysGuarded`, `FinalizersLeaveByOwner` | `AttachmentsGuarded`, `FinalizerLeavesByOwner` | annotations, caught up |
| `PromiseProofs!PromiseKept` | `ImplementsPromise` | annotations, caught up |
| `PromiseProofs!LastInvariant`, `SharesAlwaysGuarded`, `SharesAlwaysReclaimed`, `SharesOutliveAttachments` | `LastInv`, `SharesGuarded`, `ShareOutlivesAttachment`; `SharesReclaimed` has only the run that violates it without the proviso | all three |
| `PrefixListProofs!TypeCorrect`, `ReadInvariant`, `EntryKept` | `EntryKeepsOwner` of `PrefixList` | none |
| `PrefixListSafety!ListInvariant`, `OneListWithoutFaults`, `ReleasedLeavesNothing`, `AnnotationTellsTheTruth` | `ListInv`, `ForksAreFaults`, `NothingLeftBehind`, `AnnotatedIsListed` | none |
| `MCAccountProofs!AccountInvariant`, `AccountTypeCorrect`, `OneShareWithoutLateCalls`, `WithdrawnBeforeGone`, `AppliedIsShared`, `SharedAfterListed` | `AccountInv` (with the types), `DuplicatesAreFaults`, `GoneMeansUnshared`, `AppliedMeansShared`, `SharedListHoldsEntry` | none |
| `AttachmentsProofs!AttInvariant`, `TypeCorrect`, `CallsStayInAccount`, `DetachedBeforeReleased`, `PanicNeedsStray` | `AttInv` (with the types), `CallsInOwnAccount`, `ReleasedMeansDetached`, `PanicsAreForeign` | none |
| `AttachmentsProofs!FirstPerZoneRight`, `SubnetsAlwaysRight` | `SubnetsRight`, for lists of any length and any zones | none |

### Operator: types

One lemma for each group of actions; what recurs is factored out: a write of a
typed record keeps the store typed (`StoreClusterType`, `StoreAWSType`), the
merge patches return records (`PatchTypes`), every call to AWS keeps the network
typed (`NetworkCallTypes`), and the ways in which a worker ends
(`NTEndTypes`, `NTRegisteredType`, `SHEndTypes`).

### Operator: versions and entries (`IInv`)

`EntriesGuarded` and `RegistersGuarded` are not inductive: a worker that goes on
with an old copy may write an old list of finalizers back. What excludes it is a
relation between the copy, the versions still on their way to the cache, and the
server's object. `IInv` states it:

| Part | Says | Needed because |
|---|---|---|
| `TypeOK` | types | every step |
| `ClusterHistory` | the cached version, those still to be delivered and the server's are in order (`ClusterFollows`): a deletion is never taken back, and gets no new finalizer; each version tells something of the server's (`Tells`), and its mode leads to the server's (`ModeLeads`) | a worker's copy is one of these versions, so what it sees bounds what its patch can destroy |
| `AWSHistory` | the same for the AWSCluster: it stays gone, its VPC stays recorded | `Unregister` takes the VPC from a copy, and skips the prefix list without one |
| `EntryInv` | a cluster with an entry, or about to get it, is protected, managed and attached, and every version of its AWSCluster has the VPC | the VPC seen at the removal of the entry is the one seen at its addition |
| `DetachInv` | an attachment is on its way out only after the deletion was read | registration does not find an attachment that is leaving |
| `NTInv` | what the worker may rely on at each call, in terms of the server's object | carries the facts from one call of a reconcile to the next |
| `SHInv` | the share reconciler adds its finalizer only with a copy that has the other one, and removes its own only after the other one is gone | its patches replace the whole list, so they could take the guard away |

The proof first settles what deliveries, writes and new caches do to the versions
of one object (`ClusterAppend`, `ClusterTail`, `SingleVersion` and their AWS
counterparts), then frames: a step that writes nothing (`QuietStep`), one that
writes one Cluster (`ClusterStep`) or one AWSCluster (`AWSStep`). Each action is
then a lemma of its own, `InitInv` and `NextInv` collect them.

`EntryKept` needs only the types: two calls of the registrar change the list
(`ListChangesByRegistrar`), and each compares the owner first.

### Operator: gateways and conditions (`GatewaysInv`)

| Part | Says | Needed because |
|---|---|---|
| `NamingInv` | the gateway in any copy of a Cluster is none or the server's; a worker past its first finalizer has the current one | the code writes the annotation from the copy; only so it does not name a second gateway |
| `BareInv` | what is gone has no finalizers | a copy of it cannot bring one back |
| `StrayInv` | gateways nobody names are at most as many as calls failed, not counting the one about to be named | counts a gateway as lost at the failure, when `CreateTransitGateway` is already past |
| `NTModeInv` | the mode a branch of Register or Unregister runs in is the copy's, and one that is supported before anything is saved or attached | such a mode stays (`SupportedStays`), so the copy's is the server's from then on (`CopyMode`); `deleteTransitGateway` is only reached in one mode |
| `ReadyInv` | what *any* copy says of being ready is true of the server's object, which then has a supported mode | the deferred `UpdateStatus` and every patch write the condition of a copy back |
| `MCInv` | an MC that is set up stays; one that is created gets its gateway from the operator (`MCOwnInv`, `ReleaseInv`), or is not GiantSwarmManaged | a gateway the user gave may be anybody's, and nobody deletes it |
| `MCOwnInv` | the MC's gateway is in its own account, so nothing is shared with it | the share reconciler's list patches leave the MC's AWSCluster alone |
| `ReleaseInv` | its AWSCluster is protected from before a gateway is named until that is deleted, in the server and in what copies say | `Unregister` deletes nothing when the cache has no AWSCluster |

`GatewaysNext` has a lemma for each part; what the parts share is what a step may do
to the worker (`WorkerMoves`), to one Cluster or AWSCluster (`ClusterKeeps`, `AWSKeeps`)
and the copies of it (`SeenMoves`), to an attachment or entry (`ConnectionMoves`) and
to what any copy says of being ready (`SaysReadyMoves`). `AskedInv`, proved on top, adds that a UserManaged
cluster which any copy calls ready has asked for what is pending: the message
comes before the condition, and a retry asks again.

### Operator: attachments, finalizers and shares (`GuardInv`, `LastInv`)

| Part | Says | Needed because |
|---|---|---|
| `NamedInv` | a VPC is attached only to the gateway its cluster names, and every version of its AWSCluster has the VPC | `detachTransitGateway` looks for attachments of that gateway and VPC only |
| `CopyInv` | the network topology worker's copy names the server's gateway; past detaching, nothing is attached; what is attached is protected | the annotation is read from the copy: the one thing a stale copy breaks |
| `FinsInv` | no patch of a list of finalizers, made from a copy, drops the other reconciler's | patches carry whole lists (`cluster.go:74`) |
| `AccountsInv` | gateways that are named are in the MC's account, and a prefix list is named only after a gateway | sharing the prefix list adds no finalizer; sharing the gateway, which comes first, does |
| `WithdrawInv` | who gets a share has the share finalizer; each stage of the withdrawal knows what is gone; an attachment to another account's gateway is under a share | order of `share.go` against that of the other reconciler |

`PromiseKept` is the refinement. `NetworkSteps` sorts the steps of `Operator` by what
they do to finalizers, attachments and entries (`Unguards`, `NetworkMoves`); each
class is then one step of `GuardedNetwork` or a stutter under the mapping, the
guards of the abstract step coming from `GuardInv` and `IInv` in the state before
the step and after it (`PromiseStep`, `PromiseInit`).

`GuardLeavesByOwner` is the half of `FinalizerLeavesByOwner` that needs no
`CaughtUp`: however old the caches, the network topology finalizer goes only with
its own `RemoveFinalizer`. The share finalizer does get lost with old caches (see
Runs).

### Prefix list

The worker acts on what it read some steps ago. `ReadInv` says what it knows of it:
the version it was described with exists, and when a change is about to be sent,
or was sent by a caller that gave up, the entry *in that version* was free, or the
cluster's own. Versions never change and are never taken away (`VersionsStay`,
`NewListStays`), so this survives every step of everybody else
(`WriteKeepsReads`); and a change is accepted only when that version is still the
last (`AcceptedFindsWhatWasRead`), so what was read is then what is there.

`ListInv` adds: `WorkerInv` (nobody is released while worked on), `ForkInv` (at most
one list plus one for each thing that went astray, counted before a creation too;
a list given by the user is found unless something went astray) and `EntryInv`
(without that: what was read of the own block is out of date only as to strangers;
the worker at `Save` has its entry, at `Release` none). `ForkInv` is needed because
`NothingLeftBehind` speaks of all lists, while the worker only looks at one.

### The management cluster's account

`ListUnderShares` shows that a step of `MCAccount` is one of `PrefixList` or leaves the
list alone, so `ListInv` carries over. `AccountInv` adds `ShareWorkerInv` (the worker
has a cluster that is still there), `DuplicateInv` (a share is made only after none
was found: one live share, and one for each call that landed late), `SharedInv`,
`WithdrawnInv` (what the finalizer's removal finds) and `SharedListInv` (any list that
an annotation, a worker or a late call names exists).

### Attachments and clients

`AttInv` consists of `PoolInv` (the cached client never has a role), `ClientInv` (the
worker's copy is of its cluster's name, and of its account if of any), `OwnInv` (at
most one attachment of a VPC that is not a stray, none while one is about to be
made) and `DetachInv` (what the describe call before a deletion did not return is a
stray). `CallsInOwnAccount` follows from the first two, the rest from the others.

`FirstPerZoneRight` is about a loop over a list of any length. The library's
induction theorems take an operator as a parameter, which the provers here cannot
instantiate, so the induction is made by hand: of the rounds that would be wrong
there is a least one (`LeastNumber`, from the well-foundedness of `<` on the
naturals), and one round keeps what was collected right (`RoundCollects`). The same
argument shows that the recursive function there is (`RoundsDefined`): a recursive
definition only says "some function with this property, if there is one". What
is collected after round i are the first indices of each zone among the
eligible ones up to i, in order, and their zones (`Collected`).

### Model-checked only

* Everything with fairness: liveness is out of the prover's reach.
* What lies outside the provisos. There the code does not do what is promised, as
  the runs that expect a violation show: a GiantSwarmManaged cluster with a gateway
  given by its user, a prefix list annotation given by the user, a copy that is old.

## Plan

1. *(done)* `ClusterStore`, `AwsNetwork`, `NetTop`, `ShareReconciler`,
   `Operator`, `GuardedNetwork`, their runs; `TypeCorrect`,
   `EntriesAlwaysGuarded`, `RegistersAlwaysGuarded`.
2. *(done)* `PrefixList`, `ResourceShares`, `MCAccount`, `AwsClients`, `Subnets`,
   `Attachments`, their runs; `EntryKept` in both resolutions, `ReadInvariant`.
3. *(done)* The safety properties of every run as theorems, with their inductive
   invariants, and the refinement of `GuardedNetwork`.
4. *(done)* The same with modes that are set late: the mode of a past version, of a
   copy and of the server differ as long as the Cluster lives (`ModeLeads`,
   `CopyTells`).
5. *(done)* The theorems of `Operator` for UserManaged clusters that have a gateway of
   their own (`OperatorNamed`, `MCInv`), and `SubnetsRight` for any list.

## Not modelled

* **Process set-up** (`main.go:64-118`, `:168-210`, Helm chart, RBAC): flags,
  probes and manager options have no state of their own.
* **Generated fakes, fixtures and acceptance tests**: no logic of the operator.
* **IDs and ARNs** (`arn.go`, `transitgateway.go:782-816`): annotations name the
  resource, in whichever form.
* **The subnets of an attachment**: `SubnetsRight` is about the two functions that choose
  them; `Attachments` does not record the choice.
* **Modes that change away from GiantSwarmManaged** and **an MC that is deleted
  beside live workload clusters**: the actions are there (`SHFirst` skips,
  `NTRemoveFromPrefixList` retries), but no run has them; see the hazards.
* **Asynchronous failure of a change of the list** and **shares that fail**: the
  code does not look at either.
