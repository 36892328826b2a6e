------------------------------ MODULE MCAccount -------------------------------
(***************************************************************************)
(* What both reconcilers do in the account of the management cluster: the  *)
(* network topology reconciler keeps the prefix list, the share reconciler *)
(* shares it with the accounts of the workload clusters, each at its calls *)
(* and coupled only by the annotation and by the finalizers.               *)
(***************************************************************************)
EXTENDS ResourceShares

accountVars == <<listVars, shareVars>>

AccountInit == Init /\ SharesInit

ShareWork == GetResourceShare \/ CreateResourceShare \/ DeleteResourceShare \/ ShareRelease

AccountNext ==
  \/ (ListWork \/ ListEnvironment \/ \E c \in Clusters : Start(c)) /\ UNCHANGED shareVars
  \/ ShareWork \/ ShareFail
  \/ \E c \in Clusters : ShareStart(c) \/ \E l \in Lists : LandLateShare(c, l)
  \/ \E c \in Clusters, s \in Slots : ShareMoves(c, s)

AccountSpec == AccountInit /\ [][AccountNext]_accountVars

-----------------------------------------------------------------------------
(* Properties                                                              *)

AccountTypeOK == TypeOK /\ SharesTypeOK

LiveShares(c) == {s \in Slots : ram[c][s].status \in {"pending", "active"}}

\* When ApplyResourceShare has returned without an error for a live cluster, a
\* share that is not on its way out shares the list its annotation names: also
\* for a cluster created again while the share of its predecessor is going.
AppliedMeansShared ==
  \A c \in shared : life[c] = "live" =>
    \/ \E s \in LiveShares(c) : ram[c][s].list = annotated[c]
    \/ astray > 0

\* Nothing is shared for a cluster that is gone, unless a share appeared late.
GoneMeansUnshared ==
  \A c \in Clusters : life[c] = "gone" => LiveShares(c) = {} \/ twice > 0

\* A second share of one name, which neither caller can get past, takes a call
\* that landed after its caller had given it up (getResourceShare).
DuplicatesAreFaults == \A c \in Clusters : Cardinality(LiveShares(c)) <= 1 + twice

\* What is shared for a live cluster is a list its entry is in: the share
\* reconciler, which knows only the annotation, never shares it too early.
SharedListHoldsEntry ==
  \A c \in Clusters : life[c] = "live" =>
    \A s \in LiveShares(c) : HasEntryIn(c, ram[c][s].list) \/ astray + twice > 0
=============================================================================
