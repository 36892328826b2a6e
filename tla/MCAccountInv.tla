------------------------------ MODULE MCAccountInv -----------------------------
(***************************************************************************)
(* The inductive invariant of MCAccount: that of the prefix list, and what *)
(* the share worker, the shares and the calls that may land late have to   *)
(* do with the annotations and the finalizers.                             *)
(***************************************************************************)
EXTENDS MCAccount, PrefixListInv

\* A share worker has a workload cluster that is still there in hand: one to share
\* with has its annotation, and one to withdraw from is released.
ShareWorkerInv ==
  rw.pc # "idle" =>
    /\ rw.c # MC /\ life[rw.c] # "gone"
    /\ rw.op = "apply" => rw.list \in Lists /\ annotated[rw.c] # NoList
    /\ rw.op = "delete" => life[rw.c] = "released"
    /\ rw.pc = "Create" => rw.op = "apply"
    /\ rw.pc \in {"Delete", "RemoveFinalizer"} => rw.op = "delete"
    /\ rw.pc = "Delete" => rw.slot \in LiveShares(rw.c)

\* A share is created after none was found, and only a late one comes in between.
DuplicateInv ==
  /\ \A c \in Clusters : IsFiniteSet(LiveShares(c)) /\ Cardinality(LiveShares(c)) <= 1 + twice
  /\ rw.pc = "Create" => Cardinality(LiveShares(rw.c)) <= twice

SharedInv ==
  \A c \in shared :
    /\ c # MC /\ life[c] # "gone" /\ annotated[c] # NoList
    /\ life[c] \in {"live", "deleting"} => LiveShares(c) # {}

\* As long as no share was made by a late call.
WithdrawnInv ==
  twice = 0 =>
    /\ rw.pc = "Delete" => LiveShares(rw.c) \subseteq {rw.slot}
    /\ rw.pc = "RemoveFinalizer" => LiveShares(rw.c) = {}
    /\ \A c \in Clusters :
         LiveShares(c) # {} => c # MC /\ life[c] # "gone" /\ annotated[c] # NoList

\* As long as nothing went astray, what anybody takes for the list is a list.
SharedListInv ==
  astray = 0 =>
    /\ \A c \in Clusters \ {MC} : annotated[c] # NoList => There(annotated[c])
    /\ rw.pc # "idle" /\ rw.op = "apply" => There(rw.list)
    /\ \A call \in lateRAM : There(call[2])
    /\ \A c \in Clusters : \A s \in LiveShares(c) : There(ram[c][s].list)

SharesInv ==
  SharesTypeOK /\ ShareWorkerInv /\ DuplicateInv /\ SharedInv /\ WithdrawnInv /\ SharedListInv

AccountInv == ListInv /\ SharesInv
=============================================================================
