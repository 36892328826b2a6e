----------------------------- MODULE PrefixListInv -----------------------------
(***************************************************************************)
(* The inductive invariant of PrefixList, in parts: what the worker and a  *)
(* call it gave up know of the version they read; how many lists there can *)
(* be; and, as long as there is one list for all, what the annotations and *)
(* the finalizers say of the entries.                                      *)
(***************************************************************************)
EXTENDS PrefixList

IsVersion(l, v) == l \in Lists /\ v \in 1..Len(versions[l])

\* The entry that was read: free when one is to be added, the cluster's own when
\* it is to be removed.
Justified(call) ==
  /\ IsVersion(call.list, call.ver)
  /\ versions[call.list][call.ver][Cidr[call.c]] = IF call.op = "add" THEN Nobody ELSE call.c

ReadInv ==
  /\ TypeOK
  /\ pw.pc = "FindByID" => pw.list \in Lists
  /\ pw.pc \in {"GetEntries", "Modify"} => IsVersion(pw.list, pw.ver)
  /\ pw.pc = "Modify" => Justified(Call)
  /\ \A call \in late : call.op # "create" => Justified(call)

\* A cluster is not released while the worker works on it, and the management
\* cluster stays.
WorkerInv ==
  /\ life[MC] = "live"
  /\ pw.pc # "idle" =>
       /\ life[pw.c] \in {"live", "deleting"}
       /\ pw.op = "remove" => life[pw.c] = "deleting"
  /\ pw.pc = "Save" => pw.op = "add" /\ pw.list \in Lists
  /\ pw.pc = "Release" => pw.op = "remove"

\* A second list takes something that went astray; without that, everybody who
\* looks finds the user's list when there is one.
HasUserList == UserList \in Lists /\ There(UserList)
ListCount == Cardinality(Named) + IF HasUserList THEN 1 ELSE 0
LedToUserList ==
  /\ annotated[MC] = UserList /\ cachedID = UserList
  /\ pw.pc # "idle" => pw.list = UserList /\ pw.pc \notin {"FindByName", "Create"}
ForkInv ==
  /\ IsFiniteSet(Named)
  /\ ListCount <= 1 + astray
  /\ pw.pc = "Create" => ListCount <= astray
  /\ HasUserList => astray > 0 \/ LedToUserList

\* What the worker read of its own block is out of date only as far as others
\* than the clusters are concerned.
ReadIsCurrent ==
  pw.pc \in {"GetEntries", "Modify"} =>
    \/ Read = Current(pw.list)[Cidr[pw.c]]
    \/ Read \notin Clusters /\ Current(pw.list)[Cidr[pw.c]] \notin Clusters

\* As long as nothing went astray.
EntryInv ==
  astray = 0 =>
    /\ ReadIsCurrent
    /\ pw.pc = "Save" => HasEntryIn(pw.c, pw.list)
    /\ pw.pc = "Release" => \A l \in Lists : ~HasEntryIn(pw.c, l)
    /\ NothingLeftBehind /\ AnnotatedIsListed

ListInv == ReadInv /\ WorkerInv /\ ForkInv /\ EntryInv
=============================================================================
