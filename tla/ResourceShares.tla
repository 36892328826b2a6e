---------------------------- MODULE ResourceShares ----------------------------
(***************************************************************************)
(* The RAM client call by call (pkg/aws/ram.go): a share is looked for by  *)
(* its name, which no share has to itself, among shares on their way in or *)
(* out, and then created or deleted; AwsNetwork takes this as one step. A  *)
(* caller may give up a call that RAM still executes.                      *)
(***************************************************************************)
EXTENDS PrefixList

CONSTANT Slots  \* the shares there can be of one name at a time

ASSUME SharesAssumption == Slots # {}

VARIABLES
  ram,      \* the shares of the prefix list with each cluster's account, by slot
  rw,       \* the worker
  shared,   \* clusters ApplyResourceShare was done for, in this life
  lateRAM,  \* calls to create a share whose caller gave up
  twice     \* calls that landed late

shareVars == <<ram, rw, shared, lateRAM, twice>>

\* RAM lists a share that is pending for good (failed) or deleted like the one
\* that still will be: the client tells neither pair apart.
ShareStates == {"none", "pending", "active", "deleting"}
Share == [status: {"none"}, list: {NoList}] \cup [status: ShareStates \ {"none"}, list: Lists]

\* op: apply or delete; list: the list to share; slot: the share to delete.
SharesTypeOK ==
  /\ ram \in [Clusters -> [Slots -> Share]]
  /\ rw \in [pc: {"idle", "Get", "Create", "Delete", "RemoveFinalizer"}, op: {"apply", "delete"},
             c: Clusters, list: Lists \cup {NoList}, slot: Slots]
  /\ shared \subseteq Clusters
  /\ lateRAM \subseteq Clusters \X Lists /\ twice \in Nat

NoShare == [status |-> "none", list |-> NoList]
RWIdle == [pc |-> "idle", op |-> "apply", c |-> MC, list |-> NoList, slot |-> CHOOSE s \in Slots : TRUE]
RWGoto(stage) == rw' = [rw EXCEPT !.pc = stage]

SharesInit ==
  /\ ram = [c \in Clusters |-> [s \in Slots |-> NoShare]]
  /\ rw = RWIdle /\ shared = {} /\ lateRAM = {} /\ twice = 0

\* Mutants: a share being deleted is taken to exist; only active shares are.
FoundUntilDeleted(c) == {s \in Slots : ram[c][s].status # "none"}
FoundActive(c) == {s \in Slots : ram[c][s].status = "active"}

\* A share that failed, or is not in force yet, exists.
FoundShares(c) == {s \in Slots : ram[c][s].status \notin {"none", "deleting"}}

-----------------------------------------------------------------------------
(* The share reconciler around the calls.                                  *)

\* Mutant: the annotation is not waited for.
ShareStartBlind(c) ==
  /\ rw.pc = "idle" /\ c # MC /\ life[c] \in {"live", "deleting", "released"}
  /\ rw' = [rw EXCEPT !.pc = "Get", !.op = IF life[c] = "released" THEN "delete" ELSE "apply",
                      !.c = c, !.list = annotated[c]]
  /\ UNCHANGED <<listVars, ram, shared, lateRAM, twice>>

\* A live cluster's list is shared with its account once the annotation is there
\* (a copy that lags takes a cluster being deleted for a live one); it is
\* withdrawn when the network topology finalizer has gone.
ShareStart(c) ==
  /\ rw.pc = "idle" /\ c # MC
  /\ \/ life[c] \in {"live", "deleting"} /\ annotated[c] # NoList
        /\ rw' = [rw EXCEPT !.pc = "Get", !.op = "apply", !.c = c, !.list = annotated[c]]
     \/ life[c] = "released"
        /\ rw' = [rw EXCEPT !.pc = "Get", !.op = "delete", !.c = c, !.list = NoList]
  /\ UNCHANGED <<listVars, ram, shared, lateRAM, twice>>

\* More than one share of the name is an error, for either caller.
GetResourceShare ==
  LET found == FoundShares(rw.c)
  IN  /\ rw.pc = "Get"
      /\ IF Cardinality(found) > 1 THEN rw' = RWIdle /\ UNCHANGED shared
         ELSE IF rw.op = "apply"
         THEN IF found = {} THEN RWGoto("Create") /\ UNCHANGED shared
              ELSE rw' = RWIdle /\ shared' = shared \cup {rw.c}
         ELSE /\ IF found = {} THEN RWGoto("RemoveFinalizer")
                 ELSE \E s \in found : rw' = [rw EXCEPT !.pc = "Delete", !.slot = s]
              /\ UNCHANGED shared
      /\ UNCHANGED <<listVars, ram, lateRAM, twice>>

NewShare(c, l) ==
  \E s \in Slots : /\ ram[c][s].status = "none"
                   /\ ram' = [ram EXCEPT ![c][s] = [status |-> "pending", list |-> l]]

CreateResourceShare ==
  /\ rw.pc = "Create" /\ NewShare(rw.c, rw.list)
  /\ shared' = shared \cup {rw.c} /\ rw' = RWIdle
  /\ UNCHANGED <<listVars, lateRAM, twice>>

DeleteResourceShare ==
  /\ rw.pc = "Delete"
  /\ ram' = [ram EXCEPT ![rw.c][rw.slot].status = "deleting"]
  /\ RWGoto("RemoveFinalizer")
  /\ UNCHANGED <<listVars, shared, lateRAM, twice>>

\* The last finalizer goes, and the cluster with it.
ShareRelease ==
  /\ rw.pc = "RemoveFinalizer" /\ Collect(rw.c) /\ rw' = RWIdle
  /\ shared' = shared \ {rw.c}
  /\ UNCHANGED <<ram, lateRAM, twice>>

ShareFail ==
  /\ rw.pc # "idle" /\ faults < MaxFaults /\ faults' = faults + 1
  /\ rw' = RWIdle
  /\ \/ UNCHANGED lateRAM
     \/ rw.pc = "Create" /\ lateRAM' = lateRAM \cup {<<rw.c, rw.list>>}
  /\ UNCHANGED <<versions, annotated, cachedID, life, pw, late, astray, foreign, lives,
                 ram, shared, twice>>

-----------------------------------------------------------------------------
(* RAM in its own time.                                                    *)

LandLateShare(c, l) ==
  /\ <<c, l>> \in lateRAM /\ lateRAM' = lateRAM \ {<<c, l>>}
  /\ NewShare(c, l) /\ twice' = twice + 1
  /\ UNCHANGED <<listVars, rw, shared>>

ShareMoves(c, s) ==
  /\ ram' = [ram EXCEPT ![c][s] =
       CASE @.status = "pending" -> [@ EXCEPT !.status = "active"]
         [] @.status = "deleting" -> NoShare
         [] OTHER -> @]
  /\ ram' # ram
  /\ UNCHANGED <<listVars, rw, shared, lateRAM, twice>>
=============================================================================
