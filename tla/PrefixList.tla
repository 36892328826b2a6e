------------------------------ MODULE PrefixList ------------------------------
(***************************************************************************)
(* getOrCreatePrefixList, addToPrefixList and removeFromPrefixList call by *)
(* call (pkg/registrar/transitgateway.go): AwsNetwork takes each of them   *)
(* as one step on one list; here they read a list, then one version of its *)
(* entries, then change that version, while other users of the list,       *)
(* failures and calls whose caller gave up come in between. The management *)
(* cluster stays.                                                          *)
(***************************************************************************)
EXTENDS Naturals, Sequences, FiniteSets

CONSTANTS
  Clusters, MC,  \* the clusters, and the management cluster
  Cidr,          \* the CIDR block of each cluster's VPC
  OtherBlocks,   \* blocks that are no cluster's
  Lists,         \* managed prefix lists of the MC's account
  UserList,      \* the list a user names in the MC's annotation, under a name of its own
  NoList,        \* no list; UserList may be NoList too
  Nobody,        \* no owner of an entry
  Stranger,      \* an owner outside the operator
  MaxEntries,    \* PREFIX_LIST_MAX_ENTRIES
  MaxFaults,     \* bound: failures
  MaxForeign,    \* bound: changes by others
  MaxLives       \* bound: clusters created again under a name used before

Blocks == {Cidr[c] : c \in Clusters} \cup OtherBlocks
Owners == Clusters \cup {Stranger, Nobody}

ASSUME PrefixListAssumption ==
  /\ MC \in Clusters /\ DOMAIN Cidr = Clusters /\ NoList \notin Lists
  /\ UserList \in Lists \cup {NoList}
  /\ Nobody # Stranger /\ Nobody \notin Clusters /\ Stranger \notin Clusters
  /\ MaxEntries \in Nat /\ MaxFaults \in Nat /\ MaxForeign \in Nat /\ MaxLives \in Nat

VARIABLES
  versions,   \* the versions of each list, <<>> while there is no list
  annotated,  \* the list each cluster's annotation names
  cachedID,   \* the list the MC's annotation names in the informer cache
  life,       \* of each cluster: its finalizer goes when it is released
  pw,         \* the worker
  late,       \* calls whose caller gave up but which AWS may still execute
  astray,     \* failures that had a second list looked for, or landed late
  faults, foreign, lives

bounds == <<faults, foreign, lives>>
listVars == <<versions, annotated, cachedID, life, pw, late, astray, bounds>>

Stages == {"idle", "FindByID", "FindByName", "Create", "GetEntries", "Modify", "Save", "Release"}
Calls == [op: {"create", "add", "remove"}, c: Clusters, list: Lists \cup {NoList}, ver: Nat]

TypeOK ==
  /\ versions \in [Lists -> Seq([Blocks -> Owners])]
  /\ annotated \in [Clusters -> Lists \cup {NoList}] /\ cachedID \in Lists \cup {NoList}
  /\ life \in [Clusters -> {"live", "deleting", "released", "gone"}]
  /\ pw \in [pc: Stages, op: {"add", "remove"}, c: Clusters, list: Lists \cup {NoList}, ver: Nat]
  /\ late \subseteq Calls
  /\ astray \in Nat /\ faults \in Nat /\ foreign \in Nat /\ lives \in Nat

Empty == [d \in Blocks |-> Nobody]
There(l) == versions[l] # <<>>
Current(l) == versions[l][Len(versions[l])]
HasEntryIn(c, l) == There(l) /\ Current(l)[Cidr[c]] = c
Size(content) == Cardinality({d \in Blocks : content[d] # Nobody})
\* The lists under the name the operator derives from the MC's.
Named == {l \in Lists \ {UserList} : There(l)}

Idle == [pc |-> "idle", op |-> "add", c |-> MC, list |-> NoList, ver |-> 0]
Goto(stage) == pw' = [pw EXCEPT !.pc = stage]

Init ==
  /\ versions \in [Lists -> {<<>>, <<Empty>>}]
  /\ \A l \in Lists \ {UserList} : ~There(l)
  /\ annotated = [c \in Clusters |-> IF c = MC THEN UserList ELSE NoList]
  /\ cachedID = UserList
  /\ life = [c \in Clusters |-> "live"]
  /\ pw = Idle /\ late = {} /\ astray = 0
  /\ faults = 0 /\ foreign = 0 /\ lives = 0

-----------------------------------------------------------------------------
(* The calls, in the order of the code.                                    *)

\* Registration or removal reaches the list; the MC is read from the cache.
Start(c) ==
  /\ pw.pc = "idle" /\ life[c] \in {"live", "deleting"}
  /\ pw' = [pc |-> IF cachedID = NoList THEN "FindByName" ELSE "FindByID",
            op |-> IF life[c] = "live" THEN "add" ELSE "remove",
            c |-> c, list |-> cachedID, ver |-> 0]
  /\ UNCHANGED <<versions, annotated, cachedID, life, late, astray, bounds>>

\* A list that is found is described with its current version.
Found(l) == pw' = [pw EXCEPT !.pc = "GetEntries", !.list = l, !.ver = Len(versions[l])]

FindByID ==
  /\ pw.pc = "FindByID"
  /\ IF There(pw.list) THEN Found(pw.list) ELSE Goto("FindByName")
  /\ UNCHANGED <<versions, annotated, cachedID, life, late, astray, bounds>>

\* A failure is no different from a list that is not there.
FallBack ==
  /\ pw.pc = "FindByID" /\ faults < MaxFaults /\ faults' = faults + 1
  /\ Goto("FindByName") /\ astray' = astray + 1
  /\ UNCHANGED <<versions, annotated, cachedID, life, late, foreign, lives>>

\* Mutants: the list is not looked for; one list is an error already.
FindNothing ==
  /\ pw.pc = "FindByName" /\ Goto("Create")
  /\ UNCHANGED <<versions, annotated, cachedID, life, late, astray, bounds>>
FindNoList ==
  /\ pw.pc = "FindByName"
  /\ IF Named = {} THEN Goto("Create") ELSE pw' = Idle
  /\ UNCHANGED <<versions, annotated, cachedID, life, late, astray, bounds>>

\* More than one list of that name is an error.
FindByName ==
  /\ pw.pc = "FindByName"
  /\ \/ Named = {} /\ Goto("Create")
     \/ Cardinality(Named) = 1 /\ \E l \in Named : Found(l)
     \/ Cardinality(Named) > 1 /\ pw' = Idle
  /\ UNCHANGED <<versions, annotated, cachedID, life, late, astray, bounds>>

\* A new list is empty and at its first version.
Created(l) == l # UserList /\ ~There(l) /\ versions' = [versions EXCEPT ![l] = <<Empty>>]

Create ==
  /\ pw.pc = "Create"
  /\ \E l \in Lists : Created(l) /\ pw' = [pw EXCEPT !.pc = "GetEntries", !.list = l, !.ver = 1]
  /\ UNCHANGED <<annotated, cachedID, life, late, astray, bounds>>

\* Reads the version that was described, also if the list has changed since.
Read == versions[pw.list][pw.ver][Cidr[pw.c]]

\* Mutants: an entry of anybody's will do; there must be one to remove.
AfterAnyEntry ==
  CASE pw.op = "add" /\ Read # Nobody -> "Save"
    [] pw.op = "remove" /\ Read # pw.c -> "Release"
    [] OTHER -> "Modify"
AfterOwnEntry ==
  CASE pw.op = "add" /\ Read = pw.c -> "Save"
    [] Read \notin {pw.c, Nobody} \/ (pw.op = "remove" /\ Read = Nobody) -> "idle"
    [] OTHER -> "Modify"

\* The CIDR block is another's: an error when added, left alone when removed.
AfterEntries ==
  CASE pw.op = "add" /\ Read = pw.c -> "Save"
    [] pw.op = "add" /\ Read \notin {pw.c, Nobody} -> "idle"
    [] pw.op = "remove" /\ Read # pw.c -> "Release"
    [] OTHER -> "Modify"

GetEntries ==
  /\ pw.pc = "GetEntries"
  /\ IF AfterEntries = "idle" THEN pw' = Idle ELSE Goto(AfterEntries)
  /\ UNCHANGED <<versions, annotated, cachedID, life, late, astray, bounds>>

\* What AWS makes of a change: what is added replaces an entry of that block,
\* what is removed goes whoever's it is.
Changed(call) ==
  [Current(call.list) EXCEPT ![Cidr[call.c]] = IF call.op = "add" THEN call.c ELSE Nobody]

\* AWS changes the version the caller names or none, and a list takes MaxEntries.
Accepted(call) ==
  /\ call.ver = Len(versions[call.list])
  /\ call.op = "add" => Size(Changed(call)) <= MaxEntries

Modified(call) == versions' = [versions EXCEPT ![call.list] = Append(@, Changed(call))]

\* Mutant: the change is sent without the version that was read, to whatever the
\* list holds by then.
CallUnversioned ==
  [op |-> IF pw.pc = "Create" THEN "create" ELSE pw.op, c |-> pw.c, list |-> pw.list,
   ver |-> IF pw.pc = "Modify" THEN Len(versions[pw.list]) ELSE pw.ver]

\* A change is sent with the version of the list that was read.
Call == [op |-> IF pw.pc = "Create" THEN "create" ELSE pw.op,
         c |-> pw.c, list |-> pw.list, ver |-> pw.ver]

\* Mutant: the error of the call is dropped.
RefusalIgnored == Goto(IF pw.op = "add" THEN "Save" ELSE "Release")

\* The request is put back.
Refused == pw' = Idle

Modify ==
  /\ pw.pc = "Modify"
  /\ \/ Accepted(Call) /\ Modified(Call) /\ Goto(IF pw.op = "add" THEN "Save" ELSE "Release")
     \/ ~Accepted(Call) /\ Refused /\ UNCHANGED versions
  /\ UNCHANGED <<annotated, cachedID, life, late, astray, bounds>>

\* Register ends by saving the list in the cluster's annotation.
Save ==
  /\ pw.pc = "Save"
  /\ annotated' = [annotated EXCEPT ![pw.c] = pw.list]
  /\ pw' = Idle
  /\ UNCHANGED <<versions, cachedID, life, late, astray, bounds>>

\* Unregister goes on without looking back, and the finalizer is removed.
Release ==
  /\ pw.pc = "Release"
  /\ life' = [life EXCEPT ![pw.c] = "released"]
  /\ pw' = Idle
  /\ UNCHANGED <<versions, annotated, cachedID, late, astray, bounds>>

\* A call fails, or the process ends, and the request is taken again later. AWS
\* may still execute a call that would change something.
Fail ==
  /\ pw.pc # "idle" /\ faults < MaxFaults /\ faults' = faults + 1
  /\ pw' = Idle
  /\ \/ UNCHANGED late
     \/ pw.pc \in {"Create", "Modify"} /\ late' = late \cup {Call}
  /\ UNCHANGED <<versions, annotated, cachedID, life, astray, foreign, lives>>

-----------------------------------------------------------------------------
(* What happens around the operator.                                       *)

LandLate(call) ==
  /\ call \in late /\ late' = late \ {call}
  /\ IF call.op = "create" THEN \E l \in Lists : Created(l) ELSE Accepted(call) /\ Modified(call)
  /\ astray' = astray + 1
  /\ UNCHANGED <<annotated, cachedID, life, pw, bounds>>

\* Someone else takes a free block of a list, or gives one of theirs up.
ForeignWrite(l, d) ==
  /\ There(l) /\ foreign < MaxForeign /\ foreign' = foreign + 1
  /\ Current(l)[d] \in {Nobody, Stranger}
  /\ LET new == [Current(l) EXCEPT ![d] = IF @ = Nobody THEN Stranger ELSE Nobody]
     IN  Size(new) <= MaxEntries /\ versions' = [versions EXCEPT ![l] = Append(@, new)]
  /\ UNCHANGED <<annotated, cachedID, life, pw, late, astray, faults, lives>>

Deliver ==
  /\ cachedID # annotated[MC] /\ cachedID' = annotated[MC]
  /\ UNCHANGED <<versions, annotated, life, pw, late, astray, bounds>>

RequestDeletion(c) ==
  /\ c # MC /\ life[c] = "live" /\ life' = [life EXCEPT ![c] = "deleting"]
  /\ UNCHANGED <<versions, annotated, cachedID, pw, late, astray, bounds>>

Collect(c) ==
  /\ life[c] = "released" /\ life' = [life EXCEPT ![c] = "gone"]
  /\ UNCHANGED <<versions, annotated, cachedID, pw, late, astray, bounds>>

CreateAgain(c) ==
  /\ life[c] = "gone" /\ lives < MaxLives /\ lives' = lives + 1
  /\ life' = [life EXCEPT ![c] = "live"]
  /\ annotated' = [annotated EXCEPT ![c] = NoList]
  /\ UNCHANGED <<versions, cachedID, pw, late, astray, faults, foreign>>

ListWork == \/ FindByID \/ FindByName \/ Create \/ GetEntries \/ Modify \/ Save \/ Release

ListEnvironment ==
  \/ FallBack \/ Fail \/ Deliver
  \/ \E call \in late : LandLate(call)
  \/ \E l \in Lists, d \in Blocks : ForeignWrite(l, d)
  \/ \E c \in Clusters : RequestDeletion(c) \/ CreateAgain(c)

Next == ListWork \/ ListEnvironment \/ \E c \in Clusters : Start(c) \/ Collect(c)

Spec == Init /\ [][Next]_listVars

\* The work queue is first in, first out and failed requests are put back;
\* watches deliver; the owner of the finalizers lets a released cluster go. Late
\* calls need not land, users and others owe nothing.
FairSpec ==
  /\ Spec /\ WF_listVars(ListWork) /\ WF_listVars(Deliver)
  /\ \A c \in Clusters : SF_listVars(Start(c)) /\ WF_listVars(Collect(c))

-----------------------------------------------------------------------------
(* Properties                                                              *)

\* An entry is never handed from its owner to another, and goes only by a removal
\* for the cluster it describes, although what was read may be out of date when
\* it is acted on (addToPrefixList and removeFromPrefixList send the version
\* they read). Entries of others are not touched.
RemovalFor(o) ==
  \E call \in late \cup (IF pw.pc = "Modify" THEN {Call} ELSE {}) : call.op = "remove" /\ call.c = o
EntryKeepsOwner ==
  [][\A l \in Lists, d \in Blocks :
       LET o == Current(l)[d]
       IN  There(l) /\ o # Nobody /\ Current(l)'[d] # o
             => /\ Current(l)'[d] = Nobody
                /\ RemovalFor(o) \/ (o = Stranger /\ UNCHANGED <<pw, late>>)]_listVars

\* The clusters share one list: it takes a failure for a list to be given up for
\* another, or for a second one to be made (getOrCreatePrefixList).
InUse == {l \in Lists : There(l) /\ \E c \in Clusters : Current(l)[Cidr[c]] \in Clusters}
ForksAreFaults == Cardinality(Named \cup InUse) <= 1 + astray

\* A cluster whose finalizer is gone has no entry left in any list, unless a
\* failure had another list looked for or a change landed late: whatever else
\* fails, and however often, removal is tried until it was done (reconcileDelete).
NothingLeftBehind ==
  \A c \in Clusters, l \in Lists :
    life[c] \in {"released", "gone"} /\ HasEntryIn(c, l) => astray > 0

\* While a live cluster's annotation names a list, its entry is in that list.
AnnotatedIsListed ==
  \A c \in Clusters \ {MC} :
    life[c] = "live" /\ annotated[c] # NoList => HasEntryIn(c, annotated[c]) \/ astray > 0

\* A live cluster is listed in the end. What can keep it out for good: its block
\* is another's, the list is full, or there are two lists of the name.
KeptOut(c) ==
  \/ Cardinality(Named) > 1
  \/ \E l \in Lists : There(l) /\ (\/ Current(l)[Cidr[c]] \notin {c, Nobody}
                                   \/ Size(Current(l)) >= MaxEntries)
ListedInTheEnd ==
  \A c \in Clusters : life[c] = "live"
    ~> life[c] # "live" \/ KeptOut(c) \/ \E l \in Lists : HasEntryIn(c, l)

\* A cluster whose deletion was requested is released in the end; only a second
\* list of the same name, left by a failure, can stop it.
ReleasedInTheEnd ==
  \A c \in Clusters : life[c] = "deleting" ~> life[c] # "deleting" \/ Cardinality(Named) > 1
=============================================================================
