---------------------------- MODULE PrefixListSafety ---------------------------
(***************************************************************************)
(* For any clusters, lists, blocks and bounds: how many lists there can be *)
(* and, as long as nothing went astray, that annotations and finalizers    *)
(* tell the truth about the entries. The parts of ListInv are settled in   *)
(* turn, each with the ones before it.                                     *)
(***************************************************************************)
EXTENDS PrefixListProofs, FiniteSetTheorems

USE PrefixListAssumption

-----------------------------------------------------------------------------
(* What a step makes of the lists.                                         *)

\* A change of one list: no list comes or goes, the others stay as they are.
LEMMA AppendEffect ==
  ASSUME TypeOK, NEW k \in Lists, There(k), NEW content \in [Blocks -> Owners],
         versions' = [versions EXCEPT ![k] = Append(@, content)]
  PROVE  /\ Current(k)' = content
         /\ \A l \in Lists : There(l)' = There(l)
         /\ \A l \in Lists \ {k} : Current(l)' = Current(l)
<1>1. versions \in [Lists -> Seq([Blocks -> Owners])] /\ versions[k] \in Seq([Blocks -> Owners])
  BY DEF TypeOK
<1>2. versions'[k] = Append(versions[k], content) /\ \A l \in Lists \ {k} : versions'[l] = versions[l]
  BY <1>1
<1>3. Len(versions'[k]) = Len(versions[k]) + 1 /\ versions'[k][Len(versions[k]) + 1] = content
      /\ versions'[k] # <<>>
  BY <1>1, <1>2
<1> QED
  BY <1>2, <1>3 DEF Current, There

LEMMA ModifiedEffect ==
  ASSUME ReadInv, NEW call \in Calls, call.op # "create", Justified(call), Accepted(call), Modified(call)
  PROVE  /\ call.list \in Lists /\ call.c \in Clusters /\ There(call.list)
         /\ Current(call.list) \in [Blocks -> Owners]
         /\ Current(call.list)' = Changed(call)
         /\ \A l \in Lists : There(l)' = There(l)
         /\ \A l \in Lists \ {call.list} : Current(l)' = Current(l)
<1>1. call.list \in Lists /\ call.c \in Clusters
  BY DEF Justified, IsVersion, Calls
<1>2. There(call.list) /\ Changed(call) \in [Blocks -> Owners]
  BY AcceptedFindsWhatWasRead, ChangedType DEF ReadInv, Justified
<1>3. Current(call.list) \in [Blocks -> Owners]
  BY <1>1, <1>2 DEF Current, There, ReadInv, TypeOK
<1> QED
  BY <1>1, <1>2, <1>3, AppendEffect DEF ReadInv, Modified

LEMMA CreatedEffect ==
  ASSUME TypeOK, NEW k \in Lists, Created(k)
  PROVE  /\ k # UserList /\ ~There(k) /\ There(k)' /\ Current(k)' = Empty
         /\ \A l \in Lists \ {k} : There(l)' = There(l) /\ Current(l)' = Current(l)
<1>1. versions \in [Lists -> Seq([Blocks -> Owners])]
  BY DEF TypeOK
<1>2. versions'[k] = <<Empty>> /\ \A l \in Lists \ {k} : versions'[l] = versions[l]
  BY <1>1 DEF Created
<1>3. Len(versions'[k]) = 1 /\ versions'[k][1] = Empty /\ versions'[k] # <<>>
  BY <1>2
<1> QED
  BY <1>2, <1>3 DEF Created, Current, There

LEMMA ForeignEffect ==
  ASSUME ReadInv, NEW k \in Lists, NEW e \in Blocks, ForeignWrite(k, e)
  PROVE  /\ Current(k) \in [Blocks -> Owners] /\ Current(k)[e] \in {Nobody, Stranger}
         /\ Current(k)' = ForeignContent(k, e)
         /\ \A l \in Lists : There(l)' = There(l)
         /\ \A l \in Lists \ {k} : Current(l)' = Current(l)
<1>1. versions[k] \in Seq([Blocks -> Owners]) /\ There(k)
  BY DEF ForeignWrite, ReadInv, TypeOK
<1>2. Current(k) \in [Blocks -> Owners]
  BY <1>1 DEF Current, There
<1>3. ForeignContent(k, e) \in [Blocks -> Owners]
  BY <1>2 DEF ForeignContent, Owners
<1>4. versions' = [versions EXCEPT ![k] = Append(@, ForeignContent(k, e))]
      /\ Current(k)[e] \in {Nobody, Stranger}
  BY DEF ForeignWrite, ForeignContent
<1> QED
  BY <1>1, <1>2, <1>3, <1>4, AppendEffect DEF ReadInv

\* Every step leaves the lists alone, makes one, or changes one.
LEMMA ListSteps ==
  ASSUME ReadInv, [Next]_listVars
  PROVE  \/ UNCHANGED versions
         \/ \E k \in Lists : Created(k) /\ (Create \/ \E call \in late : LandLate(call))
         \/ Modify /\ Call \in Calls /\ Call.op # "create" /\ Justified(Call)
              /\ Accepted(Call) /\ Modified(Call)
         \/ \E call \in late : LandLate(call) /\ call \in Calls /\ call.op # "create"
              /\ Justified(call) /\ Accepted(call) /\ Modified(call)
         \/ \E k \in Lists, e \in Blocks : ForeignWrite(k, e)
<1>1. CASE Modify
  <2>1. pw.pc = "Modify" /\ Call \in Calls /\ Call.op # "create" /\ Justified(Call)
    BY <1>1, CallType DEF Modify, ReadInv, Call, TypeOK
  <2> QED
    BY <1>1, <2>1 DEF Modify
<1>2. ASSUME NEW call \in late, LandLate(call)
      PROVE  \/ call.op = "create" /\ \E k \in Lists : Created(k)
             \/ call \in Calls /\ call.op # "create" /\ Justified(call)
                  /\ Accepted(call) /\ Modified(call)
  BY <1>2 DEF LandLate, ReadInv, TypeOK
<1>3. CASE Create
  BY <1>3 DEF Create
<1>4. CASE UNCHANGED listVars \/ FindByID \/ FindByName \/ GetEntries \/ Save \/ Release
           \/ FallBack \/ Fail \/ Deliver
           \/ \E c \in Clusters : Start(c) \/ Collect(c) \/ RequestDeletion(c) \/ CreateAgain(c)
  BY <1>4 DEF listVars, FindByID, FindByName, GetEntries, Save, Release, FallBack, Fail, Deliver,
              Start, Collect, RequestDeletion, CreateAgain
<1> QED
  BY <1>1, <1>2, <1>3, <1>4 DEF Next, ListWork, ListEnvironment

\* Lists are never lost, only a name of the operator's own comes into use, and a
\* cluster's entry comes and goes only by a call for that cluster.
LEMMA TherePersists ==
  ASSUME ReadInv, [Next]_listVars
  PROVE  /\ \A l \in Lists : There(l) => There(l)'
         /\ HasUserList' = HasUserList
<1>1. \A l \in Lists : There(l) => There(l)'
  BY ListSteps, ModifiedEffect, CreatedEffect, ForeignEffect DEF ReadInv, There
<1>2. UserList \in Lists => There(UserList)' = There(UserList)
  BY ListSteps, ModifiedEffect, CreatedEffect, ForeignEffect DEF ReadInv, There
<1> QED
  BY <1>1, <1>2 DEF HasUserList

-----------------------------------------------------------------------------
(* The worker and the objects.                                             *)

\* What a move of the worker leaves as it is.
LEMMA GotoFields ==
  ASSUME TypeOK, NEW stage, Goto(stage)
  PROVE  pw'.pc = stage /\ pw'.op = pw.op /\ pw'.c = pw.c /\ pw'.list = pw.list /\ pw'.ver = pw.ver
  BY DEF TypeOK, Goto

LEMMA FoundFields ==
  ASSUME TypeOK, NEW l, NEW v, pw' = [pw EXCEPT !.pc = "GetEntries", !.list = l, !.ver = v]
  PROVE  pw'.pc = "GetEntries" /\ pw'.op = pw.op /\ pw'.c = pw.c /\ pw'.list = l /\ pw'.ver = v
  BY DEF TypeOK

LEMMA IdleFields ==
  ASSUME pw' = Idle
  PROVE  pw'.pc = "idle" /\ pw'.op = "add" /\ pw'.c = MC /\ pw'.list = NoList /\ pw'.ver = 0
  BY DEF Idle

LEMMA AfterEntriesValues ==
  ASSUME TypeOK
  PROVE  /\ AfterEntries \in {"idle", "Save", "Release", "Modify"}
         /\ AfterEntries = "Save" => pw.op = "add" /\ Read = pw.c
         /\ AfterEntries = "Release" => pw.op = "remove" /\ Read # pw.c
  BY DEF AfterEntries, TypeOK

\* Where each of the worker's calls leads.
LEMMA StartMove ==
  ASSUME ReadInv, NEW c \in Clusters, Start(c)
  PROVE  /\ pw'.pc = IF cachedID = NoList THEN "FindByName" ELSE "FindByID"
         /\ pw'.c = c /\ pw'.list = cachedID /\ life[c] \in {"live", "deleting"}
         /\ pw'.op = IF life[c] = "live" THEN "add" ELSE "remove"
  BY DEF Start

LEMMA FindByIDMove ==
  ASSUME ReadInv, FindByID
  PROVE  /\ pw.pc = "FindByID" /\ pw'.op = pw.op /\ pw'.c = pw.c /\ pw'.list = pw.list
         /\ \/ There(pw.list) /\ pw'.pc = "GetEntries" /\ pw'.ver = Len(versions[pw.list])
            \/ ~There(pw.list) /\ pw'.pc = "FindByName"
<1>1. CASE There(pw.list)
  BY <1>1, FoundFields DEF FindByID, Found, ReadInv
<1>2. CASE ~There(pw.list)
  BY <1>2, GotoFields DEF FindByID, ReadInv
<1> QED
  BY <1>1, <1>2

LEMMA FindByNameMove ==
  ASSUME ReadInv, FindByName
  PROVE  /\ pw.pc = "FindByName"
         /\ \/ pw'.pc = "Create" /\ Named = {} /\ pw'.op = pw.op /\ pw'.c = pw.c
            \/ /\ pw'.pc = "GetEntries" /\ pw'.list \in Named /\ pw'.ver = Len(versions[pw'.list])
               /\ pw'.op = pw.op /\ pw'.c = pw.c
            \/ pw' = Idle
<1>1. CASE Named = {} /\ Goto("Create")
  BY <1>1, GotoFields DEF FindByName, ReadInv
<1>2. ASSUME NEW l \in Named, Found(l)
      PROVE  pw'.pc = "GetEntries" /\ pw'.list = l /\ pw'.ver = Len(versions[l])
               /\ pw'.op = pw.op /\ pw'.c = pw.c
  BY <1>2, FoundFields DEF Found, ReadInv
<1> QED
  BY <1>1, <1>2 DEF FindByName

LEMMA CreateMove ==
  ASSUME ReadInv, Create
  PROVE  /\ pw.pc = "Create" /\ pw'.pc = "GetEntries" /\ pw'.op = pw.op /\ pw'.c = pw.c
         /\ pw'.list \in Lists /\ Created(pw'.list) /\ pw'.ver = 1
<1>1. PICK l \in Lists : Created(l) /\ pw' = [pw EXCEPT !.pc = "GetEntries", !.list = l, !.ver = 1]
  BY DEF Create
<1>2. pw'.pc = "GetEntries" /\ pw'.op = pw.op /\ pw'.c = pw.c /\ pw'.list = l /\ pw'.ver = 1
  BY <1>1, FoundFields DEF ReadInv
<1> QED
  BY <1>1, <1>2 DEF Create

LEMMA GetEntriesMove ==
  ASSUME ReadInv, GetEntries
  PROVE  /\ pw.pc = "GetEntries"
         /\ \/ pw' = Idle
            \/ /\ pw'.pc \in {"Save", "Release", "Modify"} /\ pw'.pc = AfterEntries
               /\ pw'.op = pw.op /\ pw'.c = pw.c /\ pw'.list = pw.list /\ pw'.ver = pw.ver
  BY GotoFields, AfterEntriesValues DEF GetEntries, ReadInv

LEMMA ModifyMove ==
  ASSUME ReadInv, Modify
  PROVE  /\ pw.pc = "Modify"
         /\ \/ pw' = Idle /\ UNCHANGED versions
            \/ /\ Accepted(Call) /\ Modified(Call)
               /\ pw'.pc = IF pw.op = "add" THEN "Save" ELSE "Release"
               /\ pw'.op = pw.op /\ pw'.c = pw.c /\ pw'.list = pw.list
  BY GotoFields DEF Modify, Refused, ReadInv

\* What is not the worker's doing leaves it where it is.
LEMMA NoMove ==
  ASSUME \/ Deliver \/ (\E call \in late : LandLate(call))
         \/ (\E l \in Lists, d \in Blocks : ForeignWrite(l, d)) \/ UNCHANGED listVars
         \/ \E c \in Clusters : RequestDeletion(c) \/ Collect(c) \/ CreateAgain(c)
  PROVE  UNCHANGED pw
  BY DEF Deliver, LandLate, ForeignWrite, listVars, RequestDeletion, Collect, CreateAgain

LEMMA WorkerInit == Init => WorkerInv
<1> SUFFICES ASSUME Init PROVE WorkerInv
  OBVIOUS
<1>1. life[MC] = "live" /\ pw.pc = "idle"
  BY DEF Init, Idle
<1> QED
  BY <1>1 DEF WorkerInv

LEMMA WorkerStep == ASSUME ReadInv, WorkerInv, [Next]_listVars PROVE WorkerInv'
<1> USE DEF WorkerInv
<1>1. /\ life \in [Clusters -> {"live", "deleting", "released", "gone"}]
      /\ pw.c \in Clusters /\ pw.list \in Lists \cup {NoList} /\ pw.op \in {"add", "remove"}
  BY DEF ReadInv, TypeOK
<1>2. ASSUME NEW c \in Clusters, Start(c) PROVE WorkerInv'
  BY <1>2, StartMove DEF Start
<1>3. CASE FindByID
  BY <1>3, FindByIDMove DEF FindByID
<1>4. CASE FallBack
  BY <1>4, GotoFields DEF FallBack, ReadInv
<1>5. CASE FindByName
  BY <1>5, FindByNameMove, IdleFields DEF FindByName
<1>6. CASE Create
  BY <1>6, CreateMove DEF Create
<1>7. CASE GetEntries
  <2>1. pw.list \in Lists
    BY <1>7 DEF ReadInv, IsVersion, GetEntries
  <2> QED
    BY <1>1, <1>7, <2>1, GetEntriesMove, AfterEntriesValues, IdleFields DEF GetEntries, ReadInv
<1>8. CASE Modify
  <2>1. pw.list \in Lists
    BY <1>8 DEF ReadInv, IsVersion, Modify
  <2> QED
    BY <1>1, <1>8, <2>1, ModifyMove, IdleFields DEF Modify
<1>9. CASE Save \/ Fail
  BY <1>9, IdleFields DEF Save, Fail
<1>10. CASE Release
  <2>1. pw.c # MC
    BY <1>10 DEF Release
  <2> QED
    BY <1>1, <1>10, <2>1, IdleFields DEF Release
<1>11. CASE Deliver \/ (\E call \in late : LandLate(call))
            \/ (\E l \in Lists, d \in Blocks : ForeignWrite(l, d)) \/ UNCHANGED listVars
  BY <1>11 DEF Deliver, LandLate, ForeignWrite, listVars
<1>12. ASSUME NEW c \in Clusters, RequestDeletion(c) \/ Collect(c) \/ CreateAgain(c) PROVE WorkerInv'
  BY <1>1, <1>12 DEF RequestDeletion, Collect, CreateAgain
<1> QED
  BY <1>2, <1>3, <1>4, <1>5, <1>6, <1>7, <1>8, <1>9, <1>10, <1>11, <1>12 DEF Next, ListWork, ListEnvironment

-----------------------------------------------------------------------------
(* How many lists there are.                                               *)

LEMMA NamedEffect ==
  ASSUME ReadInv, [Next]_listVars, IsFiniteSet(Named)
  PROVE  \/ Named' = Named
         \/ /\ IsFiniteSet(Named') /\ Cardinality(Named') = Cardinality(Named) + 1
            /\ Create \/ \E call \in late : LandLate(call)
<1>1. ASSUME NEW k \in Lists, Created(k)
      PROVE  IsFiniteSet(Named') /\ Cardinality(Named') = Cardinality(Named) + 1
  <2>1. k \notin Named /\ Named' = Named \cup {k}
    BY <1>1, CreatedEffect DEF Named, ReadInv
  <2> QED
    BY <2>1, FS_AddElement
<1>2. ASSUME \A l \in Lists : There(l)' = There(l) PROVE Named' = Named
  BY <1>2 DEF Named
<1>3. CASE UNCHANGED versions
  BY <1>2, <1>3 DEF There
<1> QED
  BY <1>1, <1>2, <1>3, ListSteps, ModifiedEffect, ForeignEffect

LEMMA ForkInit == Init => ForkInv
<1> SUFFICES ASSUME Init PROVE ForkInv
  OBVIOUS
<1>1. Named = {}
  BY DEF Init, Named
<1>2. IsFiniteSet(Named) /\ Cardinality(Named) = 0
  BY <1>1, FS_EmptySet
<1> QED
  BY <1>2 DEF Init, ForkInv, ListCount, LedToUserList, Idle

\* The name is looked up before a list is made, so at that point there is none, or
\* only the user's list, which was passed over.
LEMMA LookupFindsNothing ==
  ASSUME ReadInv, ForkInv, pw.pc = "FindByName", Named = {} PROVE ListCount <= astray
<1>1. Cardinality(Named) = 0
  BY FS_EmptySet
<1> QED
  BY <1>1 DEF ForkInv, ListCount, LedToUserList, ReadInv, TypeOK

\* With a list of the user's, everybody is led to it until something goes astray.
LEMMA UserListStep ==
  ASSUME ReadInv, WorkerInv, ForkInv, [Next]_listVars, HasUserList, astray = 0, astray' = 0
  PROVE  LedToUserList'
<1> USE DEF ReadInv, TypeOK, WorkerInv, LedToUserList
<1>1. /\ annotated[MC] = UserList /\ cachedID = UserList /\ UserList \in Lists /\ UserList # NoList
      /\ pw.pc # "idle" => pw.list = UserList /\ pw.pc \notin {"FindByName", "Create"}
  BY DEF ForkInv, HasUserList
<1>2. ASSUME NEW c \in Clusters, Start(c) PROVE LedToUserList'
  BY <1>1, <1>2, StartMove DEF Start
<1>3. CASE FindByID
  BY <1>1, <1>3, FindByIDMove DEF FindByID, HasUserList
<1>4. CASE GetEntries
  BY <1>1, <1>4, GetEntriesMove, IdleFields DEF GetEntries
<1>5. CASE Modify
  BY <1>1, <1>5, ModifyMove, IdleFields DEF Modify
<1>6. CASE Save \/ Release \/ Fail \/ Deliver
  BY <1>1, <1>6, IdleFields DEF Save, Release, Fail, Deliver
<1>7. CASE FindByName \/ Create
  BY <1>1, <1>7 DEF FindByName, Create
<1>8. CASE FallBack \/ \E call \in late : LandLate(call)
  BY <1>8 DEF FallBack, LandLate
<1>9. CASE (\E l \in Lists, d \in Blocks : ForeignWrite(l, d)) \/ UNCHANGED listVars
  BY <1>1, <1>9 DEF ForeignWrite, listVars
<1>10. ASSUME NEW c \in Clusters, RequestDeletion(c) \/ Collect(c) \/ CreateAgain(c) PROVE LedToUserList'
  BY <1>1, <1>10 DEF RequestDeletion, Collect, CreateAgain
<1> QED
  BY <1>2, <1>3, <1>4, <1>5, <1>6, <1>7, <1>8, <1>9, <1>10 DEF Next, ListWork, ListEnvironment

LEMMA AstrayStep ==
  ASSUME ReadInv, [Next]_listVars
  PROVE  /\ astray \in Nat /\ astray' \in {astray, astray + 1}
         /\ (\E call \in late : LandLate(call)) => astray' = astray + 1 /\ UNCHANGED pw
         /\ Create => pw'.pc = "GetEntries" /\ UNCHANGED astray
<1>1. astray \in Nat
  BY DEF ReadInv, TypeOK
<1>2. astray' \in {astray, astray + 1}
  BY DEF Next, ListWork, ListEnvironment, FindByID, FallBack, FindByName, Create, GetEntries, Modify,
         Save, Release, Fail, Deliver, LandLate, ForeignWrite, RequestDeletion, CreateAgain, Collect,
         Start, listVars
<1> QED
  BY <1>1, <1>2 DEF LandLate, Create, ReadInv, TypeOK

\* A list is about to be made only when none of the name was found, or already was.
LEMMA CreateFollowsLookup ==
  ASSUME ReadInv, [Next]_listVars, pw'.pc = "Create"
  PROVE  UNCHANGED pw \/ (pw.pc = "FindByName" /\ Named = {} /\ UNCHANGED <<versions, astray>>)
<1>1. CASE FindByName
  BY <1>1, FindByNameMove, IdleFields DEF FindByName
<1>2. CASE FindByID \/ FallBack
  BY <1>2, FindByIDMove, GotoFields DEF FallBack, ReadInv
<1>3. CASE Create \/ GetEntries \/ Modify
  BY <1>3, CreateMove, GetEntriesMove, ModifyMove, IdleFields
<1>4. CASE Save \/ Release \/ Fail
  BY <1>4, IdleFields DEF Save, Release, Fail
<1>5. ASSUME NEW c \in Clusters, Start(c) PROVE FALSE
  BY <1>5, StartMove
<1>6. CASE Deliver \/ (\E call \in late : LandLate(call))
           \/ (\E l \in Lists, d \in Blocks : ForeignWrite(l, d)) \/ UNCHANGED listVars
           \/ \E c \in Clusters : RequestDeletion(c) \/ Collect(c) \/ CreateAgain(c)
  BY <1>6, NoMove
<1> QED
  BY <1>1, <1>2, <1>3, <1>4, <1>5, <1>6 DEF Next, ListWork, ListEnvironment

LEMMA ForkStep == ASSUME ReadInv, WorkerInv, ForkInv, [Next]_listVars PROVE ForkInv'
<1>1. Cardinality(Named) \in Nat /\ ListCount \in Nat
  BY FS_CardinalityType DEF ForkInv, ListCount
<1>2. IsFiniteSet(Named')
  BY NamedEffect DEF ForkInv
<1>3. HasUserList' => astray' > 0 \/ LedToUserList'
  <2> SUFFICES ASSUME HasUserList', ~(astray' > 0) PROVE LedToUserList'
    OBVIOUS
  <2>1. astray = 0 /\ astray' = 0
    BY AstrayStep
  <2>2. HasUserList
    BY TherePersists
  <2> QED
    BY <2>1, <2>2, UserListStep
<1>4. ListCount' <= 1 + astray' /\ (pw'.pc = "Create" => ListCount' <= astray')
  <2>1. CASE Named' = Named
    <3>1. ListCount' = ListCount
      BY <2>1, TherePersists DEF ListCount
    <3>2. pw'.pc = "Create" => ListCount' <= astray'
      BY <1>1, <3>1, AstrayStep, CreateFollowsLookup, LookupFindsNothing DEF ForkInv
    <3> QED
      BY <1>1, <3>1, <3>2, AstrayStep DEF ForkInv
  <2>2. CASE Cardinality(Named') = Cardinality(Named) + 1 /\ (Create \/ \E call \in late : LandLate(call))
    <3>1. ListCount' = ListCount + 1
      BY <1>1, <2>2, TherePersists DEF ListCount
    <3>2. CASE Create
      <4>1. ListCount <= astray
        BY <3>2 DEF Create, ForkInv
      <4> QED
        BY <1>1, <3>1, <3>2, <4>1, AstrayStep
    <3>3. CASE \E call \in late : LandLate(call)
      BY <1>1, <3>1, <3>3, AstrayStep DEF ForkInv
    <3> QED
      BY <2>2, <3>2, <3>3
  <2> QED
    BY <2>1, <2>2, NamedEffect DEF ForkInv
<1> QED
  BY <1>2, <1>3, <1>4 DEF ForkInv

\* As long as nothing went astray there is one list at most.
LEMMA OneList ==
  ASSUME ReadInv, ForkInv, astray = 0, NEW k \in Lists, NEW l \in Lists, There(k), There(l)
  PROVE  k = l
<1>1. Cardinality(Named) \in Nat
  BY FS_CardinalityType DEF ForkInv
<1>2. CASE HasUserList
  <2>1. Cardinality(Named) = 0
    BY <1>1, <1>2 DEF ForkInv, ListCount
  <2>2. Named = {}
    BY <2>1, FS_EmptySet DEF ForkInv
  <2> QED
    BY <2>2 DEF Named
<1>3. CASE ~HasUserList
  <2>1. k \in Named /\ l \in Named
    BY <1>3 DEF Named, HasUserList
  <2>2. Cardinality(Named) <= 1 /\ Cardinality(Named) # 0
    BY <1>1, <1>3, <2>1, FS_EmptySet DEF ForkInv, ListCount
  <2>3. Cardinality(Named) = 1
    BY <1>1, <2>2
  <2> QED
    BY <2>1, <2>3, FS_Singleton DEF ForkInv
<1> QED
  BY <1>2, <1>3

\* The lists in use are the operator's own and the user's.
LEMMA ForksBounded == ASSUME ReadInv, ForkInv PROVE ForksAreFaults
<1>1. Cardinality(Named) \in Nat /\ astray \in Nat
  BY FS_CardinalityType DEF ForkInv, ReadInv, TypeOK
<1>2. CASE HasUserList
  <2>1. Named \cup InUse \subseteq Named \cup {UserList}
    BY DEF Named, InUse
  <2>2. IsFiniteSet(Named \cup {UserList}) /\ Cardinality(Named \cup {UserList}) <= Cardinality(Named) + 1
    <3>1. IsFiniteSet(Named)
      BY DEF ForkInv
    <3>2. /\ IsFiniteSet(Named \cup {UserList})
          /\ \/ Cardinality(Named \cup {UserList}) = Cardinality(Named)
             \/ Cardinality(Named \cup {UserList}) = Cardinality(Named) + 1
      BY <3>1, FS_AddElement, Zenon
    <3> QED
      BY <1>1, <3>2
  <2>3. Cardinality(Named \cup InUse) \in Nat /\ Cardinality(Named \cup InUse) <= Cardinality(Named \cup {UserList})
    BY <2>1, <2>2, FS_Subset, FS_CardinalityType
  <2>4. Cardinality(Named \cup {UserList}) \in Nat
    BY <2>2, FS_CardinalityType
  <2> QED
    BY <1>1, <1>2, <2>2, <2>3, <2>4 DEF ForkInv, ListCount, ForksAreFaults
<1>3. CASE ~HasUserList
  <2>1. Named \cup InUse = Named
    BY <1>3 DEF Named, InUse, HasUserList
  <2>2. Cardinality(Named) <= 1 + astray
    BY <1>1, <1>3 DEF ForkInv, ListCount
  <2> QED
    BY <2>1, <2>2 DEF ForksAreFaults
<1> QED
  BY <1>2, <1>3

-----------------------------------------------------------------------------
(* What the annotations and the finalizers say of the entries.             *)

LEMMA ReadOfVersion ==
  ASSUME ReadInv, pw.pc \in {"GetEntries", "Modify"}
  PROVE  pw.list \in Lists /\ pw.c \in Clusters /\ There(pw.list)
<1>1. pw.list \in Lists /\ pw.ver \in 1..Len(versions[pw.list]) /\ pw.c \in Clusters
  BY DEF ReadInv, TypeOK, IsVersion
<1>2. versions[pw.list] \in Seq([Blocks -> Owners])
  BY <1>1 DEF ReadInv, TypeOK
<1> QED
  BY <1>1, <1>2 DEF There

\* What a change the worker makes does to the entries.
LEMMA ModifyEntries ==
  ASSUME ReadInv, Modify, Accepted(Call), Modified(Call),
         NEW c0 \in Clusters, NEW l0 \in Lists, pw.c = c0, pw.list = l0
  PROVE  /\ \A l \in Lists : There(l)' = There(l)
         /\ pw.op = "add" => ~HasEntryIn(c0, l0) /\ HasEntryIn(c0, l0)'
         /\ pw.op = "remove" => ~HasEntryIn(c0, l0)'
         /\ \A c \in Clusters \ {c0}, l \in Lists : HasEntryIn(c, l)' = HasEntryIn(c, l)
<1>1. PICK call \in Calls : /\ call = Call /\ call.op = pw.op /\ call.op # "create" /\ Justified(call)
                            /\ call.c = c0 /\ call.list = l0 /\ Accepted(call) /\ Modified(call)
  <2>1. /\ Call.op = pw.op /\ Call.op # "create" /\ Call.c = c0 /\ Call.list = l0
    BY DEF Modify, ReadInv, Call, TypeOK
  <2> QED
    BY <2>1, CallType DEF Modify, ReadInv
<1>2. /\ There(l0) /\ Current(l0) \in [Blocks -> Owners] /\ Current(l0)' = Changed(call)
      /\ \A l \in Lists : There(l)' = There(l)
      /\ \A l \in Lists \ {l0} : Current(l)' = Current(l)
  BY <1>1, ModifiedEffect
<1>3. Current(l0)[Cidr[c0]] = IF call.op = "add" THEN Nobody ELSE c0
  BY <1>1 DEF Justified, Accepted, Current
<1>4. Cidr[c0] \in Blocks
  BY BlockOfCluster
<1>5. /\ Changed(call)[Cidr[c0]] = IF call.op = "add" THEN c0 ELSE Nobody
      /\ \A d \in Blocks \ {Cidr[c0]} : Changed(call)[d] = Current(l0)[d]
  BY <1>1, <1>2, <1>4 DEF Changed
<1>6. ASSUME NEW c \in Clusters, NEW l \in Lists, c # c0
      PROVE  HasEntryIn(c, l)' = HasEntryIn(c, l)
  <2>1. CASE l # l0
    BY <1>2, <2>1 DEF HasEntryIn
  <2>2. CASE l = l0 /\ Cidr[c] = Cidr[c0]
    <3>1. Current(l0)[Cidr[c]] # c /\ Current(l0)'[Cidr[c]] # c
      BY <1>2, <1>3, <1>5, <1>6, <2>2
    <3> QED
      BY <2>2, <3>1 DEF HasEntryIn
  <2>3. CASE l = l0 /\ Cidr[c] # Cidr[c0]
    <3>1. Current(l0)'[Cidr[c]] = Current(l0)[Cidr[c]]
      BY <1>2, <1>5, <2>3, BlockOfCluster
    <3> QED
      BY <1>2, <2>3, <3>1 DEF HasEntryIn
  <2> QED
    BY <2>1, <2>2, <2>3
<1>7. /\ HasEntryIn(c0, l0) <=> call.op # "add"
      /\ HasEntryIn(c0, l0)' <=> call.op = "add"
  BY <1>1, <1>2, <1>3, <1>5 DEF HasEntryIn
<1>8. call.op \in {"add", "remove"}
  BY <1>1 DEF Calls
<1> QED
  BY <1>1, <1>2, <1>6, <1>7, <1>8

\* Other than by a change the worker makes for it or a late one, a cluster's
\* entries neither come nor go.
LEMMA EntriesKept ==
  ASSUME ReadInv, [Next]_listVars, ~\E call \in late : LandLate(call),
         NEW c \in Clusters, NEW l \in Lists, ~(Modify /\ c = pw.c)
  PROVE  HasEntryIn(c, l)' = HasEntryIn(c, l)
<1>1. CASE UNCHANGED versions
  BY <1>1 DEF HasEntryIn, There, Current
<1>2. ASSUME NEW k \in Lists, Created(k) PROVE HasEntryIn(c, l)' = HasEntryIn(c, l)
  <2>1. Empty[Cidr[c]] = Nobody
    BY BlockOfCluster DEF Empty
  <2>2. /\ ~There(k) /\ Current(k)' = Empty
        /\ \A m \in Lists \ {k} : There(m)' = There(m) /\ Current(m)' = Current(m)
    BY <1>2, CreatedEffect DEF ReadInv
  <2> QED
    BY <2>1, <2>2 DEF HasEntryIn
<1>3. CASE Modify /\ Accepted(Call) /\ Modified(Call)
  <2>1. pw.list \in Lists /\ pw.c \in Clusters /\ c # pw.c
    BY <1>3, ReadOfVersion DEF Modify
  <2> QED
    BY <1>3, <2>1, ModifyEntries
<1>4. ASSUME NEW k \in Lists, NEW e \in Blocks, ForeignWrite(k, e)
      PROVE  HasEntryIn(c, l)' = HasEntryIn(c, l)
  <2>1. /\ Current(k) \in [Blocks -> Owners] /\ Current(k)[e] \in {Nobody, Stranger}
        /\ Current(k)' = ForeignContent(k, e)
        /\ \A m \in Lists : There(m)' = There(m)
        /\ \A m \in Lists \ {k} : Current(m)' = Current(m)
    BY <1>4, ForeignEffect
  <2>2. Cidr[c] \in Blocks
    BY BlockOfCluster
  <2>3. Current(k)'[Cidr[c]] = c <=> Current(k)[Cidr[c]] = c
    BY <2>1, <2>2 DEF ForeignContent
  <2> QED
    BY <2>1, <2>3 DEF HasEntryIn
<1> QED
  BY <1>1, <1>2, <1>3, <1>4, ListSteps

LEMMA EntryInit == Init => EntryInv
<1> SUFFICES ASSUME Init PROVE EntryInv
  OBVIOUS
<1>1. pw.pc = "idle"
  BY DEF Init, Idle
<1>2. NothingLeftBehind
  BY DEF Init, NothingLeftBehind
<1>3. AnnotatedIsListed
  BY DEF Init, AnnotatedIsListed
<1> QED
  BY <1>1, <1>2, <1>3 DEF EntryInv, ReadIsCurrent

\* From here on: a step of a system in which nothing went astray.
Settled == ReadInv /\ WorkerInv /\ ForkInv /\ EntryInv /\ [Next]_listVars /\ astray = 0 /\ astray' = 0

LEMMA SettledSteps ==
  ASSUME Settled
  PROVE  /\ ~(\E call \in late : LandLate(call)) /\ ~FallBack
         /\ ReadIsCurrent /\ NothingLeftBehind /\ AnnotatedIsListed
         /\ pw.pc = "Save" => HasEntryIn(pw.c, pw.list)
         /\ pw.pc = "Release" => \A l \in Lists : ~HasEntryIn(pw.c, l)
  BY DEF Settled, EntryInv, LandLate, FallBack

\* What the worker decides on is what the list says of its cluster.
LEMMA DecidedOnCurrent ==
  ASSUME Settled, pw.pc = "GetEntries"
  PROVE  /\ AfterEntries = "Save" => HasEntryIn(pw.c, pw.list)
         /\ AfterEntries = "Release" => \A l \in Lists : ~HasEntryIn(pw.c, l)
<1>1. ReadInv /\ ForkInv /\ TypeOK /\ astray = 0 /\ ReadIsCurrent
  BY SettledSteps DEF Settled, ReadInv
<1>2. pw.list \in Lists /\ pw.c \in Clusters /\ There(pw.list)
  BY <1>1, ReadOfVersion
<1>3. Current(pw.list)[Cidr[pw.c]] = pw.c <=> Read = pw.c
  BY <1>1, <1>2 DEF ReadIsCurrent
<1>4. ASSUME NEW l \in Lists, Read # pw.c PROVE ~HasEntryIn(pw.c, l)
  <2>1. There(l) => l = pw.list
    BY <1>1, <1>2, OneList
  <2> QED
    BY <1>3, <1>4, <2>1 DEF HasEntryIn
<1> QED
  BY <1>1, <1>2, <1>3, <1>4, AfterEntriesValues DEF HasEntryIn

LEMMA ReadCurrentStep == Settled => ReadIsCurrent'
<1> SUFFICES ASSUME Settled, pw'.pc \in {"GetEntries", "Modify"}
             PROVE  ReadIsCurrent'
  BY DEF ReadIsCurrent
<1>1. ReadInv /\ [Next]_listVars /\ ReadIsCurrent
  BY SettledSteps DEF Settled
<1>2. CASE FindByID \/ FindByName
  <2>1. pw'.ver = Len(versions[pw'.list]) /\ versions' = versions
    BY <1>1, <1>2, FindByIDMove, FindByNameMove, IdleFields DEF FindByID, FindByName
  <2> QED
    BY <2>1 DEF ReadIsCurrent, Read, Current
<1>3. CASE Create
  <2>1. pw'.list \in Lists /\ Created(pw'.list) /\ pw'.ver = 1
    BY <1>1, <1>3, CreateMove
  <2>2. versions'[pw'.list] = <<Empty>>
    BY <1>1, <2>1 DEF Created, ReadInv, TypeOK
  <2>3. Len(versions'[pw'.list]) = 1
    BY <2>2
  <2> QED
    BY <2>1, <2>3 DEF ReadIsCurrent, Read, Current
<1>4. CASE GetEntries
  <2>1. pw.pc = "GetEntries" /\ pw'.c = pw.c /\ pw'.list = pw.list /\ pw'.ver = pw.ver
    BY <1>1, <1>4, GetEntriesMove, IdleFields
  <2>2. versions' = versions
    BY <1>4 DEF GetEntries
  <2> QED
    BY <1>1, <2>1, <2>2 DEF ReadIsCurrent, Read, Current
<1>5. ASSUME NEW k \in Lists, NEW e \in Blocks, ForeignWrite(k, e)
      PROVE  ReadIsCurrent'
  <2>1. pw' = pw
    BY <1>5 DEF ForeignWrite
  <2>2. pw.list \in Lists /\ pw.c \in Clusters /\ Cidr[pw.c] \in Blocks
    BY <1>1, <2>1, ReadOfVersion, BlockOfCluster
  <2>3. /\ Current(k) \in [Blocks -> Owners] /\ Current(k)[e] \in {Nobody, Stranger}
        /\ Current(k)' = ForeignContent(k, e)
        /\ \A m \in Lists \ {k} : Current(m)' = Current(m)
    BY <1>1, <1>5, ForeignEffect
  <2>4. versions' = [versions EXCEPT ![k] = Append(@, ForeignContent(k, e))]
        /\ ForeignContent(k, e) \in [Blocks -> Owners]
    BY <1>5, <2>3 DEF ForeignWrite, ForeignContent, Owners
  <2>5. Read' = Read
    <3>1. \A l \in Lists : \A v \in 1..Len(versions[l]) :
            v \in 1..Len(versions'[l]) /\ versions'[l][v] = versions[l][v]
      BY <1>1, <2>4, VersionsStay DEF ReadInv
    <3>2. pw.ver \in 1..Len(versions[pw.list])
      BY <1>1, <2>1 DEF ReadInv, IsVersion
    <3> QED
      BY <2>1, <2>2, <3>1, <3>2 DEF Read
  <2>6. CASE k = pw.list /\ e = Cidr[pw.c]
    <3>1. Current(k)'[e] \in {Nobody, Stranger}
      BY <2>3 DEF ForeignContent
    <3>2. Read \notin Clusters
      BY <1>1, <2>1, <2>3, <2>6 DEF ReadIsCurrent
    <3> QED
      BY <2>1, <2>5, <2>6, <3>1, <3>2 DEF ReadIsCurrent
  <2>7. CASE ~(k = pw.list /\ e = Cidr[pw.c])
    <3>1. PICK l \in Lists, b \in Blocks : l = pw.list /\ b = Cidr[pw.c]
      BY <2>2
    <3>2. Current(l)'[b] = Current(l)[b]
      BY <2>3, <2>7, <3>1 DEF ForeignContent
    <3> QED
      BY <1>1, <2>1, <2>5, <3>1, <3>2 DEF ReadIsCurrent
  <2> QED
    BY <2>6, <2>7
<1>6. CASE Deliver \/ UNCHANGED listVars \/ \E c \in Clusters : RequestDeletion(c) \/ Collect(c) \/ CreateAgain(c)
  <2>1. UNCHANGED <<pw, versions>>
    BY <1>6 DEF Deliver, listVars, RequestDeletion, Collect, CreateAgain
  <2> QED
    BY <1>1, <2>1 DEF ReadIsCurrent, Read, Current
<1>7. CASE Modify \/ \E c \in Clusters : Start(c)
  BY <1>1, <1>7, ModifyMove, StartMove, IdleFields
<1>8. CASE Save \/ Release \/ Fail
  BY <1>8, IdleFields DEF Save, Release, Fail
<1> QED
  BY <1>1, <1>2, <1>3, <1>4, <1>5, <1>6, <1>7, <1>8, SettledSteps DEF Next, ListWork, ListEnvironment

LEMMA DecisionStep ==
  Settled => /\ (pw'.pc = "Save" => HasEntryIn(pw.c, pw.list)')
             /\ (pw'.pc = "Release" => \A l \in Lists : ~HasEntryIn(pw.c, l)')
<1> SUFFICES ASSUME Settled, pw'.pc \in {"Save", "Release"}
             PROVE  /\ (pw'.pc = "Save" => HasEntryIn(pw.c, pw.list)')
                    /\ (pw'.pc = "Release" => \A l \in Lists : ~HasEntryIn(pw.c, l)')
  OBVIOUS
<1>1. ReadInv /\ WorkerInv /\ ForkInv /\ [Next]_listVars /\ astray = 0 /\ TypeOK
  BY DEF Settled, ReadInv
<1>2. CASE GetEntries
  <2>1. pw.pc = "GetEntries" /\ pw'.pc = AfterEntries /\ pw'.c = pw.c /\ pw'.list = pw.list
    BY <1>1, <1>2, GetEntriesMove, IdleFields
  <2>2. UNCHANGED versions
    BY <1>2 DEF GetEntries
  <2> QED
    BY <2>1, <2>2, DecidedOnCurrent DEF HasEntryIn, There, Current
<1>3. CASE Modify
  <2>1. /\ Accepted(Call) /\ Modified(Call) /\ pw'.c = pw.c /\ pw'.list = pw.list /\ pw.pc = "Modify"
        /\ pw'.pc = IF pw.op = "add" THEN "Save" ELSE "Release"
    BY <1>1, <1>3, ModifyMove, IdleFields
  <2>2. PICK c0 \in Clusters, l0 \in Lists : c0 = pw.c /\ l0 = pw.list
    BY <1>1, <2>1, ReadOfVersion
  <2>3. /\ \A l \in Lists : There(l)' = There(l)
        /\ pw.op = "add" => HasEntryIn(c0, l0)'
        /\ pw.op = "remove" => ~HasEntryIn(c0, l0)'
    BY <1>1, <1>3, <2>1, <2>2, ModifyEntries
  <2>4. \A l \in Lists : There(l) => l = l0
    BY <1>1, <2>1, <2>2, ReadOfVersion, OneList
  <2>5. pw.op \in {"add", "remove"}
    BY <1>1 DEF TypeOK
  <2>6. pw.op = "remove" => \A l \in Lists : ~HasEntryIn(c0, l)'
    BY <2>3, <2>4 DEF HasEntryIn
  <2> QED
    BY <2>1, <2>2, <2>3, <2>5, <2>6
<1>4. CASE UNCHANGED pw
  <2>1. ~Modify /\ pw.c \in Clusters
    BY <1>1, <1>4 DEF Modify, TypeOK
  <2>2. \A l \in Lists : HasEntryIn(pw.c, l)' = HasEntryIn(pw.c, l)
    BY <1>1, <2>1, SettledSteps, EntriesKept, <1>4
  <2>3. pw.pc = "Save" => pw.list \in Lists
    BY <1>1 DEF WorkerInv
  <2> QED
    BY <1>4, <2>2, <2>3, SettledSteps
<1>5. CASE FindByID \/ FindByName \/ Create \/ \E c \in Clusters : Start(c)
  BY <1>1, <1>5, FindByIDMove, FindByNameMove, CreateMove, StartMove, IdleFields
<1>6. CASE Save \/ Release \/ Fail
  BY <1>6, IdleFields DEF Save, Release, Fail
<1> QED
  BY <1>1, <1>2, <1>3, <1>4, <1>5, <1>6, NoMove, SettledSteps DEF Next, ListWork, ListEnvironment
\* What a cluster says of itself is written by few.
LEMMA ClusterWrites ==
  ASSUME [Next]_listVars
  PROVE  \/ Save \/ Release \/ UNCHANGED <<life, annotated>>
         \/ \E d \in Clusters : RequestDeletion(d) \/ Collect(d) \/ CreateAgain(d)
BY DEF Next, ListWork, ListEnvironment, FindByID, FallBack, FindByName, Create, GetEntries, Modify,
   Fail, Deliver, LandLate, ForeignWrite, Start, listVars

\* A finalizer goes when there is nothing of the cluster left to remove, and no entry
\* of a released cluster comes back.
LEMMA LeftBehindStep == Settled => NothingLeftBehind'
<1> SUFFICES ASSUME Settled, NEW c \in Clusters, NEW l \in Lists,
                    life'[c] \in {"released", "gone"}, HasEntryIn(c, l)'
             PROVE  FALSE
  BY DEF NothingLeftBehind
<1>1. ReadInv /\ WorkerInv /\ [Next]_listVars /\ astray = 0 /\ TypeOK
  BY DEF Settled, ReadInv
<1>2. CASE life[c] \in {"released", "gone"}
  <2>1. ~HasEntryIn(c, l)
    BY <1>1, <1>2, SettledSteps DEF NothingLeftBehind
  <2>2. ~(Modify /\ c = pw.c)
    BY <1>1, <1>2 DEF WorkerInv, Modify
  <2> QED
    BY <1>1, <2>1, <2>2, EntriesKept, SettledSteps
<1>3. CASE life[c] \notin {"released", "gone"}
  <2>1. Release /\ c = pw.c
    <3>1. life' # life
      BY <1>3
    <3>2. Release \/ \E d \in Clusters : RequestDeletion(d) \/ Collect(d) \/ CreateAgain(d)
      BY <1>1, <3>1, ClusterWrites DEF Save
    <3>3. life \in [Clusters -> {"live", "deleting", "released", "gone"}]
      BY <1>1 DEF TypeOK
    <3>4. ASSUME NEW d \in Clusters, RequestDeletion(d) \/ Collect(d) \/ CreateAgain(d) PROVE FALSE
      BY <1>3, <3>3, <3>4 DEF RequestDeletion, Collect, CreateAgain
    <3>5. Release => c = pw.c
      BY <1>3, <3>3 DEF Release
    <3> QED
      BY <3>2, <3>4, <3>5
  <2>2. pw.pc = "Release" /\ UNCHANGED versions
    BY <2>1 DEF Release
  <2>3. ~HasEntryIn(c, l)
    BY <2>1, <2>2, SettledSteps
  <2> QED
    BY <2>2, <2>3 DEF HasEntryIn, There, Current
<1> QED
  BY <1>2, <1>3

\* A cluster's annotation names a list after its entry was seen or put there, and the
\* entry of a live cluster stays.
LEMMA AnnotatedStep == Settled => AnnotatedIsListed'
<1> SUFFICES ASSUME Settled, NEW c \in Clusters \ {MC}, NEW k \in Lists,
                    life'[c] = "live", annotated'[c] = k
             PROVE  HasEntryIn(c, k)'
  <2>1. Settled => TypeOK'
    BY NextKeepsReads DEF Settled, ReadInv
  <2> QED
    BY <2>1 DEF AnnotatedIsListed, TypeOK
<1>1. ReadInv /\ WorkerInv /\ ForkInv /\ [Next]_listVars /\ astray = 0 /\ TypeOK
  BY DEF Settled, ReadInv
<1>2. \/ life[c] = "live" /\ annotated'[c] = annotated[c]
      \/ Save /\ c = pw.c
  <2>1. /\ life \in [Clusters -> {"live", "deleting", "released", "gone"}]
        /\ annotated \in [Clusters -> Lists \cup {NoList}] /\ NoList \notin Lists
    BY <1>1 DEF TypeOK
  <2>2. CASE Save
    BY <2>1, <2>2 DEF Save
  <2>3. CASE Release
    BY <2>1, <2>3 DEF Release
  <2>4. ASSUME NEW d \in Clusters, RequestDeletion(d) \/ Collect(d) \/ CreateAgain(d)
        PROVE  life[c] = "live" /\ annotated'[c] = annotated[c]
    BY <2>1, <2>4 DEF RequestDeletion, Collect, CreateAgain
  <2> QED
    BY <1>1, <2>2, <2>3, <2>4, ClusterWrites
<1>3. CASE life[c] = "live" /\ annotated'[c] = annotated[c]
  <2>1. HasEntryIn(c, k)
    BY <1>1, <1>3, SettledSteps DEF AnnotatedIsListed
  <2>2. CASE Modify /\ c = pw.c
    <3>1. pw.pc = "Modify" /\ pw.list \in Lists /\ There(pw.list)
      BY <1>1, <2>2, ReadOfVersion DEF Modify
    <3>2. k = pw.list
      BY <1>1, <2>1, <3>1, OneList DEF HasEntryIn
    <3>3. pw.op = "add"
      BY <1>1, <1>3, <2>2, <3>1 DEF WorkerInv, TypeOK
    <3>4. CASE UNCHANGED versions
      BY <2>1, <3>4 DEF HasEntryIn, There, Current
    <3>5. CASE Accepted(Call) /\ Modified(Call)
      BY <1>1, <2>2, <3>2, <3>3, <3>5, ModifyEntries
    <3> QED
      BY <1>1, <2>2, <3>4, <3>5, ModifyMove
  <2>3. CASE ~(Modify /\ c = pw.c)
    BY <1>1, <2>1, <2>3, EntriesKept, SettledSteps
  <2> QED
    BY <2>2, <2>3
<1>4. CASE Save /\ c = pw.c
  <2>1. pw.list = k /\ HasEntryIn(c, k) /\ UNCHANGED versions
    BY <1>1, <1>4, SettledSteps DEF Save, TypeOK
  <2> QED
    BY <2>1 DEF HasEntryIn, There, Current
<1> QED
  BY <1>2, <1>3, <1>4

LEMMA EntryStep ==
  ASSUME ReadInv, WorkerInv, ForkInv, EntryInv, [Next]_listVars PROVE EntryInv'
<1>1. astray' = 0 => Settled
  BY AstrayStep DEF Settled
<1> QED
  BY <1>1, ReadCurrentStep, DecisionStep, LeftBehindStep, AnnotatedStep DEF EntryInv

-----------------------------------------------------------------------------
(* The theorems.                                                           *)

LEMMA ListInvInit == Init => ListInv
  BY TypeInit, WorkerInit, ForkInit, EntryInit DEF ListInv

LEMMA ListInvStep == ListInv /\ [Next]_listVars => ListInv'
  BY NextKeepsReads, WorkerStep, ForkStep, EntryStep DEF ListInv

\* The parts of the invariant hold together in every state the prefix list and its
\* users can reach.
THEOREM ListInvariant == Spec => []ListInv
  BY ListInvInit, ListInvStep, PTL DEF Spec

\* The clusters share one list: every further one takes a failure of the look-up, or a
\* call that landed after its caller gave up (getOrCreatePrefixList looks the name up
\* before it creates, and one worker at a time does so).
THEOREM OneListWithoutFaults == Spec => []ForksAreFaults
<1>1. ListInv => ForksAreFaults
  BY ForksBounded DEF ListInv
<1> QED
  BY <1>1, ListInvariant, PTL

\* While nothing went astray, a cluster whose finalizer was removed has no entry in any
\* list, whatever calls failed before and however the list changed meanwhile
\* (removeFromPrefixList before the finalizer in reconcileDelete).
THEOREM ReleasedLeavesNothing == Spec => []NothingLeftBehind
<1>1. ListInv => NothingLeftBehind
  BY DEF ListInv, EntryInv, NothingLeftBehind, ReadInv, TypeOK
<1> QED
  BY <1>1, ListInvariant, PTL

\* While nothing went astray, the list that a live cluster's annotation names holds its
\* entry (addToPrefixList before the annotation is saved).
THEOREM AnnotationTellsTheTruth == Spec => []AnnotatedIsListed
<1>1. ListInv => AnnotatedIsListed
  BY DEF ListInv, EntryInv, AnnotatedIsListed, ReadInv, TypeOK
<1> QED
  BY <1>1, ListInvariant, PTL
=============================================================================
