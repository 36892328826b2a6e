---------------------------- MODULE PrefixListProofs ---------------------------
(***************************************************************************)
(* For any clusters, lists, blocks and bounds: entries keep their owners.  *)
(* The invariant says what the worker, and a call it gave up, know of the  *)
(* version they read; a version never changes, and AWS accepts a change of *)
(* the last one only, so what they know is still true when it is made.     *)
(***************************************************************************)
EXTENDS PrefixListInv, TLAPS

USE PrefixListAssumption

LEMMA BlockOfCluster == ASSUME NEW c \in Clusters PROVE Cidr[c] \in Blocks
  BY DEF Blocks

\* A change is again a content: the prefix list is a table from blocks to owners.
LEMMA ChangedType ==
  ASSUME TypeOK, NEW call \in Calls, call.op # "create", IsVersion(call.list, call.ver)
  PROVE  Changed(call) \in [Blocks -> Owners]
<1>1. call.list \in Lists /\ call.c \in Clusters
  BY DEF Calls, IsVersion
<1>2. versions[call.list] \in Seq([Blocks -> Owners]) /\ Len(versions[call.list]) \in 1..Len(versions[call.list])
  BY <1>1 DEF TypeOK, IsVersion
<1>3. Current(call.list) \in [Blocks -> Owners]
  BY <1>2 DEF Current
<1> QED
  BY <1>1, <1>3 DEF Changed, Owners

\* What was read stays where it was read when versions are added and lists made.
LEMMA StillJustified ==
  ASSUME TypeOK, NEW call \in Calls, Justified(call),
         \A l \in Lists : \A v \in 1..Len(versions[l]) :
           v \in 1..Len(versions'[l]) /\ versions'[l][v] = versions[l][v]
  PROVE  Justified(call)'
  BY DEF Justified, IsVersion

LEMMA VersionsStay ==
  ASSUME TypeOK, NEW l0 \in Lists, NEW content \in [Blocks -> Owners],
         versions' = [versions EXCEPT ![l0] = Append(@, content)]
  PROVE  /\ versions' \in [Lists -> Seq([Blocks -> Owners])]
         /\ \A l \in Lists : \A v \in 1..Len(versions[l]) :
              v \in 1..Len(versions'[l]) /\ versions'[l][v] = versions[l][v]
<1>1. versions \in [Lists -> Seq([Blocks -> Owners])]
  BY DEF TypeOK
<1>2. versions' \in [Lists -> Seq([Blocks -> Owners])]
  BY <1>1
<1>3. ASSUME NEW l \in Lists, NEW v \in 1..Len(versions[l])
      PROVE  v \in 1..Len(versions'[l]) /\ versions'[l][v] = versions[l][v]
  <2>1. CASE l = l0
    <3>1. versions'[l] = Append(versions[l], content) /\ versions[l] \in Seq([Blocks -> Owners])
      BY <1>1, <2>1
    <3> QED
      BY <3>1
  <2>2. CASE l # l0
    BY <1>1, <2>2
  <2> QED
    BY <2>1, <2>2
<1> QED
  BY <1>2, <1>3

LEMMA NewListStays ==
  ASSUME TypeOK, NEW l0 \in Lists, Created(l0)
  PROVE  /\ versions' \in [Lists -> Seq([Blocks -> Owners])] /\ Len(versions'[l0]) = 1
         /\ \A l \in Lists : \A v \in 1..Len(versions[l]) :
              v \in 1..Len(versions'[l]) /\ versions'[l][v] = versions[l][v]
<1>1. versions \in [Lists -> Seq([Blocks -> Owners])] /\ versions[l0] = <<>>
  BY DEF TypeOK, Created, There
<1>2. Empty \in [Blocks -> Owners]
  BY DEF Empty, Owners
<1>3. versions'[l0] = <<Empty>> /\ Len(versions'[l0]) = 1 /\ \A l \in Lists : l # l0 => versions'[l] = versions[l]
  BY <1>1 DEF Created
<1>4. versions' \in [Lists -> Seq([Blocks -> Owners])]
  BY <1>1, <1>2 DEF Created
<1>5. Len(versions[l0]) = 0
  BY <1>1
<1> QED
  BY <1>3, <1>4, <1>5

\* Steps that change no version leave every justification as it is.
LEMMA UntouchedJustified ==
  ASSUME NEW call, Justified(call), UNCHANGED versions PROVE Justified(call)'
  BY DEF Justified, IsVersion

LEMMA TypeInit == Init => ReadInv
<1> SUFFICES ASSUME Init PROVE ReadInv
  OBVIOUS
<1>1. Empty \in [Blocks -> Owners]
  BY DEF Empty, Owners
<1>2. versions \in [Lists -> Seq([Blocks -> Owners])]
  <2>1. <<>> \in Seq([Blocks -> Owners]) /\ <<Empty>> \in Seq([Blocks -> Owners])
    BY <1>1
  <2>2. versions \in [Lists -> {<<>>, <<Empty>>}]
    BY DEF Init
  <2> QED
    BY <2>1, <2>2
<1>3. TypeOK
  BY <1>2 DEF Init, TypeOK, Idle, Stages
<1> QED
  BY <1>3 DEF Init, ReadInv, Idle

\* Steps of the worker that only read.
LEMMA ReadStep ==
  ASSUME ReadInv,
         \/ \E c \in Clusters : Start(c)
         \/ FindByID \/ FallBack \/ FindByName \/ GetEntries \/ Save \/ Release
  PROVE  ReadInv'
<1> USE DEF ReadInv, TypeOK, Stages, IsVersion, bounds
<1>1. ASSUME NEW c \in Clusters, Start(c) PROVE ReadInv'
  BY <1>1, UntouchedJustified DEF Start
<1>2. ASSUME NEW l \in Lists, There(l), Found(l), UNCHANGED <<versions, annotated, cachedID, life, late, astray, bounds>>
      PROVE  ReadInv'
  <2>1. Len(versions[l]) \in 1..Len(versions[l])
    BY <1>2 DEF There
  <2>2. pw' = [pw EXCEPT !.pc = "GetEntries", !.list = l, !.ver = Len(versions[l])]
    BY <1>2 DEF Found
  <2>3. Len(versions[l]) \in Nat
    BY <1>2
  <2>4. /\ pw' \in [pc: Stages, op: {"add", "remove"}, c: Clusters, list: Lists \cup {NoList}, ver: Nat]
        /\ pw'.pc = "GetEntries" /\ pw'.list = l /\ pw'.ver = Len(versions[l])
    BY <2>2, <2>3
  <2>5. versions' = versions /\ IsVersion(pw.list, pw.ver)'
    BY <1>2, <2>1, <2>4
  <2> QED
    BY <1>2, <2>4, <2>5, UntouchedJustified
<1>3. ASSUME NEW p \in {"FindByName", "Create", "Save", "Release"}, Goto(p),
             UNCHANGED <<versions, annotated, cachedID, life, late>>, astray' \in Nat, faults' \in Nat,
             UNCHANGED <<foreign, lives>>
      PROVE  ReadInv'
  BY <1>3, UntouchedJustified DEF Goto
<1>4. ASSUME pw' = Idle, UNCHANGED <<versions, cachedID, late, astray, bounds>>,
             life' \in [Clusters -> {"live", "deleting", "released", "gone"}],
             annotated' \in [Clusters -> Lists \cup {NoList}]
      PROVE  ReadInv'
  BY <1>4, UntouchedJustified DEF Idle
<1>5. CASE FindByID
  <2>1. CASE There(pw.list)
    BY <1>5, <1>2, <2>1 DEF FindByID
  <2>2. CASE ~There(pw.list)
    BY <1>5, <1>3, <2>2 DEF FindByID
  <2> QED
    BY <2>1, <2>2
<1>6. CASE FallBack
  BY <1>6, <1>3 DEF FallBack
<1>7. CASE FindByName
  BY <1>7, <1>2, <1>3, <1>4 DEF FindByName, Named
<1>8. CASE GetEntries
  <2>1. AfterEntries \in {"Save", "idle", "Release", "Modify"}
    BY DEF AfterEntries
  <2>2. CASE AfterEntries = "Modify"
    <3>1. pw' = [pw EXCEPT !.pc = "Modify"] /\ UNCHANGED <<versions, annotated, cachedID, life, late, astray, bounds>>
      BY <1>8, <2>2 DEF GetEntries, Goto
    <3>2. Read = IF pw.op = "add" THEN Nobody ELSE pw.c
      BY <2>2 DEF AfterEntries
    <3>3. Justified(Call)'
      BY <1>8, <3>1, <3>2 DEF Justified, Call, Read, GetEntries
    <3> QED
      BY <1>8, <3>1, <3>3, UntouchedJustified DEF GetEntries
  <2>3. CASE AfterEntries \in {"Save", "Release"}
    BY <1>8, <1>3, <2>3 DEF GetEntries
  <2>4. CASE AfterEntries = "idle"
    BY <1>8, <1>4, <2>4 DEF GetEntries
  <2> QED
    BY <2>1, <2>2, <2>3, <2>4
<1>9. CASE Save
  BY <1>9, <1>4 DEF Save
<1>10. CASE Release
  BY <1>10, <1>4 DEF Release
<1> QED
  BY <1>1, <1>5, <1>6, <1>7, <1>8, <1>9, <1>10

\* A list is made or a version added, by the worker or by anyone else: whatever
\* was known of earlier versions is still so.
LEMMA WriteKeepsReads ==
  ASSUME ReadInv,
         versions' \in [Lists -> Seq([Blocks -> Owners])],
         \A l \in Lists : \A v \in 1..Len(versions[l]) :
           v \in 1..Len(versions'[l]) /\ versions'[l][v] = versions[l][v],
         UNCHANGED <<annotated, cachedID, life>>, late' \subseteq late, astray' \in Nat,
         faults' \in Nat, foreign' \in Nat, lives' \in Nat,
         \/ UNCHANGED pw \/ pw' = Idle
         \/ \E p \in {"Save", "Release"} : Goto(p)
  PROVE  ReadInv'
<1>0. pw' \in [pc: Stages, op: {"add", "remove"}, c: Clusters, list: Lists \cup {NoList}, ver: Nat]
  <2>1. CASE UNCHANGED pw
    BY <2>1 DEF ReadInv, TypeOK
  <2>2. CASE pw' = Idle
    BY <2>2 DEF Idle, Stages
  <2>3. CASE \E p \in {"Save", "Release"} : Goto(p)
    BY <2>3 DEF ReadInv, TypeOK, Goto, Stages
  <2> QED
    BY <2>1, <2>2, <2>3
<1>1. TypeOK'
  BY <1>0 DEF ReadInv, TypeOK
<1>2. ASSUME NEW call \in late', call.op # "create" PROVE Justified(call)'
  BY <1>2, StillJustified DEF ReadInv, TypeOK
<1>3. CASE UNCHANGED pw
  <2>1. ASSUME pw.pc \in {"GetEntries", "Modify"} PROVE IsVersion(pw.list, pw.ver)'
    BY <1>3, <2>1 DEF ReadInv, IsVersion
  <2>2. ASSUME pw.pc = "Modify" PROVE Justified(Call)'
    <3>1. Call \in Calls /\ Call' = Call
      BY <1>3, <2>2 DEF ReadInv, TypeOK, Call, Calls
    <3>2. Justified(Call)
      BY <2>2 DEF ReadInv
    <3> QED
      BY <3>1, <3>2, StillJustified DEF ReadInv, Justified, IsVersion
  <2> QED
    BY <1>1, <1>2, <1>3, <2>1, <2>2 DEF ReadInv
<1>4. CASE pw' = Idle \/ \E p \in {"Save", "Release"} : Goto(p)
  <2>1. pw'.pc \in {"idle", "Save", "Release"}
    BY <1>4 DEF Idle, Goto, ReadInv, TypeOK
  <2> QED
    BY <1>1, <1>2, <2>1 DEF ReadInv
<1> QED
  BY <1>3, <1>4

LEMMA CreateStep == ASSUME ReadInv, Create PROVE ReadInv'
<1>1. PICK l \in Lists : /\ Created(l)
                         /\ pw' = [pw EXCEPT !.pc = "GetEntries", !.list = l, !.ver = 1]
  BY DEF Create
<1>2. /\ versions' \in [Lists -> Seq([Blocks -> Owners])] /\ Len(versions'[l]) = 1
      /\ \A k \in Lists : \A v \in 1..Len(versions[k]) :
           v \in 1..Len(versions'[k]) /\ versions'[k][v] = versions[k][v]
  BY <1>1, NewListStays DEF ReadInv
<1>3. UNCHANGED <<annotated, cachedID, life, late, astray, bounds>>
  BY DEF Create
<1>4. pw' \in [pc: Stages, op: {"add", "remove"}, c: Clusters, list: Lists \cup {NoList}, ver: Nat]
      /\ pw'.pc = "GetEntries" /\ pw'.list = l /\ pw'.ver = 1
  BY <1>1 DEF ReadInv, TypeOK, Stages
<1>5. TypeOK'
  BY <1>2, <1>3, <1>4 DEF ReadInv, TypeOK, bounds
<1>6. pw'.list \in Lists /\ pw'.ver \in 1..Len(versions'[pw'.list])
  <2>1. 1 \in 1..Len(versions'[l])
    BY <1>2
  <2>2. pw'.list = l /\ pw'.ver = 1
    BY <1>4
  <2> QED
    BY <2>1, <2>2
<1>7. ASSUME NEW call \in late', call.op # "create" PROVE Justified(call)'
  BY <1>2, <1>3, <1>7, StillJustified DEF ReadInv, TypeOK
<1> QED
  BY <1>4, <1>5, <1>6, <1>7 DEF ReadInv, IsVersion

LEMMA ModifiedStep ==
  ASSUME ReadInv, NEW call \in Calls, call.op # "create", Justified(call), Modified(call)
  PROVE  /\ versions' \in [Lists -> Seq([Blocks -> Owners])]
         /\ \A l \in Lists : \A v \in 1..Len(versions[l]) :
              v \in 1..Len(versions'[l]) /\ versions'[l][v] = versions[l][v]
<1>1. Changed(call) \in [Blocks -> Owners] /\ call.list \in Lists
  BY ChangedType DEF ReadInv, Justified, IsVersion
<1> QED
  BY <1>1, VersionsStay DEF ReadInv, Modified

LEMMA CallType == ASSUME TypeOK, pw.pc \in {"Create", "Modify"} PROVE Call \in Calls
  BY DEF TypeOK, Call, Calls

LEMMA ModifyStep == ASSUME ReadInv, Modify PROVE ReadInv'
<1>1. pw.pc = "Modify" /\ Call \in Calls /\ Call.op # "create" /\ Justified(Call)
  BY CallType DEF Modify, ReadInv, Call, TypeOK
<1>2. UNCHANGED <<annotated, cachedID, life, late, astray, bounds>>
  BY DEF Modify
<1>3. CASE Modified(Call) /\ Goto(IF pw.op = "add" THEN "Save" ELSE "Release")
  BY <1>1, <1>2, <1>3, ModifiedStep, WriteKeepsReads DEF ReadInv, TypeOK, bounds
<1>4. CASE Refused /\ UNCHANGED versions
  BY <1>2, <1>4, WriteKeepsReads DEF Refused, ReadInv, TypeOK, bounds
<1> QED
  BY <1>3, <1>4 DEF Modify

LEMMA FailStep == ASSUME ReadInv, Fail PROVE ReadInv'
<1>1. pw' = Idle /\ UNCHANGED <<versions, annotated, cachedID, life, astray, foreign, lives>>
      /\ faults' \in Nat
  BY DEF Fail, ReadInv, TypeOK
<1>2. CASE UNCHANGED late
  BY <1>1, <1>2, WriteKeepsReads DEF ReadInv, TypeOK
<1>3. CASE pw.pc \in {"Create", "Modify"} /\ late' = late \cup {Call}
  <2>1. Call \in Calls /\ (Call.op # "create" => Justified(Call))
    BY <1>3, CallType DEF ReadInv, Call
  <2>2. TypeOK'
    BY <1>1, <1>3, <2>1 DEF ReadInv, TypeOK, Idle, Stages
  <2>3. ASSUME NEW call \in late', call.op # "create" PROVE Justified(call)'
    <3>1. Justified(call)
      BY <1>3, <2>1, <2>3 DEF ReadInv
    <3> QED
      BY <1>1, <3>1, UntouchedJustified
  <2> QED
    BY <1>1, <2>2, <2>3 DEF ReadInv, Idle
<1> QED
  BY <1>2, <1>3 DEF Fail

LEMMA LateStep == ASSUME ReadInv, NEW call \in late, LandLate(call) PROVE ReadInv'
<1>1. call \in Calls /\ UNCHANGED <<annotated, cachedID, life, pw, bounds>> /\ late' \subseteq late
      /\ astray' \in Nat
  BY DEF LandLate, ReadInv, TypeOK
<1>2. CASE call.op = "create"
  <2>1. PICK l \in Lists : Created(l)
    BY <1>2 DEF LandLate
  <2>2. /\ versions' \in [Lists -> Seq([Blocks -> Owners])]
        /\ \A k \in Lists : \A v \in 1..Len(versions[k]) :
             v \in 1..Len(versions'[k]) /\ versions'[k][v] = versions[k][v]
    BY <2>1, NewListStays DEF ReadInv
  <2> QED
    BY <1>1, <2>2, WriteKeepsReads DEF ReadInv, TypeOK, bounds
<1>3. CASE call.op # "create"
  <2>1. Justified(call) /\ Modified(call)
    BY <1>3 DEF LandLate, ReadInv
  <2>2. /\ versions' \in [Lists -> Seq([Blocks -> Owners])]
        /\ \A k \in Lists : \A v \in 1..Len(versions[k]) :
             v \in 1..Len(versions'[k]) /\ versions'[k][v] = versions[k][v]
    BY <1>1, <1>3, <2>1, ModifiedStep
  <2> QED
    BY <1>1, <2>2, WriteKeepsReads DEF ReadInv, TypeOK, bounds
<1> QED
  BY <1>2, <1>3

\* The list with one block taken or given up.
ForeignContent(l, d) == [Current(l) EXCEPT ![d] = IF @ = Nobody THEN Stranger ELSE Nobody]

LEMMA ForeignStep ==
  ASSUME ReadInv, NEW l \in Lists, NEW d \in Blocks, ForeignWrite(l, d)
  PROVE  ReadInv'
<1>1. versions[l] \in Seq([Blocks -> Owners]) /\ versions[l] # <<>>
  BY DEF ForeignWrite, There, ReadInv, TypeOK
<1>2. Current(l) \in [Blocks -> Owners]
  BY <1>1 DEF Current
<1>3. ForeignContent(l, d) \in [Blocks -> Owners]
  BY <1>2 DEF ForeignContent, Owners
<1>4. versions' = [versions EXCEPT ![l] = Append(@, ForeignContent(l, d))]
  BY DEF ForeignWrite, ForeignContent
<1>5. /\ versions' \in [Lists -> Seq([Blocks -> Owners])]
      /\ \A k \in Lists : \A v \in 1..Len(versions[k]) :
           v \in 1..Len(versions'[k]) /\ versions'[k][v] = versions[k][v]
  BY <1>3, <1>4, VersionsStay DEF ReadInv
<1>6. UNCHANGED <<annotated, cachedID, life, pw, late, astray, faults, lives>> /\ foreign' \in Nat
  BY DEF ForeignWrite, ReadInv, TypeOK
<1> QED
  BY <1>5, <1>6, WriteKeepsReads DEF ReadInv, TypeOK

\* The cluster objects change, the lists do not.
LEMMA ObjectStep ==
  ASSUME ReadInv,
         Deliver \/ \E c \in Clusters : RequestDeletion(c) \/ Collect(c) \/ CreateAgain(c)
  PROVE  ReadInv'
<1>1. UNCHANGED <<versions, pw, late>>
  BY DEF Deliver, RequestDeletion, Collect, CreateAgain
<1>2. TypeOK'
  <2>1. CASE Deliver
    BY <2>1 DEF Deliver, ReadInv, TypeOK, bounds
  <2>2. ASSUME NEW c \in Clusters, RequestDeletion(c) \/ Collect(c) PROVE TypeOK'
    BY <2>2 DEF RequestDeletion, Collect, ReadInv, TypeOK, bounds
  <2>3. ASSUME NEW c \in Clusters, CreateAgain(c) PROVE TypeOK'
    BY <2>3 DEF CreateAgain, ReadInv, TypeOK
  <2> QED
    BY <2>1, <2>2, <2>3
<1> QED
  BY <1>1, <1>2, UntouchedJustified DEF ReadInv, IsVersion, Justified, Call

LEMMA NextKeepsReads == ReadInv /\ [Next]_listVars => ReadInv'
<1> SUFFICES ASSUME ReadInv, [Next]_listVars PROVE ReadInv'
  OBVIOUS
<1>1. CASE UNCHANGED listVars
  BY <1>1 DEF listVars, bounds, ReadInv, TypeOK, IsVersion, Justified, Call
<1>2. CASE Next
  BY <1>2, ReadStep, CreateStep, ModifyStep, FailStep, LateStep, ForeignStep, ObjectStep
     DEF Next, ListWork, ListEnvironment
<1> QED
  BY <1>1, <1>2

\* What the worker knows of the version it read is true of that version, and a
\* change is only ever requested of an entry that is free or the cluster's own
\* (addToPrefixList, removeFromPrefixList).
THEOREM ReadInvariant == Spec => []ReadInv
  BY TypeInit, NextKeepsReads, PTL DEF Spec

\* Every variable of the prefix list's model keeps its type.
THEOREM TypeCorrect == Spec => []TypeOK
<1>1. ReadInv => TypeOK
  BY DEF ReadInv
<1> QED
  BY ReadInvariant, <1>1, PTL

-----------------------------------------------------------------------------
(* Entries keep their owners.                                              *)

\* What EntryKeepsOwner says of one step, block by block.
OwnerKept(l, d) ==
  There(l) /\ Current(l)[d] # Nobody /\ Current(l)'[d] # Current(l)[d]
    => /\ Current(l)'[d] = Nobody
       /\ \/ RemovalFor(Current(l)[d])
          \/ Current(l)[d] = Stranger /\ UNCHANGED <<pw, late>>

\* A call that AWS accepts finds the entry as it was read.
LEMMA AcceptedFindsWhatWasRead ==
  ASSUME ReadInv, NEW call \in Calls, call.op # "create", Justified(call), Accepted(call)
  PROVE  /\ There(call.list)
         /\ Current(call.list)[Cidr[call.c]] = IF call.op = "add" THEN Nobody ELSE call.c
<1>1. versions[call.list] \in Seq([Blocks -> Owners]) /\ Len(versions[call.list]) >= 1
  BY DEF ReadInv, TypeOK, Justified, IsVersion
<1> QED
  BY <1>1 DEF Justified, Accepted, Current, There

LEMMA CallKeepsOwner ==
  ASSUME ReadInv, NEW call \in Calls, call.op # "create", Justified(call),
         Accepted(call), Modified(call), call \in late \/ (pw.pc = "Modify" /\ call = Call),
         NEW l \in Lists, NEW d \in Blocks
  PROVE  OwnerKept(l, d)
<1>1. call.list \in Lists /\ call.op \in {"add", "remove"} /\ call.c \in Clusters
  BY DEF Justified, IsVersion, Calls
<1>2. CASE l # call.list
  <2>1. versions'[l] = versions[l]
    BY <1>2 DEF Modified, ReadInv, TypeOK
  <2>2. Current(l)' = Current(l)
    BY <2>1 DEF Current
  <2> QED
    BY <2>2 DEF OwnerKept
<1>3. CASE l = call.list
  <2>1. versions[l] \in Seq([Blocks -> Owners]) /\ Changed(call) \in [Blocks -> Owners]
    BY <1>3, ChangedType DEF ReadInv, TypeOK, Justified
  <2>2. versions'[l] = Append(versions[l], Changed(call))
    BY <1>1, <1>3 DEF Modified, ReadInv, TypeOK
  <2>3. Current(l)' = Changed(call)
    BY <2>1, <2>2 DEF Current
  <2>4. There(l) /\ Current(l) \in [Blocks -> Owners]
    BY <1>3, <2>1, AcceptedFindsWhatWasRead DEF Current, There
  <2>5. CASE d # Cidr[call.c]
    BY <1>3, <2>3, <2>4, <2>5 DEF Changed, OwnerKept
  <2>6. CASE d = Cidr[call.c] /\ call.op = "add"
    BY <1>3, <2>6, AcceptedFindsWhatWasRead DEF OwnerKept
  <2>7. CASE d = Cidr[call.c] /\ call.op = "remove"
    <3>1. Current(l)[d] = call.c
      BY <1>3, <2>7, AcceptedFindsWhatWasRead
    <3>2. Current(l)'[d] = Nobody
      BY <1>1, <1>3, <2>3, <2>4, <2>7 DEF Changed
    <3>3. RemovalFor(call.c)
      BY <2>7 DEF RemovalFor
    <3> QED
      BY <3>1, <3>2, <3>3 DEF OwnerKept
  <2> QED
    BY <1>1, <2>5, <2>6, <2>7
<1> QED
  BY <1>2, <1>3

\* A list that is made had no entries before, and every other list stays.
LEMMA NewListKeepsOwner ==
  ASSUME ReadInv, NEW k \in Lists, Created(k), NEW l \in Lists, NEW d \in Blocks
  PROVE  OwnerKept(l, d)
<1>1. CASE l = k
  BY <1>1 DEF Created, OwnerKept
<1>2. CASE l # k
  BY <1>2 DEF Created, OwnerKept, Current, ReadInv, TypeOK
<1> QED
  BY <1>1, <1>2

LEMMA ForeignKeepsOwner ==
  ASSUME ReadInv, NEW k \in Lists, NEW e \in Blocks, ForeignWrite(k, e),
         NEW l \in Lists, NEW d \in Blocks
  PROVE  OwnerKept(l, d)
<1>1. versions' = [versions EXCEPT ![k] = Append(@, ForeignContent(k, e))]
  BY DEF ForeignWrite, ForeignContent
<1>2. CASE l # k
  <2>1. versions'[l] = versions[l]
    BY <1>1, <1>2 DEF ReadInv, TypeOK
  <2> QED
    BY <2>1 DEF OwnerKept, Current
<1>3. CASE l = k
  <2>1. versions[l] \in Seq([Blocks -> Owners]) /\ versions[l] # <<>>
    BY <1>3 DEF ForeignWrite, There, ReadInv, TypeOK
  <2>2. Current(l) \in [Blocks -> Owners] /\ ForeignContent(l, e) \in [Blocks -> Owners]
    BY <2>1 DEF Current, ForeignContent, Owners
  <2>3. versions'[l] = Append(versions[l], ForeignContent(l, e))
    BY <1>1, <1>3 DEF ReadInv, TypeOK
  <2>4. Current(l)' = ForeignContent(l, e)
    BY <2>1, <2>2, <2>3 DEF Current
  <2>5. Current(l)[e] \in {Nobody, Stranger} /\ UNCHANGED <<pw, late>>
    BY <1>3 DEF ForeignWrite
  <2>6. CASE d # e
    BY <2>2, <2>4, <2>6 DEF ForeignContent, OwnerKept
  <2>7. CASE d = e
    BY <2>2, <2>4, <2>5, <2>7 DEF ForeignContent, OwnerKept
  <2> QED
    BY <2>6, <2>7
<1> QED
  BY <1>2, <1>3

LEMMA UntouchedKeepsOwner ==
  ASSUME UNCHANGED versions, NEW l \in Lists, NEW d \in Blocks PROVE OwnerKept(l, d)
  BY DEF OwnerKept, Current

LEMMA NextKeepsOwner ==
  ASSUME ReadInv, [Next]_listVars, NEW l \in Lists, NEW d \in Blocks PROVE OwnerKept(l, d)
<1>1. CASE UNCHANGED versions
  BY <1>1, UntouchedKeepsOwner
<1>2. CASE Create
  BY <1>2, NewListKeepsOwner DEF Create
<1>3. CASE Modify
  <2>1. pw.pc = "Modify" /\ Call \in Calls /\ Call.op # "create" /\ Justified(Call)
    BY <1>3, CallType DEF Modify, ReadInv, Call, TypeOK
  <2>2. CASE Accepted(Call) /\ Modified(Call)
    BY <2>1, <2>2, CallKeepsOwner
  <2>3. CASE UNCHANGED versions
    BY <2>3, UntouchedKeepsOwner
  <2> QED
    BY <1>3, <2>2, <2>3 DEF Modify
<1>4. ASSUME NEW call \in late, LandLate(call) PROVE OwnerKept(l, d)
  <2>1. call \in Calls
    BY DEF ReadInv, TypeOK
  <2>2. CASE call.op = "create"
    BY <1>4, <2>2, NewListKeepsOwner DEF LandLate
  <2>3. CASE call.op # "create"
    BY <1>4, <2>1, <2>3, CallKeepsOwner DEF LandLate, ReadInv
  <2> QED
    BY <2>2, <2>3
<1>5. ASSUME NEW k \in Lists, NEW e \in Blocks, ForeignWrite(k, e) PROVE OwnerKept(l, d)
  BY <1>5, ForeignKeepsOwner
<1>6. CASE UNCHANGED listVars \/ FindByID \/ FindByName \/ GetEntries \/ Save \/ Release
           \/ FallBack \/ Fail \/ Deliver
           \/ \E c \in Clusters : Start(c) \/ Collect(c) \/ RequestDeletion(c) \/ CreateAgain(c)
  <2>1. UNCHANGED versions
    BY <1>6 DEF listVars, FindByID, FindByName, GetEntries, Save, Release, FallBack, Fail, Deliver,
                Start, Collect, RequestDeletion, CreateAgain
  <2> QED
    BY <2>1, UntouchedKeepsOwner
<1> QED
  BY <1>2, <1>3, <1>4, <1>5, <1>6 DEF Next, ListWork, ListEnvironment

\* An entry is never handed from one owner to another and goes only by a removal
\* for the cluster it describes, for any number of clusters, lists, writers and
\* failures (addToPrefixList and removeFromPrefixList send the version they read).
THEOREM EntryKept == Spec => EntryKeepsOwner
<1>1. ASSUME ReadInv, [Next]_listVars
      PROVE  [\A l \in Lists, d \in Blocks :
                LET o == Current(l)[d]
                IN  There(l) /\ o # Nobody /\ Current(l)'[d] # o
                      => /\ Current(l)'[d] = Nobody
                         /\ RemovalFor(o) \/ (o = Stranger /\ UNCHANGED <<pw, late>>)]_listVars
  BY <1>1, NextKeepsOwner DEF OwnerKept
<1> QED
  BY ReadInvariant, <1>1, PTL DEF Spec, EntryKeepsOwner
=============================================================================
