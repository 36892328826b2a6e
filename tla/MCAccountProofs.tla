----------------------------- MODULE MCAccountProofs ---------------------------
(***************************************************************************)
(* For any clusters, lists and shares: what is shared with whom. The steps *)
(* of the prefix list keep its own invariant (PrefixListSafety); of them   *)
(* the shares see little, which ListFrame collects. The parts of SharesInv *)
(* follow, each for the steps of the share reconciler and for the others.  *)
(***************************************************************************)
EXTENDS MCAccountInv, PrefixListSafety

USE PrefixListAssumption

-----------------------------------------------------------------------------
(* The prefix list under the shares.                                       *)

\* A failure of the share reconciler counts as one, and is none of the list's.
LEMMA FaultKeepsList ==
  ASSUME ListInv, faults' = faults + 1,
         UNCHANGED <<versions, annotated, cachedID, life, pw, late, astray, foreign, lives>>
  PROVE  ListInv'
<1>1. TypeOK'
  BY DEF ListInv, ReadInv, TypeOK
<1>2. ReadInv'
  <2>1. \A call \in Calls : Justified(call)' = Justified(call)
    BY DEF Justified, IsVersion
  <2>2. Call' = Call
    BY DEF Call
  <2>3. ASSUME NEW call \in late', call.op # "create" PROVE Justified(call)'
    BY <2>1, <2>3 DEF ListInv, ReadInv, TypeOK
  <2>4. pw'.pc = "Modify" => Justified(Call)'
    BY <2>2 DEF ListInv, ReadInv, Justified, IsVersion
  <2> QED
    BY <1>1, <2>3, <2>4 DEF ListInv, ReadInv, IsVersion
<1>3. WorkerInv'
  BY DEF ListInv, WorkerInv
<1>4. \A l \in Lists : There(l)' = There(l) /\ Current(l)' = Current(l)
  BY DEF There, Current
<1>5. ForkInv'
  <2>1. Named' = Named /\ HasUserList' = HasUserList
    BY <1>4 DEF Named, HasUserList
  <2>2. ListCount' = ListCount
    BY <2>1 DEF ListCount
  <2> QED
    BY <2>1, <2>2 DEF ListInv, ForkInv, LedToUserList
<1>6. EntryInv'
  <2>1. \A c \in Clusters, l \in Lists : HasEntryIn(c, l)' = HasEntryIn(c, l)
    BY <1>4 DEF HasEntryIn
  <2>2. astray = 0 => ReadIsCurrent'
    BY DEF ListInv, EntryInv, ReadIsCurrent, Read, Current
  <2>3. astray = 0 => NothingLeftBehind'
    BY <2>1 DEF ListInv, EntryInv, NothingLeftBehind
  <2>4. astray = 0 => AnnotatedIsListed'
    BY DEF ListInv, EntryInv, AnnotatedIsListed, HasEntryIn, There, Current
  <2>5. astray = 0 => /\ pw'.pc = "Save" => HasEntryIn(pw.c, pw.list)'
                      /\ pw'.pc = "Release" => \A l \in Lists : ~HasEntryIn(pw.c, l)'
    BY DEF ListInv, EntryInv, HasEntryIn, There, Current
  <2> QED
    BY <2>2, <2>3, <2>4, <2>5 DEF EntryInv
<1> QED
  BY <1>2, <1>3, <1>5, <1>6 DEF ListInv

\* The steps of the network topology reconciler and of what surrounds it.
ListStep == ListWork \/ ListEnvironment \/ \E c \in Clusters : Start(c)

LEMMA AccountSteps ==
  ASSUME [AccountNext]_accountVars
  PROVE  \/ ListStep /\ UNCHANGED shareVars
         \/ GetResourceShare \/ CreateResourceShare \/ DeleteResourceShare \/ ShareRelease \/ ShareFail
         \/ \E c \in Clusters : ShareStart(c) \/ \E l \in Lists : LandLateShare(c, l)
         \/ \E c \in Clusters, s \in Slots : ShareMoves(c, s)
         \/ UNCHANGED accountVars
  BY DEF AccountNext, ShareWork, ListStep

LEMMA ListKept == ListInv /\ SharesTypeOK /\ [AccountNext]_accountVars => ListInv'
<1> SUFFICES ASSUME ListInv, SharesTypeOK, [AccountNext]_accountVars PROVE ListInv'
  OBVIOUS
<1>1. CASE ShareFail
  BY <1>1, FaultKeepsList DEF ShareFail
<1>2. CASE ListStep \/ ShareRelease
  <2>1. Next
    BY <1>2 DEF ListStep, ShareRelease, Next, SharesTypeOK
  <2> QED
    BY <2>1, ListInvStep
<1>3. CASE \/ GetResourceShare \/ CreateResourceShare \/ DeleteResourceShare
           \/ \E c \in Clusters : ShareStart(c) \/ \E l \in Lists : LandLateShare(c, l)
           \/ \E c \in Clusters, s \in Slots : ShareMoves(c, s)
           \/ UNCHANGED accountVars
  <2>1. UNCHANGED listVars
    BY <1>3 DEF GetResourceShare, CreateResourceShare, DeleteResourceShare, ShareStart, LandLateShare,
                ShareMoves, accountVars
  <2> QED
    BY <2>1, ListInvStep
<1> QED
  BY <1>1, <1>2, <1>3, AccountSteps

\* What the share reconciler can notice of such a step: a cluster goes on towards its
\* end, and its annotation names a list once it did.
LEMMA ListFrame ==
  ASSUME ListInv, ListStep, NEW c \in Clusters
  PROVE  /\ life[c] # "gone" => life'[c] # "gone" /\ (annotated[c] # NoList => annotated'[c] # NoList)
         /\ life[c] = "released" => life'[c] = "released"
         /\ life[c] # "released" => life[c] \in {"live", "deleting", "gone"}
         /\ astray' = 0 => astray = 0
         /\ \A l \in Lists : There(l) => There(l)'
<1>1. ReadInv /\ WorkerInv /\ [Next]_listVars /\ TypeOK
  BY DEF ListInv, ReadInv, ListStep, Next
<1>2. /\ life[c] # "gone" => life'[c] # "gone" /\ (annotated[c] # NoList => annotated'[c] # NoList)
      /\ life[c] = "released" => life'[c] = "released"
  <2>1. CASE Save
    BY <1>1, <2>1 DEF TypeOK, WorkerInv, Save
  <2>2. CASE Release
    BY <1>1, <2>2 DEF TypeOK, Release
  <2>3. ASSUME NEW d \in Clusters, RequestDeletion(d) \/ CreateAgain(d)
        PROVE  /\ life[c] # "gone" => life'[c] # "gone" /\ (annotated[c] # NoList => annotated'[c] # NoList)
               /\ life[c] = "released" => life'[c] = "released"
    BY <1>1, <2>3 DEF TypeOK, RequestDeletion, CreateAgain
  <2>4. CASE UNCHANGED <<life, annotated>>
    BY <2>4
  <2>5. \/ Save \/ Release \/ UNCHANGED <<life, annotated>>
        \/ \E d \in Clusters : RequestDeletion(d) \/ CreateAgain(d)
    BY DEF ListStep, ListWork, ListEnvironment, FindByID, FallBack, FindByName, Create, GetEntries,
           Modify, Fail, Deliver, LandLate, ForeignWrite, Start
  <2> QED
    BY <2>1, <2>2, <2>3, <2>4, <2>5
<1>3. life[c] # "released" => life[c] \in {"live", "deleting", "gone"}
  BY <1>1 DEF TypeOK
<1>4. astray' = 0 => astray = 0
  BY <1>1, AstrayStep
<1>5. \A l \in Lists : There(l) => There(l)'
  BY <1>1, TherePersists
<1> QED
  BY <1>2, <1>3, <1>4, <1>5

LEMMA AnnotatedFrame ==
  ASSUME ListInv, ListStep, NEW c \in Clusters \ {MC}, astray' = 0,
         annotated[c] # NoList => There(annotated[c]), NEW k \in Lists, annotated'[c] = k
  PROVE  There(k)'
<1>1. ReadInv /\ WorkerInv /\ [Next]_listVars /\ TypeOK /\ astray = 0
  BY AstrayStep DEF ListInv, ReadInv, ListStep, Next
<1>2. annotated'[c] = annotated[c] \/ annotated'[c] = NoList \/ (Save /\ c = pw.c)
  <2>1. annotated \in [Clusters -> Lists \cup {NoList}]
    BY <1>1 DEF TypeOK
  <2>2. CASE Save
    BY <2>1, <2>2 DEF Save
  <2>3. ASSUME NEW d \in Clusters, CreateAgain(d) PROVE annotated'[c] \in {annotated[c], NoList}
    BY <2>1, <2>3 DEF CreateAgain
  <2>4. Save \/ UNCHANGED annotated \/ \E d \in Clusters : CreateAgain(d)
    BY <1>1, ClusterWrites DEF Release, RequestDeletion, Collect
  <2> QED
    BY <2>2, <2>3, <2>4
<1>3. CASE annotated'[c] = annotated[c]
  BY <1>1, <1>3, TherePersists
<1>4. CASE Save /\ c = pw.c
  <2>1. pw.list = k /\ There(k)
    BY <1>1, <1>4 DEF Save, TypeOK, ListInv, EntryInv, HasEntryIn
  <2> QED
    BY <1>1, <2>1, TherePersists
<1> QED
  BY <1>2, <1>3, <1>4

-----------------------------------------------------------------------------
(* The share worker and the shares.                                        *)

USE SharesAssumption

LEMMA FoundLive == ASSUME SharesTypeOK, NEW c \in Clusters PROVE FoundShares(c) = LiveShares(c)
  BY DEF FoundShares, LiveShares, SharesTypeOK, Share, ShareStates

RWorkers == [pc: {"idle", "Get", "Create", "Delete", "RemoveFinalizer"}, op: {"apply", "delete"},
             c: Clusters, list: Lists \cup {NoList}, slot: Slots]

LEMMA RWGotoFields ==
  ASSUME SharesTypeOK, NEW stage, RWGoto(stage)
  PROVE  /\ rw'.pc = stage /\ rw'.op = rw.op /\ rw'.c = rw.c /\ rw'.list = rw.list /\ rw'.slot = rw.slot
         /\ stage \in {"idle", "Get", "Create", "Delete", "RemoveFinalizer"} => rw' \in RWorkers
  BY DEF SharesTypeOK, RWGoto, RWorkers

LEMMA RWIdleFields == ASSUME rw' = RWIdle PROVE rw'.pc = "idle" /\ rw' \in RWorkers
  BY DEF RWIdle, RWorkers

LEMMA ShareStartMove ==
  ASSUME TypeOK, SharesTypeOK, NEW c \in Clusters, ShareStart(c)
  PROVE  /\ rw'.pc = "Get" /\ rw'.c = c /\ c # MC /\ rw' \in RWorkers
         /\ \/ /\ rw'.op = "apply" /\ life[c] \in {"live", "deleting"}
               /\ annotated[c] # NoList /\ rw'.list = annotated[c]
            \/ rw'.op = "delete" /\ life[c] = "released"
<1>1. ASSUME NEW o \in {"apply", "delete"}, NEW l \in Lists \cup {NoList},
             rw' = [rw EXCEPT !.pc = "Get", !.op = o, !.c = c, !.list = l]
      PROVE  rw'.pc = "Get" /\ rw'.c = c /\ rw'.op = o /\ rw'.list = l /\ rw' \in RWorkers
  BY <1>1 DEF SharesTypeOK, RWorkers
<1>2. c # MC /\ annotated[c] \in Lists \cup {NoList}
  BY DEF ShareStart, TypeOK
<1>3. CASE life[c] = "released" /\ rw' = [rw EXCEPT !.pc = "Get", !.op = "delete", !.c = c, !.list = NoList]
  BY <1>1, <1>2, <1>3
<1>4. CASE /\ life[c] \in {"live", "deleting"} /\ annotated[c] # NoList
           /\ rw' = [rw EXCEPT !.pc = "Get", !.op = "apply", !.c = c, !.list = annotated[c]]
  BY <1>1, <1>2, <1>4
<1> QED
  BY <1>3, <1>4 DEF ShareStart

\* What the caller makes of the shares of the name, which are those not on their way out.
LEMMA GetMove ==
  ASSUME SharesTypeOK, DuplicateInv, GetResourceShare
  PROVE  /\ rw.pc = "Get" /\ rw.c \in Clusters /\ rw' \in RWorkers
         /\ \/ rw'.pc = "idle" /\ UNCHANGED shared
            \/ /\ rw'.pc = "idle" /\ rw.op = "apply"
               /\ LiveShares(rw.c) # {} /\ shared' = shared \cup {rw.c}
            \/ /\ rw'.c = rw.c /\ rw'.op = rw.op /\ rw'.list = rw.list /\ UNCHANGED shared
               /\ \/ rw'.pc = "Create" /\ rw.op = "apply" /\ LiveShares(rw.c) = {}
                  \/ rw'.pc = "RemoveFinalizer" /\ rw.op = "delete" /\ LiveShares(rw.c) = {}
                  \/ rw'.pc = "Delete" /\ rw.op = "delete" /\ LiveShares(rw.c) = {rw'.slot}
<1>1. /\ rw.c \in Clusters /\ rw.op \in {"apply", "delete"} /\ FoundShares(rw.c) = LiveShares(rw.c)
      /\ IsFiniteSet(LiveShares(rw.c)) /\ Cardinality(LiveShares(rw.c)) \in Nat
  BY FoundLive, FS_CardinalityType DEF SharesTypeOK, DuplicateInv
<1>2. ASSUME NEW s \in LiveShares(rw.c), ~(Cardinality(LiveShares(rw.c)) > 1),
             rw' = [rw EXCEPT !.pc = "Delete", !.slot = s]
      PROVE  /\ rw'.pc = "Delete" /\ LiveShares(rw.c) = {rw'.slot} /\ rw' \in RWorkers
             /\ rw'.c = rw.c /\ rw'.op = rw.op /\ rw'.list = rw.list
  <2>1. Cardinality(LiveShares(rw.c)) = 1
    BY <1>1, <1>2, FS_EmptySet
  <2>2. LiveShares(rw.c) = {s} /\ s \in Slots
    BY <1>1, <2>1, FS_Singleton DEF LiveShares
  <2>3. rw'.pc = "Delete" /\ rw'.slot = s /\ rw'.c = rw.c /\ rw'.op = rw.op /\ rw'.list = rw.list
        /\ rw' \in RWorkers
    BY <1>2, <2>2 DEF SharesTypeOK, RWorkers
  <2> QED
    BY <2>2, <2>3
<1>3. CASE Cardinality(LiveShares(rw.c)) > 1
  BY <1>1, <1>3, RWIdleFields DEF GetResourceShare
<1>4. CASE ~(Cardinality(LiveShares(rw.c)) > 1) /\ rw.op = "apply"
  <2>1. CASE LiveShares(rw.c) = {}
    BY <1>1, <1>4, <2>1, RWGotoFields DEF GetResourceShare
  <2>2. CASE LiveShares(rw.c) # {}
    BY <1>1, <1>4, <2>2, RWIdleFields DEF GetResourceShare
  <2> QED
    BY <2>1, <2>2
<1>5. CASE ~(Cardinality(LiveShares(rw.c)) > 1) /\ rw.op = "delete"
  <2>1. CASE LiveShares(rw.c) = {}
    BY <1>1, <1>5, <2>1, RWGotoFields DEF GetResourceShare
  <2>2. CASE LiveShares(rw.c) # {}
    BY <1>1, <1>2, <1>5, <2>2 DEF GetResourceShare
  <2> QED
    BY <2>1, <2>2
<1> QED
  BY <1>1, <1>3, <1>4, <1>5

\* A new share is one more, and for that cluster only.
LEMMA NewShareEffect ==
  ASSUME SharesTypeOK, NEW c \in Clusters, NEW l \in Lists, NewShare(c, l)
  PROVE  /\ ram' \in [Clusters -> [Slots -> Share]]
         /\ \E s \in Slots :
              /\ s \notin LiveShares(c) /\ LiveShares(c)' = LiveShares(c) \cup {s}
              /\ ram'[c][s].list = l /\ \A t \in LiveShares(c) : ram'[c][t] = ram[c][t]
         /\ \A d \in Clusters \ {c} : LiveShares(d)' = LiveShares(d) /\ ram'[d] = ram[d]
<1>1. PICK s \in Slots : /\ ram[c][s].status = "none"
                         /\ ram' = [ram EXCEPT ![c][s] = [status |-> "pending", list |-> l]]
  BY DEF NewShare
<1>2. [status |-> "pending", list |-> l] \in Share
  BY DEF Share, ShareStates
<1>3. ram \in [Clusters -> [Slots -> Share]]
  BY DEF SharesTypeOK
<1>4. ram' \in [Clusters -> [Slots -> Share]]
  BY <1>1, <1>2, <1>3
<1>5. /\ ram'[c][s] = [status |-> "pending", list |-> l]
      /\ \A t \in Slots \ {s} : ram'[c][t] = ram[c][t]
      /\ \A d \in Clusters \ {c} : ram'[d] = ram[d]
  BY <1>1, <1>3
<1>6. s \notin LiveShares(c) /\ LiveShares(c)' = LiveShares(c) \cup {s}
  BY <1>1, <1>5 DEF LiveShares
<1>7. \A d \in Clusters \ {c} : LiveShares(d)' = LiveShares(d)
  BY <1>5 DEF LiveShares
<1>8. \A t \in LiveShares(c) : ram'[c][t] = ram[c][t]
  BY <1>5, <1>6 DEF LiveShares
<1>9. ram'[c][s].list = l
  BY <1>5
<1> QED
  BY <1>4, <1>5, <1>6, <1>7, <1>8, <1>9

\* A share that is deleted is one less.
LEMMA DeleteEffect ==
  ASSUME SharesTypeOK, ShareWorkerInv, DeleteResourceShare
  PROVE  /\ ram' \in [Clusters -> [Slots -> Share]]
         /\ \A d \in Clusters :
              LiveShares(d)' = IF d = rw.c THEN LiveShares(d) \ {rw.slot} ELSE LiveShares(d)
         /\ \A d \in Clusters, s \in Slots : ram'[d][s].list = ram[d][s].list
<1>1. PICK c \in Clusters, slot \in Slots :
        /\ c = rw.c /\ slot = rw.slot /\ ram[c][slot].status \in {"pending", "active"}
        /\ ram' = [ram EXCEPT ![c][slot].status = "deleting"]
  BY DEF DeleteResourceShare, ShareWorkerInv, SharesTypeOK, LiveShares
<1>2. ram \in [Clusters -> [Slots -> Share]]
  BY DEF SharesTypeOK
<1>3. ram[c][slot] \in [status: ShareStates \ {"none"}, list: Lists]
  BY <1>1, <1>2 DEF Share
<1>4. [ram[c][slot] EXCEPT !.status = "deleting"] \in Share
  BY <1>3 DEF Share, ShareStates
<1>5. ram' = [ram EXCEPT ![c] = [ram[c] EXCEPT ![slot] = [ram[c][slot] EXCEPT !.status = "deleting"]]]
  BY <1>1, <1>2
<1>6. ram' \in [Clusters -> [Slots -> Share]]
  BY <1>2, <1>4, <1>5
<1>7. /\ ram'[c][slot].status = "deleting" /\ ram'[c][slot].list = ram[c][slot].list
      /\ \A s \in Slots \ {slot} : ram'[c][s] = ram[c][s]
      /\ \A d \in Clusters \ {c} : ram'[d] = ram[d]
  BY <1>2, <1>3, <1>5
<1>8. \A d \in Clusters : LiveShares(d)' = IF d = c THEN LiveShares(d) \ {slot} ELSE LiveShares(d)
  BY <1>1, <1>7 DEF LiveShares
<1>9. \A d \in Clusters, s \in Slots : ram'[d][s].list = ram[d][s].list
  BY <1>7
<1> QED
  BY <1>1, <1>6, <1>8, <1>9

\* RAM's own steps leave what is shared as it is.
LEMMA MovesEffect ==
  ASSUME SharesTypeOK, NEW c \in Clusters, NEW s \in Slots, ShareMoves(c, s)
  PROVE  /\ ram' \in [Clusters -> [Slots -> Share]]
         /\ \A d \in Clusters : LiveShares(d)' = LiveShares(d)
         /\ \A d \in Clusters : \A t \in LiveShares(d) : ram'[d][t].list = ram[d][t].list
<1> DEFINE new == CASE ram[c][s].status = "pending" -> [ram[c][s] EXCEPT !.status = "active"]
                    [] ram[c][s].status = "deleting" -> NoShare
                    [] OTHER -> ram[c][s]
<1>1. ram \in [Clusters -> [Slots -> Share]] /\ ram[c][s] \in Share
  BY DEF SharesTypeOK
<1>2. ram' = [ram EXCEPT ![c] = [ram[c] EXCEPT ![s] = new]]
  BY <1>1 DEF ShareMoves
<1>3. /\ new \in Share
      /\ new.status \in {"pending", "active"} <=> ram[c][s].status \in {"pending", "active"}
      /\ ram[c][s].status \in {"pending", "active"} => new.list = ram[c][s].list
  BY <1>1 DEF Share, ShareStates, NoShare
<1>4. ram' \in [Clusters -> [Slots -> Share]]
  BY <1>1, <1>2, <1>3
<1>5. /\ ram'[c][s] = new /\ \A t \in Slots \ {s} : ram'[c][t] = ram[c][t]
      /\ \A d \in Clusters \ {c} : ram'[d] = ram[d]
  BY <1>1, <1>2
<1> HIDE DEF new
<1>6. \A d \in Clusters : LiveShares(d)' = LiveShares(d)
  BY <1>3, <1>5 DEF LiveShares
<1>7. \A d \in Clusters : \A t \in LiveShares(d) : ram'[d][t].list = ram[d][t].list
  BY <1>3, <1>5 DEF LiveShares
<1> QED
  BY <1>4, <1>6, <1>7

LEMMA LiveKept == ASSUME UNCHANGED ram, NEW c PROVE LiveShares(c)' = LiveShares(c)
  BY DEF LiveShares

LEMMA ReleaseMove ==
  ASSUME TypeOK, SharesTypeOK, ShareRelease
  PROVE  /\ rw.pc = "RemoveFinalizer" /\ rw.c \in Clusters /\ life[rw.c] = "released"
         /\ life' = [life EXCEPT ![rw.c] = "gone"] /\ life \in [Clusters -> {"live", "deleting", "released", "gone"}]
         /\ UNCHANGED <<versions, annotated, cachedID, pw, late, astray, ram, lateRAM, twice>>
         /\ rw'.pc = "idle" /\ rw' \in RWorkers /\ shared' = shared \ {rw.c}
  BY RWIdleFields DEF ShareRelease, Collect, TypeOK, SharesTypeOK

LEMMA SharesTypeInit == Init /\ SharesInit => SharesTypeOK
<1> SUFFICES ASSUME SharesInit PROVE SharesTypeOK
  OBVIOUS
<1>1. NoShare \in Share
  BY DEF NoShare, Share
<1>2. rw \in RWorkers
  BY DEF SharesInit, RWIdle, RWorkers
<1> QED
  BY <1>1, <1>2 DEF SharesInit, SharesTypeOK, RWorkers

LEMMA SharesTypeStep == AccountInv /\ [AccountNext]_accountVars => SharesTypeOK'
<1> SUFFICES ASSUME AccountInv, [AccountNext]_accountVars PROVE SharesTypeOK'
  OBVIOUS
<1>1. TypeOK /\ SharesTypeOK /\ DuplicateInv /\ ShareWorkerInv
  BY DEF AccountInv, ListInv, ReadInv, SharesInv
<1>2. SharesTypeOK <=> /\ ram \in [Clusters -> [Slots -> Share]] /\ rw \in RWorkers /\ shared \subseteq Clusters
                       /\ lateRAM \subseteq Clusters \X Lists /\ twice \in Nat
  BY DEF SharesTypeOK, RWorkers
<1>3. SharesTypeOK' <=> /\ ram' \in [Clusters -> [Slots -> Share]] /\ rw' \in RWorkers /\ shared' \subseteq Clusters
                        /\ lateRAM' \subseteq Clusters \X Lists /\ twice' \in Nat
  BY DEF SharesTypeOK, RWorkers
<1>4. CASE (ListStep /\ UNCHANGED shareVars) \/ UNCHANGED accountVars
  BY <1>1, <1>2, <1>3, <1>4 DEF shareVars, accountVars
<1>5. ASSUME NEW c \in Clusters, ShareStart(c) PROVE SharesTypeOK'
  BY <1>1, <1>2, <1>3, <1>5, ShareStartMove DEF ShareStart
<1>6. CASE GetResourceShare
  BY <1>1, <1>2, <1>3, <1>6, GetMove DEF GetResourceShare
<1>7. CASE CreateResourceShare
  <2>1. rw.c \in Clusters /\ rw.list \in Lists
    BY <1>1, <1>2, <1>7 DEF CreateResourceShare, ShareWorkerInv, RWorkers
  <2>2. ram' \in [Clusters -> [Slots -> Share]] /\ rw' \in RWorkers
    BY <1>1, <1>7, <2>1, NewShareEffect, RWIdleFields DEF CreateResourceShare
  <2> QED
    BY <1>1, <1>2, <1>3, <1>7, <2>1, <2>2 DEF CreateResourceShare
<1>8. CASE DeleteResourceShare
  <2>1. ram' \in [Clusters -> [Slots -> Share]]
    BY <1>1, <1>8, DeleteEffect
  <2>2. rw' \in RWorkers
    BY <1>1, <1>8, RWGotoFields DEF DeleteResourceShare
  <2> QED
    BY <1>1, <1>2, <1>3, <1>8, <2>1, <2>2 DEF DeleteResourceShare
<1>9. CASE ShareRelease
  BY <1>1, <1>2, <1>3, <1>9, ReleaseMove
<1>10. CASE ShareFail
  <2>1. lateRAM' \subseteq Clusters \X Lists
    BY <1>1, <1>2, <1>10 DEF ShareFail, ShareWorkerInv, RWorkers
  <2> QED
    BY <1>1, <1>2, <1>3, <1>10, <2>1, RWIdleFields DEF ShareFail
<1>11. ASSUME NEW c \in Clusters, NEW l \in Lists, LandLateShare(c, l) PROVE SharesTypeOK'
  <2>1. ram' \in [Clusters -> [Slots -> Share]]
    BY <1>1, <1>11, NewShareEffect DEF LandLateShare
  <2> QED
    BY <1>1, <1>2, <1>3, <1>11, <2>1 DEF LandLateShare
<1>12. ASSUME NEW c \in Clusters, NEW s \in Slots, ShareMoves(c, s) PROVE SharesTypeOK'
  <2>1. ram' \in [Clusters -> [Slots -> Share]]
    BY <1>1, <1>12, MovesEffect
  <2> QED
    BY <1>1, <1>2, <1>3, <1>12, <2>1 DEF ShareMoves
<1> QED
  BY <1>4, <1>5, <1>6, <1>7, <1>8, <1>9, <1>10, <1>11, <1>12, AccountSteps

LEMMA ShareWorkerStep == AccountInv /\ [AccountNext]_accountVars => ShareWorkerInv'
<1> SUFFICES ASSUME AccountInv, [AccountNext]_accountVars PROVE ShareWorkerInv'
  OBVIOUS
<1>1. /\ ListInv /\ TypeOK /\ WorkerInv /\ SharesTypeOK /\ DuplicateInv /\ ShareWorkerInv
      /\ life[MC] = "live" /\ rw.c \in Clusters /\ NoList \notin Lists
  BY DEF AccountInv, ListInv, ReadInv, SharesInv, SharesTypeOK, WorkerInv
<1>2. CASE UNCHANGED accountVars
  BY <1>1, <1>2, LiveKept DEF accountVars, listVars, shareVars, ShareWorkerInv
<1>3. CASE ListStep /\ UNCHANGED shareVars
  <2>1. PICK c \in Clusters : c = rw.c
    BY <1>1
  <2>2. /\ life[c] # "gone" => life'[c] # "gone" /\ (annotated[c] # NoList => annotated'[c] # NoList)
        /\ life[c] = "released" => life'[c] = "released"
    BY <1>1, <1>3, ListFrame
  <2>3. LiveShares(c)' = LiveShares(c) /\ UNCHANGED rw
    BY <1>3, LiveKept DEF shareVars
  <2> QED
    BY <1>1, <2>1, <2>2, <2>3 DEF ShareWorkerInv
<1>4. ASSUME NEW c \in Clusters, ShareStart(c) PROVE ShareWorkerInv'
  <2>1. UNCHANGED <<life, annotated>> /\ annotated[c] \in Lists \cup {NoList}
    BY <1>1, <1>4 DEF ShareStart, listVars, TypeOK
  <2> QED
    BY <1>1, <1>4, <2>1, ShareStartMove DEF ShareWorkerInv
<1>5. CASE GetResourceShare
  <2>1. UNCHANGED <<life, annotated, ram>>
    BY <1>5 DEF GetResourceShare, listVars
  <2>2. \A c \in Clusters : LiveShares(c)' = LiveShares(c)
    BY <2>1, LiveKept
  <2>3. rw'.pc = "idle" \/ (rw'.c = rw.c /\ rw'.op = rw.op /\ rw'.list = rw.list /\ rw.pc = "Get")
    BY <1>1, <1>5, GetMove
  <2>4. /\ rw'.pc = "Create" => rw.op = "apply"
        /\ rw'.pc \in {"Delete", "RemoveFinalizer"} => rw.op = "delete"
        /\ rw'.pc = "Delete" => rw'.slot \in LiveShares(rw.c)
    BY <1>1, <1>5, GetMove
  <2> QED
    BY <1>1, <2>1, <2>2, <2>3, <2>4 DEF ShareWorkerInv
<1>6. CASE CreateResourceShare \/ ShareRelease \/ ShareFail
  <2>1. rw'.pc = "idle"
    BY <1>6, RWIdleFields DEF CreateResourceShare, ShareRelease, ShareFail
  <2> QED
    BY <2>1 DEF ShareWorkerInv
<1>7. CASE DeleteResourceShare
  <2>1. UNCHANGED <<life, annotated>> /\ rw.pc = "Delete"
    BY <1>7 DEF DeleteResourceShare, listVars
  <2>2. rw'.pc = "RemoveFinalizer" /\ rw'.c = rw.c /\ rw'.op = rw.op /\ rw'.list = rw.list
    BY <1>1, <1>7, RWGotoFields DEF DeleteResourceShare
  <2> QED
    BY <1>1, <2>1, <2>2 DEF ShareWorkerInv
<1>8. ASSUME NEW c \in Clusters, NEW l \in Lists, LandLateShare(c, l) PROVE ShareWorkerInv'
  <2>1. UNCHANGED <<life, annotated, rw>>
    BY <1>8 DEF LandLateShare, listVars
  <2>2. \A d \in Clusters : LiveShares(d) \subseteq LiveShares(d)'
    BY <1>1, <1>8, NewShareEffect DEF LandLateShare
  <2> QED
    BY <1>1, <2>1, <2>2 DEF ShareWorkerInv
<1>9. ASSUME NEW c \in Clusters, NEW s \in Slots, ShareMoves(c, s) PROVE ShareWorkerInv'
  <2>1. UNCHANGED <<life, annotated, rw>>
    BY <1>9 DEF ShareMoves, listVars
  <2>2. \A d \in Clusters : LiveShares(d)' = LiveShares(d)
    BY <1>1, <1>9, MovesEffect
  <2> QED
    BY <1>1, <2>1, <2>2 DEF ShareWorkerInv
<1> QED
  BY <1>2, <1>3, <1>4, <1>5, <1>6, <1>7, <1>8, <1>9, AccountSteps

LEMMA OneMoreShare ==
  ASSUME SharesTypeOK, DuplicateInv, NEW c \in Clusters, NEW l \in Lists, NewShare(c, l)
  PROVE  /\ IsFiniteSet(LiveShares(c)') /\ Cardinality(LiveShares(c)') = Cardinality(LiveShares(c)) + 1
         /\ \A d \in Clusters \ {c} : LiveShares(d)' = LiveShares(d)
  BY NewShareEffect, FS_AddElement DEF DuplicateInv

LEMMA DuplicateInit == SharesInit => DuplicateInv
<1> SUFFICES ASSUME SharesInit PROVE DuplicateInv
  OBVIOUS
<1>1. \A c \in Clusters : LiveShares(c) = {}
  BY DEF SharesInit, LiveShares, NoShare
<1>2. rw.pc = "idle" /\ twice = 0
  BY DEF SharesInit, RWIdle
<1> QED
  BY <1>1, <1>2, FS_EmptySet DEF DuplicateInv

LEMMA DuplicateStep == AccountInv /\ [AccountNext]_accountVars => DuplicateInv'
<1> SUFFICES ASSUME AccountInv, [AccountNext]_accountVars PROVE DuplicateInv'
  OBVIOUS
<1>1. /\ TypeOK /\ SharesTypeOK /\ DuplicateInv /\ ShareWorkerInv /\ twice \in Nat /\ rw.c \in Clusters
      /\ \A c \in Clusters : IsFiniteSet(LiveShares(c)) /\ Cardinality(LiveShares(c)) \in Nat
  BY FS_CardinalityType DEF AccountInv, ListInv, ReadInv, SharesInv, SharesTypeOK, DuplicateInv
<1>2. ASSUME UNCHANGED <<ram, twice>>, rw'.pc # "Create" \/ UNCHANGED rw PROVE DuplicateInv'
  BY <1>1, <1>2, LiveKept DEF DuplicateInv
<1>3. CASE (ListStep /\ UNCHANGED shareVars) \/ UNCHANGED accountVars
  BY <1>2, <1>3 DEF shareVars, accountVars
<1>4. ASSUME NEW c \in Clusters, ShareStart(c) PROVE DuplicateInv'
  BY <1>1, <1>2, <1>4, ShareStartMove DEF ShareStart
<1>5. CASE GetResourceShare
  <2>1. UNCHANGED <<ram, twice>>
    BY <1>5 DEF GetResourceShare
  <2>2. CASE rw'.pc = "Create"
    <3>1. rw'.c = rw.c /\ LiveShares(rw.c) = {}
      BY <1>1, <1>5, <2>2, GetMove
    <3>2. \A c \in Clusters : LiveShares(c)' = LiveShares(c)
      BY <2>1, LiveKept
    <3> QED
      BY <1>1, <2>1, <3>1, <3>2, FS_EmptySet DEF DuplicateInv
  <2> QED
    BY <1>2, <2>1, <2>2
<1>6. CASE CreateResourceShare
  <2>1. PICK c \in Clusters, l \in Lists : c = rw.c /\ l = rw.list
    BY <1>1, <1>6 DEF CreateResourceShare, ShareWorkerInv
  <2>2. /\ NewShare(c, l) /\ rw'.pc = "idle" /\ UNCHANGED twice /\ Cardinality(LiveShares(c)) <= twice
    BY <1>1, <1>6, <2>1, RWIdleFields DEF CreateResourceShare, DuplicateInv
  <2>3. /\ IsFiniteSet(LiveShares(c)') /\ Cardinality(LiveShares(c)') = Cardinality(LiveShares(c)) + 1
        /\ \A d \in Clusters \ {c} : LiveShares(d)' = LiveShares(d)
    BY <1>1, <2>2, OneMoreShare
  <2> QED
    BY <1>1, <2>2, <2>3 DEF DuplicateInv
<1>7. CASE DeleteResourceShare
  <2>1. rw'.pc = "RemoveFinalizer" /\ UNCHANGED twice
    BY <1>1, <1>7, RWGotoFields DEF DeleteResourceShare
  <2>2. ASSUME NEW d \in Clusters
        PROVE  IsFiniteSet(LiveShares(d)') /\ Cardinality(LiveShares(d)') <= 1 + twice
    <3>1. LiveShares(d)' \subseteq LiveShares(d)
      BY <1>1, <1>7, DeleteEffect
    <3>2. IsFiniteSet(LiveShares(d)') /\ Cardinality(LiveShares(d)') <= Cardinality(LiveShares(d))
      BY <1>1, <3>1, FS_Subset
    <3>3. Cardinality(LiveShares(d)') \in Nat /\ Cardinality(LiveShares(d)) <= 1 + twice
      BY <1>1, <3>2, FS_CardinalityType DEF DuplicateInv
    <3> QED
      BY <1>1, <3>2, <3>3
  <2> QED
    BY <2>1, <2>2 DEF DuplicateInv
<1>8. CASE ShareRelease \/ ShareFail
  BY <1>1, <1>2, <1>8, ReleaseMove, RWIdleFields DEF ShareFail
<1>9. ASSUME NEW c \in Clusters, NEW l \in Lists, LandLateShare(c, l) PROVE DuplicateInv'
  <2>1. NewShare(c, l) /\ UNCHANGED rw /\ twice' = twice + 1
    BY <1>9 DEF LandLateShare
  <2>2. /\ IsFiniteSet(LiveShares(c)') /\ Cardinality(LiveShares(c)') = Cardinality(LiveShares(c)) + 1
        /\ \A d \in Clusters \ {c} : LiveShares(d)' = LiveShares(d)
    BY <1>1, <2>1, OneMoreShare
  <2>3. \A d \in Clusters : /\ IsFiniteSet(LiveShares(d)')
                            /\ Cardinality(LiveShares(d)') <= Cardinality(LiveShares(d)) + 1
                            /\ Cardinality(LiveShares(d)') \in Nat
    BY <1>1, <2>2
  <2> QED
    BY <1>1, <2>1, <2>3 DEF DuplicateInv
<1>10. ASSUME NEW c \in Clusters, NEW s \in Slots, ShareMoves(c, s) PROVE DuplicateInv'
  <2>1. UNCHANGED <<rw, twice>> /\ \A d \in Clusters : LiveShares(d)' = LiveShares(d)
    BY <1>1, <1>10, MovesEffect DEF ShareMoves
  <2> QED
    BY <1>1, <2>1 DEF DuplicateInv
<1> QED
  BY <1>3, <1>4, <1>5, <1>6, <1>7, <1>8, <1>9, <1>10, AccountSteps

-----------------------------------------------------------------------------
(* Shares, annotations and finalizers.                                     *)

LEMMA SharedStep == AccountInv /\ [AccountNext]_accountVars => SharedInv'
<1> SUFFICES ASSUME AccountInv, [AccountNext]_accountVars, NEW c \in Clusters, c \in shared'
             PROVE  /\ c # MC /\ life'[c] # "gone" /\ annotated'[c] # NoList
                    /\ life'[c] \in {"live", "deleting"} => LiveShares(c)' # {}
  BY SharesTypeStep DEF SharedInv, SharesTypeOK
<1>1. /\ ListInv /\ TypeOK /\ SharesTypeOK /\ DuplicateInv /\ ShareWorkerInv
      /\ c \in shared => /\ c # MC /\ life[c] # "gone" /\ annotated[c] # NoList
                         /\ life[c] \in {"live", "deleting"} => LiveShares(c) # {}
  BY DEF AccountInv, ListInv, ReadInv, SharesInv, SharedInv
<1> DEFINE Kept == UNCHANGED <<life, annotated>> /\ LiveShares(c) \subseteq LiveShares(c)'
           Goal == /\ c # MC /\ life'[c] # "gone" /\ annotated'[c] # NoList
                   /\ life'[c] \in {"live", "deleting"} => LiveShares(c)' # {}
<1>2. Kept /\ c \in shared => Goal
  BY <1>1
<1>3. CASE UNCHANGED accountVars
  BY <1>2, <1>3, LiveKept DEF accountVars, listVars, shareVars
<1>4. CASE ListStep /\ UNCHANGED shareVars
  <2>1. c \in shared /\ LiveShares(c)' = LiveShares(c)
    BY <1>4, LiveKept DEF shareVars
  <2>2. /\ life[c] # "gone" => life'[c] # "gone" /\ (annotated[c] # NoList => annotated'[c] # NoList)
        /\ life[c] = "released" => life'[c] = "released"
        /\ life[c] # "released" => life[c] \in {"live", "deleting", "gone"}
    BY <1>1, <1>4, ListFrame
  <2> QED
    BY <1>1, <2>1, <2>2
<1>5. ASSUME NEW d \in Clusters, ShareStart(d) PROVE Goal
  BY <1>2, <1>5, LiveKept DEF ShareStart, listVars
<1>6. CASE GetResourceShare
  <2>1. Kept
    BY <1>6, LiveKept DEF GetResourceShare, listVars
  <2>2. c \in shared \/ (c = rw.c /\ rw.op = "apply" /\ rw.pc = "Get" /\ LiveShares(c) # {})
    BY <1>1, <1>6, GetMove
  <2> QED
    BY <1>1, <1>2, <2>1, <2>2 DEF ShareWorkerInv
<1>7. CASE CreateResourceShare
  <2>1. PICK d \in Clusters, l \in Lists : d = rw.c /\ l = rw.list
    BY <1>1, <1>7 DEF CreateResourceShare, ShareWorkerInv, SharesTypeOK
  <2>2. NewShare(d, l) /\ UNCHANGED <<life, annotated>> /\ shared' = shared \cup {d}
    BY <1>7, <2>1 DEF CreateResourceShare, listVars
  <2>3. LiveShares(c) \subseteq LiveShares(c)' /\ (c = d => LiveShares(c)' # {})
    BY <1>1, <2>2, NewShareEffect
  <2>4. d # MC /\ life[d] # "gone" /\ annotated[d] # NoList
    BY <1>1, <1>7, <2>1 DEF CreateResourceShare, ShareWorkerInv
  <2> QED
    BY <1>1, <1>2, <2>2, <2>3, <2>4
<1>8. CASE DeleteResourceShare
  <2>1. life[rw.c] = "released" /\ UNCHANGED <<life, annotated, shared>>
    BY <1>1, <1>8 DEF DeleteResourceShare, listVars, ShareWorkerInv
  <2>2. c # rw.c => LiveShares(c)' = LiveShares(c)
    BY <1>1, <1>8, DeleteEffect
  <2> QED
    BY <1>1, <2>1, <2>2
<1>9. CASE ShareRelease
  <2>1. c # rw.c /\ c \in shared /\ life'[c] = life[c] /\ UNCHANGED <<annotated, ram>>
    BY <1>1, <1>9, ReleaseMove
  <2> QED
    BY <1>1, <2>1, LiveKept
<1>10. CASE ShareFail
  BY <1>2, <1>10, LiveKept DEF ShareFail
<1>11. ASSUME NEW d \in Clusters, NEW l \in Lists, LandLateShare(d, l) PROVE Goal
  <2>1. LiveShares(c) \subseteq LiveShares(c)'
    BY <1>1, <1>11, NewShareEffect DEF LandLateShare
  <2> QED
    BY <1>2, <1>11, <2>1 DEF LandLateShare, listVars
<1>12. ASSUME NEW d \in Clusters, NEW s \in Slots, ShareMoves(d, s) PROVE Goal
  <2>1. LiveShares(c)' = LiveShares(c)
    BY <1>1, <1>12, MovesEffect
  <2> QED
    BY <1>2, <1>12, <2>1 DEF ShareMoves, listVars
<1> QED
  BY <1>3, <1>4, <1>5, <1>6, <1>7, <1>8, <1>9, <1>10, <1>11, <1>12, AccountSteps

LEMMA WithdrawnStep == AccountInv /\ [AccountNext]_accountVars => WithdrawnInv'
<1> SUFFICES ASSUME AccountInv, [AccountNext]_accountVars, twice' = 0 PROVE WithdrawnInv'
  BY DEF WithdrawnInv
<1>1. /\ ListInv /\ TypeOK /\ SharesTypeOK /\ DuplicateInv /\ ShareWorkerInv /\ WithdrawnInv
      /\ twice \in Nat /\ rw.c \in Clusters
  BY DEF AccountInv, ListInv, ReadInv, SharesInv, SharesTypeOK
<1>2. CASE \E c \in Clusters, l \in Lists : LandLateShare(c, l)
  BY <1>1, <1>2 DEF LandLateShare
<1>3. CASE ListStep /\ UNCHANGED shareVars
  <2>1. twice = 0 /\ UNCHANGED rw /\ \A c \in Clusters : LiveShares(c)' = LiveShares(c)
    BY <1>3, LiveKept DEF shareVars
  <2>2. \A c \in Clusters :
          life[c] # "gone" => life'[c] # "gone" /\ (annotated[c] # NoList => annotated'[c] # NoList)
    BY <1>1, <1>3, ListFrame
  <2> QED
    BY <1>1, <2>1, <2>2 DEF WithdrawnInv
<1>4. ASSUME twice = 0, UNCHANGED <<life, annotated>>,
             \A c \in Clusters : LiveShares(c)' = LiveShares(c),
             UNCHANGED rw \/ rw'.pc \notin {"Delete", "RemoveFinalizer"}
      PROVE  WithdrawnInv'
  BY <1>1, <1>4 DEF WithdrawnInv
<1>5. CASE UNCHANGED accountVars
  BY <1>4, <1>5, LiveKept DEF accountVars, listVars, shareVars
<1>6. ASSUME NEW c \in Clusters, ShareStart(c) PROVE WithdrawnInv'
  BY <1>1, <1>4, <1>6, ShareStartMove, LiveKept DEF ShareStart, listVars
<1>7. CASE GetResourceShare
  <2>1. twice = 0 /\ UNCHANGED <<life, annotated>> /\ \A c \in Clusters : LiveShares(c)' = LiveShares(c)
    BY <1>7, LiveKept DEF GetResourceShare, listVars
  <2>2. /\ rw'.pc = "Delete" => rw'.c = rw.c /\ LiveShares(rw.c) = {rw'.slot}
        /\ rw'.pc = "RemoveFinalizer" => rw'.c = rw.c /\ LiveShares(rw.c) = {}
    BY <1>1, <1>7, GetMove
  <2> QED
    BY <1>1, <2>1, <2>2 DEF WithdrawnInv
<1>8. CASE CreateResourceShare
  <2>1. PICK d \in Clusters, l \in Lists : d = rw.c /\ l = rw.list
    BY <1>1, <1>8 DEF CreateResourceShare, ShareWorkerInv, SharesTypeOK
  <2>2. NewShare(d, l) /\ UNCHANGED <<life, annotated>> /\ twice = 0 /\ rw'.pc = "idle"
    BY <1>8, <2>1, RWIdleFields DEF CreateResourceShare, listVars
  <2>3. \A c \in Clusters \ {d} : LiveShares(c)' = LiveShares(c)
    BY <1>1, <2>2, NewShareEffect
  <2>4. d # MC /\ life[d] # "gone" /\ annotated[d] # NoList
    BY <1>1, <1>8, <2>1 DEF CreateResourceShare, ShareWorkerInv
  <2> QED
    BY <1>1, <2>2, <2>3, <2>4 DEF WithdrawnInv
<1>9. CASE DeleteResourceShare
  <2>1. rw.pc = "Delete" /\ UNCHANGED <<life, annotated>> /\ twice = 0
    BY <1>9 DEF DeleteResourceShare, listVars
  <2>2. rw'.pc = "RemoveFinalizer" /\ rw'.c = rw.c
    BY <1>1, <1>9, RWGotoFields DEF DeleteResourceShare
  <2>3. \A c \in Clusters :
          LiveShares(c)' = IF c = rw.c THEN LiveShares(c) \ {rw.slot} ELSE LiveShares(c)
    BY <1>1, <1>9, DeleteEffect
  <2> QED
    BY <1>1, <2>1, <2>2, <2>3 DEF WithdrawnInv
<1>10. CASE ShareRelease
  <2>1. /\ rw.pc = "RemoveFinalizer" /\ life' = [life EXCEPT ![rw.c] = "gone"] /\ twice = 0
        /\ UNCHANGED <<annotated, ram>> /\ rw'.pc = "idle"
        /\ life \in [Clusters -> {"live", "deleting", "released", "gone"}]
    BY <1>1, <1>10, ReleaseMove
  <2>2. \A c \in Clusters : LiveShares(c)' = LiveShares(c)
    BY <2>1, LiveKept
  <2> QED
    BY <1>1, <2>1, <2>2 DEF WithdrawnInv
<1>11. CASE ShareFail
  BY <1>4, <1>11, LiveKept, RWIdleFields DEF ShareFail
<1>12. ASSUME NEW c \in Clusters, NEW s \in Slots, ShareMoves(c, s) PROVE WithdrawnInv'
  <2>1. \A d \in Clusters : LiveShares(d)' = LiveShares(d)
    BY <1>1, <1>12, MovesEffect
  <2> QED
    BY <1>4, <1>12, <2>1 DEF ShareMoves, listVars
<1> QED
  BY <1>2, <1>3, <1>5, <1>6, <1>7, <1>8, <1>9, <1>10, <1>11, <1>12, AccountSteps

\* The parts of SharedListInv, for a list at a time.
Known(l) == \/ \E c \in Clusters \ {MC} : annotated[c] = l
            \/ rw.pc # "idle" /\ rw.op = "apply" /\ rw.list = l
            \/ \E c \in Clusters : <<c, l>> \in lateRAM
            \/ \E c \in Clusters : \E s \in LiveShares(c) : ram[c][s].list = l

KnownAreThere == astray = 0 => \A l \in Lists : Known(l) => There(l)

LEMMA KnownLists == TypeOK /\ SharesTypeOK /\ ShareWorkerInv => (SharedListInv <=> KnownAreThere)
<1> SUFFICES ASSUME TypeOK, SharesTypeOK, ShareWorkerInv PROVE SharedListInv <=> KnownAreThere
  OBVIOUS
<1>1. /\ annotated \in [Clusters -> Lists \cup {NoList}]
      /\ rw.pc # "idle" /\ rw.op = "apply" => rw.list \in Lists
      /\ lateRAM \subseteq Clusters \X Lists
  BY DEF TypeOK, SharesTypeOK, ShareWorkerInv
<1>2. \A c \in Clusters : \A s \in LiveShares(c) : ram[c][s].list \in Lists
  BY DEF SharesTypeOK, LiveShares, Share
<1>3. \A call \in lateRAM : \E c \in Clusters, l \in Lists : call = <<c, l>> /\ call[2] = l
  BY <1>1
<1>4. \A c \in Clusters, l \in Lists : <<c, l>>[2] = l
  OBVIOUS
<1>5. ASSUME SharedListInv, astray = 0, NEW l \in Lists, Known(l) PROVE There(l)
  BY <1>4, <1>5 DEF SharedListInv, Known
<1>6. ASSUME astray = 0, \A l \in Lists : Known(l) => There(l) PROVE SharedListInv
  <2>1. \A c \in Clusters \ {MC} : annotated[c] # NoList => There(annotated[c])
    BY <1>1, <1>6 DEF Known
  <2>2. rw.pc # "idle" /\ rw.op = "apply" => There(rw.list)
    BY <1>1, <1>6 DEF Known
  <2>3. \A call \in lateRAM : There(call[2])
    BY <1>3, <1>6 DEF Known
  <2>4. \A c \in Clusters : \A s \in LiveShares(c) : There(ram[c][s].list)
    BY <1>2, <1>6 DEF Known
  <2> QED
    BY <2>1, <2>2, <2>3, <2>4 DEF SharedListInv
<1> QED
  BY <1>5, <1>6 DEF SharedListInv, KnownAreThere

LEMMA SharedListStep == AccountInv /\ [AccountNext]_accountVars => SharedListInv'
<1> SUFFICES ASSUME AccountInv, [AccountNext]_accountVars, astray' = 0, NEW l \in Lists, Known(l)'
             PROVE  There(l)'
  <2>1. AccountInv /\ [AccountNext]_accountVars => TypeOK' /\ SharesTypeOK' /\ ShareWorkerInv'
    BY ListKept, SharesTypeStep, ShareWorkerStep DEF AccountInv, SharesInv, ListInv, ReadInv
  <2>2. TypeOK' /\ SharesTypeOK' /\ ShareWorkerInv' => (SharedListInv' <=> KnownAreThere')
    BY KnownLists, PTL
  <2> QED
    BY <2>1, <2>2 DEF KnownAreThere
<1>1. /\ ListInv /\ TypeOK /\ ReadInv /\ SharesTypeOK /\ DuplicateInv /\ ShareWorkerInv /\ SharedListInv
      /\ annotated \in [Clusters -> Lists \cup {NoList}] /\ lateRAM \subseteq Clusters \X Lists
      /\ rw.c \in Clusters
  BY DEF AccountInv, ListInv, ReadInv, SharesInv, TypeOK, SharesTypeOK
<1>2. astray = 0 /\ (There(l) => There(l)')
  <2>1. CASE ListStep
    BY <1>1, <2>1, ListFrame
  <2>2. CASE UNCHANGED <<versions, astray>>
    BY <2>2 DEF There
  <2>3. ListStep \/ UNCHANGED <<versions, astray>>
    BY AccountSteps DEF GetResourceShare, CreateResourceShare, DeleteResourceShare, ShareRelease, Collect,
       ShareFail, ShareStart, LandLateShare, ShareMoves, accountVars, listVars
  <2> QED
    BY <2>1, <2>2, <2>3
<1>3. \A k \in Lists : Known(k) => There(k)
  BY <1>1, <1>2, KnownLists DEF KnownAreThere
<1>4. ASSUME UNCHANGED annotated,
             rw' = rw \/ rw'.pc = "idle" \/ (rw.pc # "idle" /\ rw'.op = rw.op /\ rw'.list = rw.list),
             \A c \in Clusters : <<c, l>> \in lateRAM' => Known(l),
             \A c \in Clusters : \A s \in LiveShares(c)' : ram'[c][s].list = l => Known(l)
      PROVE  There(l)'
  <2>1. Known(l)
    BY <1>4 DEF Known
  <2> QED
    BY <1>2, <1>3, <2>1
<1>5. ASSUME UNCHANGED ram
      PROVE  \A c \in Clusters : \A s \in LiveShares(c)' : ram'[c][s].list = l => Known(l)
  BY <1>5, LiveKept DEF Known
<1>6. UNCHANGED lateRAM => \A c \in Clusters : <<c, l>> \in lateRAM' => Known(l)
  BY DEF Known
<1>7. CASE UNCHANGED accountVars
  BY <1>4, <1>5, <1>6, <1>7 DEF accountVars, listVars, shareVars
<1>8. CASE ListStep /\ UNCHANGED shareVars
  <2>1. CASE \E c \in Clusters \ {MC} : annotated'[c] = l
    <3>1. PICK c \in Clusters \ {MC} : annotated'[c] = l
      BY <2>1
    <3>2. annotated[c] # NoList => There(annotated[c])
      BY <1>1, <1>2 DEF SharedListInv
    <3> QED
      BY <1>1, <1>8, <3>1, <3>2, AnnotatedFrame
  <2>2. CASE ~\E c \in Clusters \ {MC} : annotated'[c] = l
    <3>1. \A c \in Clusters : LiveShares(c)' = LiveShares(c)
      BY <1>8, LiveKept DEF shareVars
    <3>2. Known(l)
      BY <1>8, <2>2, <3>1 DEF Known, shareVars
    <3> QED
      BY <1>2, <1>3, <3>2
  <2> QED
    BY <2>1, <2>2
<1>9. ASSUME NEW c \in Clusters, ShareStart(c) PROVE There(l)'
  <2>1. UNCHANGED <<annotated, ram, lateRAM>>
    BY <1>9 DEF ShareStart, listVars
  <2>2. c # MC /\ (rw'.op = "apply" => rw'.list = annotated[c])
    BY <1>1, <1>9, ShareStartMove
  <2>3. Known(l)
    BY <1>5, <1>6, <2>1, <2>2 DEF Known
  <2> QED
    BY <1>2, <1>3, <2>3
<1>10. CASE GetResourceShare
  <2>1. UNCHANGED <<annotated, ram, lateRAM>>
    BY <1>10 DEF GetResourceShare, listVars
  <2>2. rw'.pc = "idle" \/ (rw.pc # "idle" /\ rw'.op = rw.op /\ rw'.list = rw.list)
    BY <1>1, <1>10, GetMove
  <2> QED
    BY <1>4, <1>5, <1>6, <2>1, <2>2
<1>11. CASE CreateResourceShare
  <2>1. PICK d \in Clusters, k \in Lists : d = rw.c /\ k = rw.list
    BY <1>1, <1>11 DEF CreateResourceShare, ShareWorkerInv
  <2>2. NewShare(d, k) /\ UNCHANGED <<annotated, lateRAM>> /\ rw'.pc = "idle" /\ Known(k)
    BY <1>1, <1>11, <2>1, RWIdleFields DEF CreateResourceShare, listVars, Known, ShareWorkerInv
  <2>3. \A c \in Clusters : \A s \in LiveShares(c)' :
          ram'[c][s].list = k \/ (s \in LiveShares(c) /\ ram'[c][s].list = ram[c][s].list)
    BY <1>1, <2>2, NewShareEffect
  <2>4. ASSUME NEW c \in Clusters, NEW s \in LiveShares(c)', ram'[c][s].list = l PROVE Known(l)
    <3>1. l = k \/ (s \in LiveShares(c) /\ ram[c][s].list = l)
      BY <2>3, <2>4
    <3> QED
      BY <2>2, <3>1 DEF Known
  <2> QED
    BY <1>4, <1>6, <2>2, <2>4
<1>12. CASE DeleteResourceShare
  <2>1. UNCHANGED <<annotated, lateRAM>> /\ rw.pc # "idle" /\ rw'.op = rw.op /\ rw'.list = rw.list
    BY <1>1, <1>12, RWGotoFields DEF DeleteResourceShare, listVars
  <2>2. \A c \in Clusters : \A s \in LiveShares(c)' :
          s \in LiveShares(c) /\ ram'[c][s].list = ram[c][s].list
    <3>1. ASSUME NEW c \in Clusters, NEW s \in LiveShares(c)'
          PROVE  s \in LiveShares(c) /\ s \in Slots
      BY <1>1, <1>12, <3>1, DeleteEffect DEF LiveShares
    <3> QED
      BY <1>1, <1>12, <3>1, DeleteEffect
  <2>3. \A c \in Clusters : \A s \in LiveShares(c)' : ram'[c][s].list = l => Known(l)
    BY <2>2 DEF Known
  <2> QED
    BY <1>4, <1>6, <2>1, <2>3
<1>13. CASE ShareRelease
  <2>1. UNCHANGED <<annotated, ram, lateRAM>> /\ rw'.pc = "idle"
    BY <1>1, <1>13, ReleaseMove
  <2> QED
    BY <1>4, <1>5, <1>6, <2>1
<1>14. CASE ShareFail
  <2>1. UNCHANGED <<annotated, ram>> /\ rw'.pc = "idle"
    BY <1>14, RWIdleFields DEF ShareFail
  <2>2. \A c \in Clusters : <<c, l>> \in lateRAM' => Known(l)
    <3>1. lateRAM' = lateRAM \/ (lateRAM' = lateRAM \cup {<<rw.c, rw.list>>} /\ rw.pc = "Create")
      BY <1>14 DEF ShareFail
    <3>2. rw.pc = "Create" => Known(rw.list)
      BY <1>1 DEF Known, ShareWorkerInv
    <3> QED
      BY <1>6, <3>1, <3>2 DEF Known
  <2> QED
    BY <1>4, <1>5, <2>1, <2>2
<1>15. ASSUME NEW c \in Clusters, NEW k \in Lists, LandLateShare(c, k) PROVE There(l)'
  <2>1. NewShare(c, k) /\ UNCHANGED <<annotated, rw>> /\ lateRAM' \subseteq lateRAM /\ Known(k)
    BY <1>15 DEF LandLateShare, listVars, Known
  <2>2. \A d \in Clusters : \A s \in LiveShares(d)' :
          ram'[d][s].list = k \/ (s \in LiveShares(d) /\ ram'[d][s].list = ram[d][s].list)
    BY <1>1, <2>1, NewShareEffect
  <2>3. \A d \in Clusters : \A s \in LiveShares(d)' : ram'[d][s].list = l => Known(l)
    BY <2>1, <2>2 DEF Known
  <2>4. \A d \in Clusters : <<d, l>> \in lateRAM' => Known(l)
    BY <2>1 DEF Known
  <2> QED
    BY <1>4, <2>1, <2>3, <2>4
<1>16. ASSUME NEW c \in Clusters, NEW s \in Slots, ShareMoves(c, s) PROVE There(l)'
  <2>1. UNCHANGED <<annotated, rw, lateRAM>>
    BY <1>16 DEF ShareMoves, listVars
  <2>2. \A d \in Clusters : \A t \in LiveShares(d)' :
          t \in LiveShares(d) /\ ram'[d][t].list = ram[d][t].list
    BY <1>1, <1>16, MovesEffect
  <2>3. \A d \in Clusters : \A t \in LiveShares(d)' : ram'[d][t].list = l => Known(l)
    BY <2>2 DEF Known
  <2> QED
    BY <1>4, <1>6, <2>1, <2>3
<1> QED
  BY <1>7, <1>8, <1>9, <1>10, <1>11, <1>12, <1>13, <1>14, <1>15, <1>16, AccountSteps

-----------------------------------------------------------------------------
(* The theorems.                                                           *)

LEMMA AccountInvInit == AccountInit => AccountInv
<1> SUFFICES ASSUME Init, SharesInit PROVE AccountInv
  BY DEF AccountInit
<1>1. ListInv /\ SharesTypeOK /\ DuplicateInv
  BY ListInvInit, SharesTypeInit, DuplicateInit
<1>2. /\ rw.pc = "idle" /\ shared = {} /\ lateRAM = {}
      /\ \A c \in Clusters : LiveShares(c) = {}
      /\ \A c \in Clusters \ {MC} : annotated[c] = NoList
  BY DEF SharesInit, RWIdle, LiveShares, NoShare, Init
<1> QED
  BY <1>1, <1>2 DEF AccountInv, SharesInv, ShareWorkerInv, SharedInv, WithdrawnInv, SharedListInv

LEMMA AccountInvStep == AccountInv /\ [AccountNext]_accountVars => AccountInv'
<1>1. AccountInv /\ [AccountNext]_accountVars => ListInv'
  BY ListKept DEF AccountInv, SharesInv
<1>2. AccountInv /\ [AccountNext]_accountVars => SharesInv'
  BY SharesTypeStep, ShareWorkerStep, DuplicateStep, SharedStep, WithdrawnStep, SharedListStep DEF SharesInv
<1> QED
  BY <1>1, <1>2 DEF AccountInv

\* The invariant of the prefix list still holds with the share reconciler at work, and
\* the one of the shares with it.
THEOREM AccountInvariant == AccountSpec => []AccountInv
  BY AccountInvInit, AccountInvStep, PTL DEF AccountSpec

\* Both reconcilers' state is well formed, also between the calls.
THEOREM AccountTypeCorrect == AccountSpec => []AccountTypeOK
<1>1. AccountInv => AccountTypeOK
  BY DEF AccountInv, ListInv, ReadInv, SharesInv, AccountTypeOK
<1> QED
  BY <1>1, AccountInvariant, PTL

\* RAM does not keep two shares from having one name: that the client looks before it
\* creates is enough, but for calls that land after they were given up (getResourceShare,
\* CreateResourceShare).
THEOREM OneShareWithoutLateCalls == AccountSpec => []DuplicatesAreFaults
<1>1. AccountInv => DuplicatesAreFaults
  BY DEF AccountInv, SharesInv, DuplicateInv, DuplicatesAreFaults
<1> QED
  BY <1>1, AccountInvariant, PTL

\* The share reconciler's finalizer is not removed while a share of the cluster is in
\* force, unless that share was made by a call it had given up (ShareReconciler.
\* reconcileDelete).
THEOREM WithdrawnBeforeGone == AccountSpec => []GoneMeansUnshared
<1>1. AccountInv => GoneMeansUnshared
  <2> SUFFICES ASSUME AccountInv, NEW c \in Clusters, life[c] = "gone", ~(twice > 0)
               PROVE  LiveShares(c) = {}
    BY DEF GoneMeansUnshared
  <2>1. twice = 0 /\ WithdrawnInv
    BY DEF AccountInv, SharesInv, SharesTypeOK
  <2> QED
    BY <2>1 DEF WithdrawnInv
<1> QED
  BY <1>1, AccountInvariant, PTL

\* A share that was applied for shares the list the annotation names now, although the
\* list it was made with was read before: as long as nothing went astray there is one
\* list, and a share found in place of a new one shares it too (ApplyResourceShare).
THEOREM AppliedIsShared == AccountSpec => []AppliedMeansShared
<1>1. AccountInv => AppliedMeansShared
  <2> SUFFICES ASSUME AccountInv, NEW c \in shared, life[c] = "live", ~(astray > 0)
               PROVE  \E s \in LiveShares(c) : ram[c][s].list = annotated[c]
    BY DEF AppliedMeansShared
  <2>1. astray = 0 /\ ReadInv /\ ForkInv /\ c \in Clusters \ {MC} /\ annotated[c] # NoList
    BY DEF AccountInv, SharesInv, SharedInv, SharesTypeOK, ListInv, ReadInv, TypeOK
  <2>2. PICK s \in LiveShares(c) : TRUE
    BY DEF AccountInv, SharesInv, SharedInv
  <2>3. annotated[c] \in Lists /\ ram[c][s].list \in Lists
    BY <2>1, <2>2 DEF AccountInv, SharesInv, SharesTypeOK, Share, LiveShares, ReadInv, TypeOK
  <2>4. There(annotated[c]) /\ There(ram[c][s].list)
    BY <2>1, <2>2 DEF AccountInv, SharesInv, SharedListInv
  <2> QED
    BY <2>1, <2>2, <2>3, <2>4, OneList
<1> QED
  BY <1>1, AccountInvariant, PTL

\* What is shared for a live cluster is a list that holds its entry: the annotation the
\* share reconciler waits for is written after the entry (addToPrefixList), and one list
\* serves all while nothing went astray.
THEOREM SharedAfterListed == AccountSpec => []SharedListHoldsEntry
<1>1. AccountInv => SharedListHoldsEntry
  <2> SUFFICES ASSUME AccountInv, NEW c \in Clusters, life[c] = "live", NEW s \in LiveShares(c),
                      ~(astray + twice > 0)
               PROVE  HasEntryIn(c, ram[c][s].list)
    BY DEF SharedListHoldsEntry
  <2>1. astray = 0 /\ twice = 0 /\ ReadInv /\ ForkInv
    BY DEF AccountInv, SharesInv, SharesTypeOK, ListInv, ReadInv, TypeOK
  <2>2. c \in Clusters \ {MC} /\ annotated[c] # NoList
    BY <2>1 DEF AccountInv, SharesInv, WithdrawnInv
  <2>3. annotated[c] \in Lists /\ ram[c][s].list \in Lists
    BY <2>1, <2>2 DEF AccountInv, SharesInv, SharesTypeOK, Share, LiveShares, ReadInv, TypeOK
  <2>4. There(annotated[c]) /\ There(ram[c][s].list)
    BY <2>1, <2>2 DEF AccountInv, SharesInv, SharedListInv
  <2>5. HasEntryIn(c, annotated[c])
    BY <2>1, <2>2 DEF AccountInv, ListInv, EntryInv, AnnotatedIsListed
  <2> QED
    BY <2>1, <2>3, <2>4, <2>5, OneList
<1> QED
  BY <1>1, AccountInvariant, PTL

\* The properties of the prefix list are not lost in the composition.
THEOREM ListUnderShares ==
  AccountSpec => [](ForksAreFaults /\ NothingLeftBehind /\ AnnotatedIsListed)
<1>1. AccountInv => ForksAreFaults /\ NothingLeftBehind /\ AnnotatedIsListed
  BY ForksBounded DEF AccountInv, ListInv, EntryInv, NothingLeftBehind, AnnotatedIsListed, ReadInv, TypeOK
<1> QED
  BY <1>1, AccountInvariant, PTL
=============================================================================
