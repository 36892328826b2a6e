----------------------------- MODULE OperatorProofs -----------------------------
(***************************************************************************)
(* The safety of the prefix list entries: IInv is inductive, so entries    *)
(* and registrations are always guarded, for every number of clusters and  *)
(* gateways, every cache lag and every number of failures and restarts.    *)
(***************************************************************************)
EXTENDS OperatorInv, OperatorTypes

(* The versions of one object: what they tell, and what the watch, a write  *)
(* and a new process do to them.                                            *)

LEMMA FollowsTransitive ==
  ASSUME NEW x, NEW y, NEW z
  PROVE  /\ ClusterFollows(x, y) /\ ClusterFollows(y, z) => ClusterFollows(x, z)
         /\ AWSFollows(x, y) /\ AWSFollows(y, z) => AWSFollows(x, z)
         /\ ClusterFollows(x, x) /\ AWSFollows(x, x)
BY DEF ClusterFollows, AWSFollows

LEMMA ClusterEnds ==
  ASSUME NEW now, NEW later \in Seq(ClusterRec), NEW server, ClusterLine(now, later, server)
  PROVE  /\ server.phase # "none" /\ ClusterFollows(now, server)
         /\ Tells(now, server) /\ Tells(server, server)
<1>1. Len(later) \in Nat
  OBVIOUS
<1>2. 0 \in 0..Len(later) /\ Len(later) \in 0..Len(later) /\ 0 <= Len(later)
  BY <1>1
<1>3. Version(now, later, 0) = now /\ Version(now, later, Len(later)) = server
  BY DEF Version, ClusterLine
<1> QED
  BY <1>2, <1>3 DEF ClusterLine

LEMMA AWSEnds ==
  ASSUME NEW now, NEW later \in Seq(AWSRec), NEW server, AWSLine(now, later, server)
  PROVE  AWSFollows(now, server) /\ (server.phase = "none" => ~server.vpc)
<1>1. Len(later) \in Nat
  OBVIOUS
<1>2. 0 \in 0..Len(later) /\ Len(later) \in 0..Len(later) /\ 0 <= Len(later)
  BY <1>1
<1>3. Version(now, later, 0) = now /\ Version(now, later, Len(later)) = server
  BY DEF Version, AWSLine
<1> QED
  BY <1>2, <1>3 DEF AWSLine

\* Appending a version leaves the others where they are.
LEMMA VersionAppend ==
  ASSUME NEW R, NEW now, NEW later \in Seq(R), NEW r \in R
  PROVE  /\ Len(later) \in Nat /\ Len(Append(later, r)) = Len(later) + 1
         /\ 0..(Len(later) + 1) = (0..Len(later)) \cup {Len(later) + 1}
         /\ Version(now, Append(later, r), Len(later) + 1) = r
         /\ \A i \in 0..Len(later) : Version(now, Append(later, r), i) = Version(now, later, i)
<1>1. /\ Len(later) \in Nat /\ Len(Append(later, r)) = Len(later) + 1
      /\ Append(later, r)[Len(later) + 1] = r
      /\ \A i \in 1..Len(later) : Append(later, r)[i] = later[i]
  BY AppendProperties
<1> QED
  BY <1>1 DEF Version

\* A step leaves the mode, or a user sets it; a write of the worker may also save one
\* that was left out as None.
ModeKept(server, r) ==
  \/ r.mode = server.mode
  \/ /\ server.phase = "live" /\ ModeChanges # {}
     /\ server.mode \in {"None", "invalid"} /\ r.mode \in Supported
ModeMoves(server, r) ==
  ModeKept(server, r) \/ (server.mode = "unset" /\ r.mode = "None")

LEMMA LeadsOn ==
  ASSUME NEW x, NEW server, NEW r, ModeLeads(x, server), Past(x) => Past(server)
  PROVE  ModeMoves(server, r) => ModeLeads(x, r)
BY DEF ModeLeads, ModeMoves, ModeKept, Supported, Past

LEMMA CopyKept ==
  ASSUME NEW x, NEW server, NEW r, CopyTells(x, server), ModeKept(server, r),
         Past(server) => Past(r)
  PROVE  CopyTells(x, r)
<1>1. ModeLeads(x, r)
  BY LeadsOn DEF CopyTells, ModeMoves
<1> QED
  BY <1>1 DEF CopyTells, ModeKept

\* What a write of r to a Cluster must not do: undo a deletion, change who
\* manages the cluster, take the guard of one that the cache shows alive, or
\* name a gateway without a guard.
GoodWrite(now, server, r) ==
  /\ ClusterFollows(server, r) /\ r.phase # "none"
  /\ ModeMoves(server, r)
  /\ r.phase = "live" /\ OperatorNamed(r) => Protected(r)
  /\ Protected(server) => Protected(r) \/ Past(now)

LEMMA ClusterAppend ==
  ASSUME NEW now, NEW later \in Seq(ClusterRec), NEW server, NEW r \in ClusterRec,
         ClusterLine(now, later, server), GoodWrite(now, server, r)
  PROVE  ClusterLine(now, Append(later, r), r)
<1> DEFINE L == Len(later)
           V(i) == Version(now, later, i)
           W(i) == Version(now, Append(later, r), i)
<1>1. /\ L \in Nat /\ Len(Append(later, r)) = L + 1 /\ 0..(L + 1) = (0..L) \cup {L + 1}
      /\ W(L + 1) = r /\ \A i \in 0..L : W(i) = V(i)
  BY VersionAppend
<1>2. \A i \in 0..L : ClusterFollows(V(i), server) /\ ClusterFollows(now, V(i))
  <2>1. 0 \in 0..L /\ L \in 0..L /\ (\A i \in 0..L : 0 <= i /\ i <= L)
    BY <1>1
  <2>2. V(0) = now /\ V(L) = server
    BY DEF Version, ClusterLine
  <2> QED
    BY <2>1, <2>2 DEF ClusterLine
<1>3. \A i \in 0..L : Tells(V(i), server)
  BY DEF ClusterLine
<1>4. \A i, j \in 0..L : i <= j => ClusterFollows(V(i), V(j))
  BY DEF ClusterLine
<1> HIDE DEF V, W, L
<1>5. \A i \in 0..L : ClusterFollows(V(i), r) /\ Tells(V(i), r)
  <2> SUFFICES ASSUME NEW i \in 0..L
               PROVE  ClusterFollows(V(i), r) /\ Tells(V(i), r)
    OBVIOUS
  <2>1. ClusterFollows(V(i), r)
    BY <1>2, FollowsTransitive DEF GoodWrite
  <2>2. V(i).phase = "live" => ~Past(now)
    BY <1>2 DEF ClusterFollows, Past
  <2>3. V(i).phase # "none" => ModeLeads(V(i), r)
    BY <1>2, <1>3, LeadsOn DEF Tells, GoodWrite, ClusterFollows
  <2>4. Tells(V(i), r)
    BY <1>3, <2>2, <2>3 DEF Tells, GoodWrite
  <2> QED
    BY <2>1, <2>4
<1>6. \A i, j \in 0..(L + 1) : i <= j => ClusterFollows(W(i), W(j))
  <2> SUFFICES ASSUME NEW i \in 0..(L + 1), NEW j \in 0..(L + 1), i <= j
               PROVE  ClusterFollows(W(i), W(j))
    OBVIOUS
  <2>1. CASE j \in 0..L
    <3>1. i \in 0..L
      BY <1>1, <2>1
    <3> QED
      BY <1>1, <1>4, <2>1, <3>1
  <2>2. CASE j = L + 1 /\ i \in 0..L
    BY <1>1, <1>5, <2>2
  <2>3. CASE j = L + 1 /\ i = L + 1
    BY <1>1, <2>3, FollowsTransitive
  <2> QED
    BY <1>1, <2>1, <2>2, <2>3
<1>7. \A i \in 0..(L + 1) : Tells(W(i), r)
  <2>1. server.phase # "none" /\ (server.mode = "unset" => "unset" \in UserModes)
    BY ClusterEnds DEF Tells
  <2>2. r.mode = "unset" => server.mode = "unset"
    BY DEF GoodWrite, ModeMoves, ModeKept, Supported
  <2>3. Tells(r, r)
    BY <2>1, <2>2 DEF Tells, GoodWrite, ModeLeads
  <2> QED
    BY <1>1, <1>5, <2>3
<1> QED
  BY <1>1, <1>6, <1>7 DEF ClusterLine, GoodWrite, L, W

LEMMA AWSAppend ==
  ASSUME NEW now, NEW later \in Seq(AWSRec), NEW server, NEW r \in AWSRec,
         AWSLine(now, later, server), AWSFollows(server, r), r.phase = "none" => ~r.vpc
  PROVE  /\ AWSLine(now, Append(later, r), r)
         /\ Ready(now, later) /\ Exists(r) => Ready(now, Append(later, r))
<1> DEFINE L == Len(later)
           V(i) == Version(now, later, i)
           W(i) == Version(now, Append(later, r), i)
<1>1. /\ L \in Nat /\ Len(Append(later, r)) = L + 1 /\ 0..(L + 1) = (0..L) \cup {L + 1}
      /\ W(L + 1) = r /\ \A i \in 0..L : W(i) = V(i)
  BY VersionAppend
<1>2. L \in 0..L /\ (\A i \in 0..L : i <= L) /\ V(L) = server
  BY <1>1 DEF AWSLine
<1>3. \A i, j \in 0..L : i <= j => AWSFollows(V(i), V(j))
  BY DEF AWSLine
<1>4. Ready(now, later) => \A i \in 0..L : Exists(V(i)) /\ V(i).vpc
  BY DEF Ready
<1> HIDE DEF V, W, L
<1>5. \A i \in 0..L : AWSFollows(V(i), r)
  BY <1>2, <1>3, FollowsTransitive
<1>6. \A i, j \in 0..(L + 1) : i <= j => AWSFollows(W(i), W(j))
  <2> SUFFICES ASSUME NEW i \in 0..(L + 1), NEW j \in 0..(L + 1), i <= j
               PROVE  AWSFollows(W(i), W(j))
    OBVIOUS
  <2>1. CASE j \in 0..L
    <3>1. i \in 0..L
      BY <1>1, <2>1
    <3> QED
      BY <1>1, <1>3, <2>1, <3>1
  <2>2. CASE j = L + 1 /\ i \in 0..L
    BY <1>1, <1>5, <2>2
  <2>3. CASE j = L + 1 /\ i = L + 1
    BY <1>1, <2>3, FollowsTransitive
  <2> QED
    BY <1>1, <2>1, <2>2, <2>3
<1>7. Ready(now, later) /\ Exists(r) => \A i \in 0..(L + 1) : Exists(W(i)) /\ W(i).vpc
  BY <1>1, <1>2, <1>4 DEF AWSFollows
<1> QED
  BY <1>1, <1>6, <1>7 DEF AWSLine, Ready, L, W

\* Delivering a version moves the others down by one.
LEMMA VersionTail ==
  ASSUME NEW R, NEW later \in Seq(R), later # <<>>
  PROVE  /\ Len(later) \in Nat \ {0} /\ Len(Tail(later)) = Len(later) - 1
         /\ \A i \in 0..Len(Tail(later)) :
              /\ i + 1 \in 0..Len(later)
              /\ \A now : Version(Head(later), Tail(later), i) = Version(now, later, i + 1)
<1>1. /\ Len(later) \in Nat \ {0} /\ Len(Tail(later)) = Len(later) - 1
      /\ \A i \in 1..Len(Tail(later)) : Tail(later)[i] = later[i + 1]
  BY HeadTailProperties, EmptySeq
<1>2. Head(later) = later[1]
  OBVIOUS
<1> QED
  BY <1>1, <1>2 DEF Version

LEMMA ClusterTail ==
  ASSUME NEW now, NEW later \in Seq(ClusterRec), NEW server, later # <<>>,
         ClusterLine(now, later, server)
  PROVE  /\ ClusterLine(Head(later), Tail(later), server)
         /\ ClusterFollows(now, Head(later))
<1> DEFINE L == Len(later)
           V(i) == Version(now, later, i)
           W(i) == Version(Head(later), Tail(later), i)
<1>1. /\ L \in Nat \ {0} /\ Len(Tail(later)) = L - 1
      /\ \A i \in 0..(L - 1) : i + 1 \in 0..L /\ W(i) = V(i + 1)
  BY VersionTail
<1>2. V(0) = now /\ W(0) = Head(later) /\ V(L) = server /\ server.phase # "none"
  BY DEF Version, ClusterLine
<1>3. \A i, j \in 0..L : i <= j => ClusterFollows(V(i), V(j))
  BY DEF ClusterLine
<1>4. \A i \in 0..L : Tells(V(i), server)
  BY DEF ClusterLine
<1> HIDE DEF V, W, L
<1>5. \A i, j \in 0..(L - 1) : i <= j => ClusterFollows(W(i), W(j))
  BY <1>1, <1>3
<1>6. \A i \in 0..(L - 1) : Tells(W(i), server)
  BY <1>1, <1>4
<1>7. W(L - 1) = server
  BY <1>1, <1>2
<1>8. ClusterFollows(now, Head(later))
  BY <1>1, <1>2, <1>3
<1> QED
  BY <1>1, <1>2, <1>5, <1>6, <1>7, <1>8 DEF ClusterLine, W

LEMMA AWSTail ==
  ASSUME NEW now, NEW later \in Seq(AWSRec), NEW server, later # <<>>,
         AWSLine(now, later, server)
  PROVE  /\ AWSLine(Head(later), Tail(later), server)
         /\ Ready(now, later) => Ready(Head(later), Tail(later))
<1> DEFINE L == Len(later)
           V(i) == Version(now, later, i)
           W(i) == Version(Head(later), Tail(later), i)
<1>1. /\ L \in Nat \ {0} /\ Len(Tail(later)) = L - 1
      /\ \A i \in 0..(L - 1) : i + 1 \in 0..L /\ W(i) = V(i + 1)
  BY VersionTail
<1>2. V(L) = server /\ (server.phase = "none" => ~server.vpc)
  BY DEF AWSLine
<1>3. \A i, j \in 0..L : i <= j => AWSFollows(V(i), V(j))
  BY DEF AWSLine
<1>4. Ready(now, later) => \A i \in 0..L : Exists(V(i)) /\ V(i).vpc
  BY DEF Ready
<1> HIDE DEF V, W, L
<1>5. \A i, j \in 0..(L - 1) : i <= j => AWSFollows(W(i), W(j))
  BY <1>1, <1>3
<1>6. W(L - 1) = server
  BY <1>1, <1>2
<1>7. Ready(now, later) => \A i \in 0..(L - 1) : Exists(W(i)) /\ W(i).vpc
  BY <1>1, <1>4
<1> QED
  BY <1>1, <1>2, <1>5, <1>6, <1>7 DEF AWSLine, Ready, W

\* A new process has the server's version and no other.
LEMMA SingleVersion ==
  /\ \A now, later, server :
       ClusterLine(now, later, server) /\ Tells(server, server) => ClusterLine(server, <<>>, server)
  /\ \A now, later, server :
       AWSLine(now, later, server) => AWSLine(server, <<>>, server)
BY FollowsTransitive DEF ClusterLine, AWSLine, Version

-----------------------------------------------------------------------------
(* What the invariant tells of one cluster, and what keeps its parts.      *)

LEMMA Known ==
  ASSUME IInv, NEW c \in Clusters
  PROVE  /\ cluster[c] \in ClusterRec /\ cached[c] \in ClusterRec
         /\ awsCluster[c] \in AWSRec /\ cachedAWS[c] \in AWSRec
         /\ cluster[c].phase # "none" /\ ClusterFollows(cached[c], cluster[c])
         /\ Tells(cached[c], cluster[c]) /\ Tells(cluster[c], cluster[c])
         /\ AWSFollows(cachedAWS[c], awsCluster[c])
         /\ awsCluster[c].phase = "none" => ~awsCluster[c].vpc
<1>1. /\ cluster[c] \in ClusterRec /\ cached[c] \in ClusterRec
      /\ awsCluster[c] \in AWSRec /\ cachedAWS[c] \in AWSRec
      /\ feed[c] \in Seq(ClusterRec) /\ awsFeed[c] \in Seq(AWSRec)
  BY DEF IInv, TypeOK, StoreTypeOK
<1>2. ClusterLine(cached[c], feed[c], cluster[c]) /\ AWSLine(cachedAWS[c], awsFeed[c], awsCluster[c])
  BY DEF IInv, ClusterHistory, AWSHistory
<1> QED
  BY <1>1, <1>2, ClusterEnds, AWSEnds

\* A good write of a Cluster, and no other change of the objects.
LEMMA ClusterWrite ==
  ASSUME IInv, NEW c \in Clusters, NEW r \in ClusterRec, StoreCluster(c, r), cached' = cached,
         GoodWrite(cached[c], cluster[c], r)
  PROVE  /\ ClusterHistory' /\ cluster'[c] = r
         /\ \A d \in Clusters : /\ d # c => cluster'[d] = cluster[d]
                                /\ ClusterFollows(cluster[d], cluster'[d])
                                /\ ModeMoves(cluster[d], cluster'[d])
<1>1. cluster' = [cluster EXCEPT ![c] = r] /\ cluster \in [Clusters -> ClusterRec]
      /\ feed \in [Clusters -> Seq(ClusterRec)]
  BY DEF StoreCluster, IInv, TypeOK, StoreTypeOK
<1>2. cluster'[c] = r /\ \A d \in Clusters : d # c => cluster'[d] = cluster[d]
  BY <1>1
<1>3. \A d \in Clusters : ClusterLine(cached[d], feed[d], cluster[d])
  BY DEF IInv, ClusterHistory
<1>4. ASSUME NEW d \in Clusters
      PROVE  ClusterLine(cached[d], feed'[d], cluster'[d])
  <2>1. CASE d = c /\ r # cluster[c]
    <3>1. feed'[d] = Append(feed[d], r)
      BY <1>1, <2>1 DEF StoreCluster
    <3> QED
      BY <1>1, <1>2, <1>3, <2>1, <3>1, ClusterAppend
  <2>2. CASE ~(d = c /\ r # cluster[c])
    <3>1. feed'[d] = feed[d] /\ cluster'[d] = cluster[d]
      BY <1>1, <1>2, <2>2 DEF StoreCluster
    <3> QED
      BY <1>3, <3>1
  <2> QED
    BY <2>1, <2>2
<1>5. ClusterHistory'
  BY <1>4 DEF ClusterHistory
<1>6. ASSUME NEW d \in Clusters
      PROVE  /\ ClusterFollows(cluster[d], cluster'[d])
             /\ ModeMoves(cluster[d], cluster'[d])
  BY <1>2, FollowsTransitive DEF GoodWrite, ModeMoves, ModeKept
<1> QED
  BY <1>2, <1>5, <1>6

\* A write of an AWSCluster that keeps its VPC.
LEMMA AWSWrite ==
  ASSUME IInv, NEW c \in Clusters, NEW r \in AWSRec, StoreAWS(c, r), cachedAWS' = cachedAWS,
         AWSFollows(awsCluster[c], r), r.phase = "none" => ~r.vpc
  PROVE  /\ AWSHistory'
         /\ \A d \in Clusters : (d = c => Exists(r)) /\ Ready(cachedAWS[d], awsFeed[d])
                                  => Ready(cachedAWS'[d], awsFeed'[d])
<1>1. awsCluster' = [awsCluster EXCEPT ![c] = r] /\ awsCluster \in [Clusters -> AWSRec]
      /\ awsFeed \in [Clusters -> Seq(AWSRec)]
  BY DEF StoreAWS, IInv, TypeOK, StoreTypeOK
<1>2. awsCluster'[c] = r /\ \A d \in Clusters : d # c => awsCluster'[d] = awsCluster[d]
  BY <1>1
<1>3. \A d \in Clusters : AWSLine(cachedAWS[d], awsFeed[d], awsCluster[d])
  BY DEF IInv, AWSHistory
<1>4. ASSUME NEW d \in Clusters
      PROVE  /\ AWSLine(cachedAWS[d], awsFeed'[d], awsCluster'[d])
             /\ (d = c => Exists(r)) /\ Ready(cachedAWS[d], awsFeed[d])
                  => Ready(cachedAWS[d], awsFeed'[d])
  <2>1. CASE d = c /\ r # awsCluster[c]
    <3>1. awsFeed'[d] = Append(awsFeed[d], r) /\ awsCluster'[d] = r
      BY <1>1, <1>2, <2>1 DEF StoreAWS
    <3>2. /\ awsFeed[d] \in Seq(AWSRec) /\ AWSLine(cachedAWS[d], awsFeed[d], awsCluster[d])
          /\ AWSFollows(awsCluster[d], r)
      BY <1>1, <1>3, <2>1
    <3>3. /\ AWSLine(cachedAWS[d], Append(awsFeed[d], r), r)
          /\ Ready(cachedAWS[d], awsFeed[d]) /\ Exists(r)
               => Ready(cachedAWS[d], Append(awsFeed[d], r))
      BY <3>2, AWSAppend
    <3> QED
      BY <2>1, <3>1, <3>3
  <2>2. CASE ~(d = c /\ r # awsCluster[c])
    <3>1. awsFeed'[d] = awsFeed[d] /\ awsCluster'[d] = awsCluster[d]
      BY <1>1, <1>2, <2>2 DEF StoreAWS
    <3> QED
      BY <1>3, <3>1
  <2> QED
    BY <2>1, <2>2
<1> QED
  BY <1>4 DEF AWSHistory

-----------------------------------------------------------------------------
(* What a step that leaves the caches, the attachments and the list alone   *)
(* may do to the worker and to the objects.                                 *)

Parts == ClusterHistory /\ AWSHistory /\ EntryInv /\ DetachInv /\ NTInv /\ SHInv
objects == <<cluster, awsCluster, cached, cachedAWS, feed, awsFeed>>

\* The worker keeps its request while it registers, or has taken a live one, and
\* is not about to list it.
NTOnward ==
  \/ nt' = nt
  \/ /\ nt'.pc # "AddToPrefixList"
     /\ \/ nt'.pc \notin FinalizerStages \cup RegisterStages
        \/ nt'.c = nt.c /\ nt.pc \in FinalizerStages \cup RegisterStages
        \/ ~Past(cached[nt'.c])

LEMMA Steady ==
  ASSUME IInv, UNCHANGED <<cached, attachment, prefixList>>, NTOnward,
         \A d \in Clusters : /\ ClusterFollows(cluster[d], cluster'[d])
                             /\ ModeMoves(cluster[d], cluster'[d]),
         \A d \in Clusters : HasEntry(d) \/ Listing(d) =>
            /\ Protected(cluster[d]) => Protected(cluster'[d])
            /\ Ready(cachedAWS[d], awsFeed[d]) => Ready(cachedAWS'[d], awsFeed'[d])
  PROVE  /\ EntryInv' /\ DetachInv'
         /\ sh' = sh => SHInv'
         /\ nt' = nt /\ (\A d \in Clusters : /\ Protected(cluster[d]) => Protected(cluster'[d])
                                            /\ ModeKept(cluster[d], cluster'[d]))
              => NTInv'
<1>1. nt.c \in Clusters /\ sh.c \in Clusters
  BY DEF IInv, TypeOK, NTTypeOK, SHTypeOK
<1>2. EntryInv'
  <2> SUFFICES ASSUME NEW c \in Clusters, HasEntry(c)' \/ Listing(c)'
               PROVE  /\ Protected(cluster'[c]) /\ cluster'[c].mode = GSM
                      /\ \E t \in Gateways : Attached(t, c)'
                      /\ Ready(cachedAWS'[c], awsFeed'[c])
    BY DEF EntryInv
  <2>1. HasEntry(c) \/ Listing(c)
    BY DEF HasEntry, Listing, NTOnward
  <2>2. /\ Protected(cluster[c]) /\ cluster[c].mode = GSM
        /\ \E t \in Gateways : Attached(t, c)
        /\ Ready(cachedAWS[c], awsFeed[c])
    BY <2>1 DEF IInv, EntryInv
  <2>3. cluster'[c].mode = GSM
    BY <2>2 DEF ModeMoves, ModeKept, GSM
  <2> QED
    BY <2>1, <2>2, <2>3 DEF Attached
<1>3. DetachInv'
  BY DEF IInv, DetachInv, NTOnward, FinalizerStages, RegisterStages
<1>4. sh' = sh => SHInv'
  BY <1>1 DEF IInv, SHInv, ClusterFollows
<1>5. nt' = nt /\ (\A d \in Clusters : /\ Protected(cluster[d]) => Protected(cluster'[d])
                                     /\ ModeKept(cluster[d], cluster'[d])) => NTInv'
  <2> SUFFICES ASSUME nt' = nt, \A d \in Clusters : /\ Protected(cluster[d]) => Protected(cluster'[d])
                                                  /\ ModeKept(cluster[d], cluster'[d])
               PROVE  NTInv'
    OBVIOUS
  <2>1. nt.pc # "idle" => CopyTells(nt.obj, cluster'[nt.c])
    BY <1>1, CopyKept DEF IInv, NTInv, ClusterFollows
  <2>2. cluster[nt.c].mode = GSM => cluster'[nt.c].mode = GSM
    BY <1>1 DEF ModeKept, GSM
  <2> QED
    BY <1>1, <2>1, <2>2 DEF IInv, NTInv, HasEntry
<1> QED
  BY <1>2, <1>3, <1>4, <1>5

LEMMA QuietStep ==
  ASSUME IInv, UNCHANGED objects, UNCHANGED <<attachment, prefixList>>, NTOnward
  PROVE  /\ ClusterHistory' /\ AWSHistory' /\ EntryInv' /\ DetachInv'
         /\ sh' = sh => SHInv'
         /\ nt' = nt => NTInv'
<1>1. ClusterHistory' /\ AWSHistory'
  BY DEF IInv, ClusterHistory, AWSHistory, objects
<1>2. \A d \in Clusters : /\ ClusterFollows(cluster[d], cluster'[d])
                         /\ ModeKept(cluster[d], cluster'[d]) /\ ModeMoves(cluster[d], cluster'[d])
  BY FollowsTransitive DEF objects, ModeKept, ModeMoves
<1> QED
  BY <1>1, <1>2, Steady DEF objects

LEMMA ClusterStep ==
  ASSUME IInv, NEW c \in Clusters, NEW r \in ClusterRec, StoreCluster(c, r),
         UNCHANGED <<awsCluster, cached, cachedAWS, awsFeed, attachment, prefixList>>, NTOnward,
         GoodWrite(cached[c], cluster[c], r),
         HasEntry(c) \/ Listing(c) => Protected(r)
  PROVE  /\ ClusterHistory' /\ AWSHistory' /\ EntryInv' /\ DetachInv'
         /\ sh' = sh => SHInv'
         /\ nt' = nt /\ (Protected(cluster[c]) => Protected(r)) /\ ModeKept(cluster[c], r) => NTInv'
         /\ cluster'[c] = r
         /\ \A d \in Clusters : ClusterFollows(cluster[d], cluster'[d])
<1>1. AWSHistory'
  BY DEF IInv, AWSHistory
<1>2. \A d \in Clusters : (HasEntry(d) \/ Listing(d)) /\ Protected(cluster[d]) => Protected(cluster'[d])
  BY ClusterWrite
<1>3. (Protected(cluster[c]) => Protected(r)) /\ ModeKept(cluster[c], r)
        => \A d \in Clusters : /\ Protected(cluster[d]) => Protected(cluster'[d])
                              /\ ModeKept(cluster[d], cluster'[d])
  BY ClusterWrite DEF ModeKept
<1> QED
  BY <1>1, <1>2, <1>3, ClusterWrite, Steady

LEMMA AWSStep ==
  ASSUME IInv, NEW c \in Clusters, NEW r \in AWSRec, StoreAWS(c, r),
         UNCHANGED <<cluster, cached, cachedAWS, feed, attachment, prefixList>>, NTOnward,
         AWSFollows(awsCluster[c], r), r.phase = "none" => ~r.vpc,
         HasEntry(c) \/ Listing(c) => Exists(r)
  PROVE  /\ ClusterHistory' /\ AWSHistory' /\ EntryInv' /\ DetachInv'
         /\ sh' = sh => SHInv'
         /\ nt' = nt => NTInv'
<1>1. ClusterHistory'
  BY DEF IInv, ClusterHistory
<1>2. \A d \in Clusters : /\ ClusterFollows(cluster[d], cluster'[d])
                         /\ ModeKept(cluster[d], cluster'[d]) /\ ModeMoves(cluster[d], cluster'[d])
  BY FollowsTransitive DEF ModeKept, ModeMoves
<1>3. /\ AWSHistory'
      /\ \A d \in Clusters : HasEntry(d) \/ Listing(d) =>
           (Ready(cachedAWS[d], awsFeed[d]) => Ready(cachedAWS'[d], awsFeed'[d]))
  BY AWSWrite
<1> QED
  BY <1>1, <1>2, <1>3, Steady

\* What the patches of the two finalizers leave as it is.
LEMMA PatchKeeps ==
  ASSUME NEW x \in ClusterRec, NEW object \in ClusterRec, NEW f \in Finalizers
  PROVE  LET a == FinalizerAdded(object, x, f)
             r == FinalizerRemoved(object, x, f)
         IN  /\ a.phase = object.phase /\ a.mode = object.mode /\ a.tgw = object.tgw
             /\ f \in x.fins => a.fins = object.fins
             /\ f \notin x.fins => \A g : g \in a.fins <=> g \in x.fins \/ g = f
             /\ r.phase = object.phase /\ r.mode = object.mode /\ r.tgw = object.tgw
             /\ f \notin x.fins => r.fins = object.fins
             /\ f \in x.fins => \A g : g \in r.fins <=> g \in x.fins /\ g # f
<1>1. (x.fins \cup {f} = x.fins <=> f \in x.fins) /\ (x.fins \ {f} = x.fins <=> f \notin x.fins)
  OBVIOUS
<1> QED
  BY <1>1 DEF FinalizerAdded, FinalizerRemoved, PatchedFins, ClusterRec

LEMMA AWSPatchKeeps ==
  ASSUME NEW x \in AWSRec, NEW object \in AWSRec, NEW f \in Finalizers
  PROVE  LET a == FinalizerAdded(object, x, f)
             r == FinalizerRemoved(object, x, f)
         IN  /\ a.phase = object.phase /\ a.vpc = object.vpc
             /\ r.phase = object.phase /\ r.vpc = object.vpc
BY DEF FinalizerAdded, FinalizerRemoved, PatchedFins, AWSRec

\* A write that changes neither the phase nor the finalizers, and names a gateway
\* only where there is a guard, is a good one.
LEMMA Touched ==
  ASSUME IInv, NEW c \in Clusters, NEW r \in ClusterRec,
         r.phase = cluster[c].phase, r.fins = cluster[c].fins,
         ModeMoves(cluster[c], r),
         \/ r.tgw = cluster[c].tgw /\ r.mode = cluster[c].mode
         \/ Protected(cluster[c])
  PROVE  /\ GoodWrite(cached[c], cluster[c], r)
         /\ HasEntry(c) \/ Listing(c) => Protected(r)
         /\ Protected(cluster[c]) => Protected(r)
<1>1. Protected(r) <=> Protected(cluster[c])
  BY DEF Protected
<1>2. HasEntry(c) \/ Listing(c) => Protected(cluster[c])
  BY DEF IInv, EntryInv
<1> QED
  BY <1>1, <1>2, Known DEF GoodWrite, ClusterFollows, Past, Tells, OperatorNamed

\* A status update is such a write, or none.
LEMMA StatusStep ==
  ASSUME IInv, NEW c \in Clusters, NEW x \in ClusterRec, StatusUpdated(c, x),
         UNCHANGED <<awsCluster, cached, cachedAWS, awsFeed, attachment, prefixList, sh>>, NTOnward
  PROVE  /\ ClusterHistory' /\ AWSHistory' /\ EntryInv' /\ DetachInv' /\ SHInv'
         /\ cluster'[c].mode = cluster[c].mode /\ cluster'[c].phase = cluster[c].phase
         /\ Protected(cluster[c]) => Protected(cluster'[c])
<1> DEFINE r == IF Exists(cluster[c]) /\ IsCurrent(c, x)
                THEN [cluster[c] EXCEPT !.ready = x.ready] ELSE cluster[c]
<1>1. r \in ClusterRec /\ r.phase = cluster[c].phase /\ r.fins = cluster[c].fins
      /\ r.mode = cluster[c].mode /\ r.tgw = cluster[c].tgw
  BY Known DEF ClusterRec
<1>2. StoreCluster(c, r)
  BY DEF StatusUpdated
<1> HIDE DEF r
<1>3. GoodWrite(cached[c], cluster[c], r) /\ (HasEntry(c) \/ Listing(c) => Protected(r))
      /\ (Protected(cluster[c]) => Protected(r))
  BY <1>1, Touched DEF ModeMoves, ModeKept
<1> QED
  BY <1>1, <1>2, <1>3, ClusterStep

-----------------------------------------------------------------------------
(* The network topology reconciler.                                         *)

LEMMA NTEnds ==
  ASSUME NTRetry \/ NTDone
  PROVE  NTOnward /\ NTInv'
<1>1. nt'.pc = "idle"
  BY DEF NTRetry, NTDone, NTIdle
<1> QED
  BY <1>1 DEF NTOnward, NTInv, FinalizerStages, RegisterStages, UnregisterStages, ReleaseStages

\* Only the mode and the phase of the copy matter; a fresh one tells everything.
LEMMA SameCopy ==
  ASSUME NEW x, NEW y, NEW server, y.mode = x.mode, y.phase = x.phase
  PROVE  (CopyTells(x, server) => CopyTells(y, server)) /\ CopyTells(x, y)
BY DEF CopyTells, ModeLeads, Past

\* Register may end anywhere, as long as the step leaves the Cluster's guard.
LEMMA NTRegisterEnds ==
  ASSUME IInv, NEW condition, NEW again,
         NTRegistered(condition, again) \/ NTRegisterFails,
         nt.pc \in RegisterStages, Protected(cluster[nt.c]) => Protected(cluster'[nt.c]),
         CopyTells(nt.obj, cluster'[nt.c])
  PROVE  NTOnward /\ NTInv'
<1>1. /\ nt'.pc = "UpdateStatus" /\ nt'.c = nt.c
      /\ nt'.obj.mode = nt.obj.mode /\ nt'.obj.phase = nt.obj.phase
  <2> DEFINE o == [nt.obj EXCEPT !.ready = condition]
  <2>1. o.mode = nt.obj.mode /\ o.phase = nt.obj.phase
    BY DEF IInv, TypeOK, NTTypeOK, ClusterRec
  <2>2. \/ nt' = [nt EXCEPT !.pc = "UpdateStatus", !.obj = o, !.again = again]
        \/ nt' = [nt EXCEPT !.pc = "UpdateStatus", !.again = TRUE]
    BY DEF NTRegistered, NTRegisterFails
  <2> HIDE DEF o
  <2> QED
    BY <2>1, <2>2 DEF IInv, TypeOK, NTTypeOK
<1>2. Protected(cluster[nt.c])
  BY DEF IInv, NTInv
<1>3. CopyTells(nt'.obj, cluster'[nt.c])
  BY <1>1, SameCopy
<1> QED
  BY <1>1, <1>2, <1>3 DEF NTOnward, NTInv, FinalizerStages, RegisterStages, UnregisterStages, ReleaseStages

\* The steps that only decide, publish or concern the gateway.
LEMMA NTQuietSteps ==
  ASSUME IInv, UNCHANGED sh,
         \/ NTInvalidMode \/ NTIDMissing \/ NTNoGateway \/ NTNotReady \/ NTNoVPC \/ NTPublish
         \/ NTUnregister \/ NTDeleteGateway
         \/ \E t \in Gateways : NTFindGateway(t) \/ NTCreateGateway(t)
  PROVE  Parts'
<1>1. UNCHANGED objects /\ UNCHANGED <<attachment, prefixList>>
  BY DEF NTInvalidMode, NTIDMissing, NTNoGateway, NTNotReady, NTNoVPC, NTPublish, NTUnregister,
         NTDeleteGateway, NTFindGateway, NTCreateGateway, storeVars, storeButQueue, networkVars,
         objects, PublishSNSMessage, DeleteGateway, CreateGateway
<1>2. NTOnward /\ NTInv'
  <2>0. nt \in [pc: NTStages, c: Clusters, obj: ClusterRec, mode: Modes,
                gw: Gateways \cup {NoGateway}, up: BOOLEAN, vpc: BOOLEAN, again: BOOLEAN]
    BY DEF IInv, TypeOK, NTTypeOK
  <2>1. UNCHANGED <<cluster, cached, prefixList>>
        /\ (nt.pc # "idle" => CopyTells(nt.obj, cluster'[nt.c]))
    BY <1>1 DEF objects, IInv, NTInv
  <2>2. CASE NTInvalidMode \/ NTIDMissing \/ NTNoGateway \/ NTNotReady \/ NTNoVPC \/ NTPublish
    BY <2>1, <2>2, NTRegisterEnds
    DEF NTInvalidMode, NTIDMissing, NTNoGateway, NTNotReady, NTNoVPC, NTPublish, NTAt, RegisterStages
  <2>3. ASSUME NEW t \in Gateways, NTFindGateway(t) \/ NTCreateGateway(t)
        PROVE  NTOnward /\ NTInv'
    <3>1. /\ nt.pc = "Register" /\ nt'.pc = "SaveGateway" /\ nt'.c = nt.c /\ nt'.obj = nt.obj
          /\ nt'.mode = nt.obj.mode
      BY <2>0, <2>3 DEF NTFindGateway, NTCreateGateway, NTAt
    <3>2. nt.obj.mode = GSM => cluster[nt.c].mode = GSM
      BY <3>1 DEF IInv, NTInv, CopyTells, ModeLeads, GSM, Supported
    <3>3. Protected(cluster[nt.c])
      BY <3>1 DEF IInv, NTInv, RegisterStages
    <3> QED
      BY <2>1, <3>1, <3>2, <3>3
      DEF NTInv, NTOnward, FinalizerStages, RegisterStages, UnregisterStages, ReleaseStages
  <2>4. CASE NTUnregister
    <3>1. CASE NTRetry
      BY <3>1, NTEnds
    <3>2. CASE ~NTRetry
      <4>1. /\ nt.pc = "Unregister" /\ nt'.c = nt.c /\ nt'.obj = nt.obj /\ nt'.mode = nt.obj.mode
            /\ nt'.vpc = cachedAWS[nt.c].vpc
            /\ \/ nt'.pc = "RemoveFromPrefixList"
               \/ nt'.pc \in {"Detach", "RemoveAWSFinalizer"}
                  /\ (nt.obj.mode # GSM \/ ~Exists(cachedAWS[nt.c]))
        BY <2>0, <2>4, <3>2 DEF NTUnregister, NTAt, GSM
      <4>2. /\ cluster[nt.c].mode = GSM => nt.obj.mode = GSM
            /\ Past(cached[nt.c]) /\ Past(nt.obj) /\ nt.c \in Clusters
        BY <2>0, <4>1 DEF IInv, NTInv, UnregisterStages, CopyTells, ModeLeads, GSM
      <4>3. HasEntry(nt.c) => /\ cluster[nt.c].mode = GSM
                              /\ Exists(cachedAWS[nt.c]) /\ cachedAWS[nt.c].vpc
        <5> SUFFICES ASSUME HasEntry(nt.c)
                     PROVE  /\ cluster[nt.c].mode = GSM
                            /\ Exists(cachedAWS[nt.c]) /\ cachedAWS[nt.c].vpc
          OBVIOUS
        <5>1. cluster[nt.c].mode = GSM /\ Ready(cachedAWS[nt.c], awsFeed[nt.c])
          BY <4>2 DEF IInv, EntryInv
        <5>2. 0 \in 0..Len(awsFeed[nt.c])
          <6>1. awsFeed[nt.c] \in Seq(AWSRec)
            BY <4>2 DEF IInv, TypeOK, StoreTypeOK
          <6> QED
            BY <6>1
        <5> QED
          BY <5>1, <5>2 DEF Ready, Version
      <4> QED
        BY <2>1, <4>1, <4>2, <4>3
        DEF NTOnward, NTInv, HasEntry, FinalizerStages, RegisterStages, UnregisterStages, ReleaseStages
    <3> QED
      BY <3>1, <3>2
  <2>5. CASE NTDeleteGateway
    <3>1. CASE NTRetry
      BY <3>1, NTEnds
    <3>2. CASE ~NTRetry
      BY <2>0, <2>1, <2>5, <3>2
      DEF NTDeleteGateway, NTAt, NTGoto, IInv, NTInv, NTOnward, HasEntry, FinalizerStages,
          RegisterStages, UnregisterStages, ReleaseStages
    <3> QED
      BY <3>1, <3>2
  <2> QED
    BY <2>2, <2>3, <2>4, <2>5
<1> QED
  BY <1>1, <1>2, QuietStep DEF Parts

\* An AWSCluster the cache and the server both have, with a VPC in the cache, is
\* ready in all versions.
LEMMA ReadyWhenSeen ==
  ASSUME NEW now \in AWSRec, NEW later \in Seq(AWSRec), NEW server \in AWSRec,
         AWSLine(now, later, server), Exists(now), now.vpc, Exists(server)
  PROVE  Ready(now, later)
<1> DEFINE V(i) == Version(now, later, i)
<1>1. Len(later) \in Nat /\ V(0) = now /\ V(Len(later)) = server
  BY DEF AWSLine, Version
<1>2. \A i \in 0..Len(later) : V(i) \in AWSRec
  BY DEF Version
<1>3. \A i \in 0..Len(later) : AWSFollows(now, V(i)) /\ AWSFollows(V(i), server)
  <2>1. \A i, j \in 0..Len(later) : i <= j => AWSFollows(V(i), V(j))
    BY DEF AWSLine
  <2>2. 0 \in 0..Len(later) /\ Len(later) \in 0..Len(later)
        /\ \A i \in 0..Len(later) : 0 <= i /\ i <= Len(later)
    BY <1>1
  <2> QED
    BY <1>1, <2>1, <2>2
<1> HIDE DEF V
<1>4. \A i \in 0..Len(later) : Exists(V(i)) /\ V(i).vpc
  BY <1>2, <1>3 DEF AWSFollows, Exists, AWSRec, Phases
<1> QED
  BY <1>4 DEF Ready, V

LEMMA SameObjects ==
  ASSUME IInv, UNCHANGED objects
  PROVE  /\ ClusterHistory' /\ AWSHistory'
         /\ sh' = sh => SHInv'
<1>1. ClusterHistory' /\ AWSHistory'
  BY DEF IInv, ClusterHistory, AWSHistory, objects
<1>2. sh' = sh => SHInv'
  BY DEF IInv, SHInv, objects
<1> QED
  BY <1>1, <1>2

\* The attachment is there, and not on its way out, before the entry is listed.
LEMMA NTAttachStep ==
  ASSUME IInv, UNCHANGED sh, NTAttach
  PROVE  Parts'
<1> DEFINE c == nt.c
           g == nt.gw
<1>0. /\ c \in Clusters /\ g \in Gateways /\ attachment[g][c] \in AttachmentStates
      /\ attachment \in [Gateways -> [Clusters -> AttachmentStates]]
      /\ nt \in [pc: NTStages, c: Clusters, obj: ClusterRec, mode: Modes,
                 gw: Gateways \cup {NoGateway}, up: BOOLEAN, vpc: BOOLEAN, again: BOOLEAN]
  BY DEF NTAttach, NTAt, IInv, TypeOK, NTTypeOK, NetworkTypeOK
<1>1. UNCHANGED objects /\ UNCHANGED <<cluster, cached, cachedAWS, awsFeed, prefixList>>
  BY DEF NTAttach, storeVars, objects, Attach
<1>2. nt.pc = "Attach" /\ nt.pc \in RegisterStages
  BY DEF NTAttach, NTAt, RegisterStages
<1>3. /\ Protected(cluster[c]) /\ (nt.mode = GSM => cluster[c].mode = GSM)
      /\ CopyTells(nt.obj, cluster[c])
  BY <1>2 DEF IInv, NTInv
<1>4. attachment[g][c] # "deleting"
  BY <1>0, <1>2 DEF IInv, DetachInv
<1>5. /\ \A t \in Gateways, d \in Clusters : Attached(t, d) => Attached(t, d)'
      /\ \A t \in Gateways, d \in Clusters :
           attachment'[t][d] = "deleting" => attachment[t][d] = "deleting"
      /\ attachment'[g][c] \in {"pendingAcceptance", "available"}
  <2>1. PICK s \in {"pendingAcceptance", "available"} :
          /\ attachment' = [attachment EXCEPT ![g] = [attachment[g] EXCEPT ![c] = s]]
          /\ attachment[g][c] # "none" => s = attachment[g][c]
    BY <1>0, <1>4 DEF NTAttach, Attach, AttachmentStates
  <2>2. /\ attachment'[g][c] = s
        /\ \A t \in Gateways, d \in Clusters :
             ~(t = g /\ d = c) => attachment'[t][d] = attachment[t][d]
    BY <1>0, <2>1
  <2> QED
    BY <1>0, <2>1, <2>2 DEF Attached
<1>6. Ready(cachedAWS[c], awsFeed[c])
  <2>1. AWSLine(cachedAWS[c], awsFeed[c], awsCluster[c])
    BY <1>0 DEF IInv, AWSHistory
  <2>2. /\ cachedAWS[c] \in AWSRec /\ awsCluster[c] \in AWSRec /\ awsFeed[c] \in Seq(AWSRec)
    BY <1>0 DEF IInv, TypeOK, StoreTypeOK
  <2>3. Exists(cachedAWS[c]) /\ cachedAWS[c].vpc /\ Exists(awsCluster[c])
    BY DEF NTAttach
  <2> QED
    BY <2>1, <2>2, <2>3, ReadyWhenSeen
<1>7. /\ nt'.pc \in {"AddToPrefixList", "Publish", "UpdateStatus"} /\ nt'.c = nt.c
      /\ nt'.obj.mode = nt.obj.mode /\ nt'.obj.phase = nt.obj.phase
      /\ nt'.pc = "AddToPrefixList" => nt.mode = GSM
  <2>1. CASE NTRegistered("True", TRUE)
    <3> DEFINE o == [nt.obj EXCEPT !.ready = "True"]
    <3>1. o.mode = nt.obj.mode /\ o.phase = nt.obj.phase
      BY <1>0 DEF ClusterRec
    <3>2. nt' = [nt EXCEPT !.pc = "UpdateStatus", !.obj = o, !.again = TRUE]
      BY <2>1 DEF NTRegistered
    <3> HIDE DEF o
    <3> QED
      BY <1>0, <3>1, <3>2
  <2>2. CASE ~NTRegistered("True", TRUE)
    <3>1. \/ nt.mode = GSM /\ nt' = [nt EXCEPT !.pc = "AddToPrefixList", !.vpc = TRUE]
          \/ nt' = [nt EXCEPT !.pc = "Publish", !.vpc = TRUE]
      BY <2>2 DEF NTAttach, GSM
    <3> QED
      BY <1>0, <3>1
  <2> QED
    BY <2>1, <2>2
<1>8. EntryInv'
  <2> SUFFICES ASSUME NEW d \in Clusters, HasEntry(d)' \/ Listing(d)'
               PROVE  /\ Protected(cluster'[d]) /\ cluster'[d].mode = GSM
                      /\ \E t \in Gateways : Attached(t, d)'
                      /\ Ready(cachedAWS'[d], awsFeed'[d])
    BY DEF EntryInv
  <2>1. CASE HasEntry(d)'
    <3>1. HasEntry(d)
      BY <1>1, <2>1 DEF HasEntry
    <3> QED
      BY <1>1, <1>5, <3>1 DEF IInv, EntryInv
  <2>2. CASE Listing(d)'
    <3>1. d = c /\ nt.mode = GSM
      BY <1>7, <2>2 DEF Listing
    <3> QED
      BY <1>0, <1>1, <1>3, <1>5, <1>6, <3>1 DEF Attached
  <2> QED
    BY <2>1, <2>2
<1>9. DetachInv'
  BY <1>1, <1>2, <1>5, <1>7 DEF IInv, DetachInv
<1>10. NTInv'
  <2>1. CopyTells(nt'.obj, cluster[c])
    BY <1>3, <1>7, SameCopy
  <2> QED
    BY <1>1, <1>3, <1>7, <2>1 DEF NTInv, RegisterStages, UnregisterStages, ReleaseStages
<1> QED
  BY <1>1, <1>8, <1>9, <1>10, SameObjects DEF Parts

\* Only the cluster that is being listed gets an entry.
LEMMA NTAddToPrefixListStep ==
  ASSUME IInv, UNCHANGED sh, NTAddToPrefixList
  PROVE  Parts'
<1> DEFINE c == nt.c
<1>0. /\ c \in Clusters /\ prefixList \in [Cidrs -> Clusters \cup {Nobody}]
      /\ nt \in [pc: NTStages, c: Clusters, obj: ClusterRec, mode: Modes,
                 gw: Gateways \cup {NoGateway}, up: BOOLEAN, vpc: BOOLEAN, again: BOOLEAN]
  BY DEF IInv, TypeOK, NTTypeOK, NetworkTypeOK
<1>1. UNCHANGED objects /\ UNCHANGED <<cluster, cached, cachedAWS, awsFeed>>
  BY DEF NTAddToPrefixList, storeVars, objects
<1>2. nt.pc = "AddToPrefixList" /\ nt.pc \in RegisterStages /\ Listing(c)
  BY DEF NTAddToPrefixList, NTAt, RegisterStages, Listing
<1>3. CASE NTRegisterFails /\ UNCHANGED networkVars
  <2>1. CopyTells(nt.obj, cluster'[nt.c])
    BY <1>1, <1>2 DEF IInv, NTInv
  <2> QED
    BY <1>1, <1>2, <1>3, <2>1, NTRegisterEnds, QuietStep DEF networkVars, Parts
<1>4. CASE AddEntry(c) /\ NTGoto("SavePrefixList")
  <2>1. attachment' = attachment /\ \A d \in Clusters : HasEntry(d)' => HasEntry(d) \/ d = c
    BY <1>0, <1>4 DEF AddEntry, HasEntry, Cidrs
  <2>2. nt'.pc = "SavePrefixList" /\ nt'.c = nt.c /\ nt'.obj = nt.obj
    BY <1>0, <1>4 DEF NTGoto
  <2>3. EntryInv'
    <3> SUFFICES ASSUME NEW d \in Clusters, HasEntry(d)' \/ Listing(d)'
                 PROVE  /\ Protected(cluster'[d]) /\ cluster'[d].mode = GSM
                        /\ \E t \in Gateways : Attached(t, d)'
                        /\ Ready(cachedAWS'[d], awsFeed'[d])
      BY DEF EntryInv
    <3>1. HasEntry(d) \/ Listing(d)
      BY <1>2, <2>1, <2>2 DEF Listing
    <3> QED
      BY <1>1, <2>1, <3>1 DEF IInv, EntryInv, Attached
  <2>4. DetachInv'
    BY <1>1, <1>2, <2>1, <2>2 DEF IInv, DetachInv
  <2>5. NTInv'
    BY <1>1, <1>2, <2>2 DEF IInv, NTInv, RegisterStages, UnregisterStages, ReleaseStages
  <2> QED
    BY <1>1, <2>3, <2>4, <2>5, SameObjects DEF Parts
<1> QED
  BY <1>3, <1>4 DEF NTAddToPrefixList

\* The entry goes before the attachment.
LEMMA NTRemoveSteps ==
  ASSUME IInv, UNCHANGED sh, NTRemoveFromPrefixList \/ NTDetach
  PROVE  Parts'
<1> DEFINE c == nt.c
<1>0. /\ c \in Clusters /\ prefixList \in [Cidrs -> Clusters \cup {Nobody}]
      /\ attachment \in [Gateways -> [Clusters -> AttachmentStates]]
      /\ nt \in [pc: NTStages, c: Clusters, obj: ClusterRec, mode: Modes,
                 gw: Gateways \cup {NoGateway}, up: BOOLEAN, vpc: BOOLEAN, again: BOOLEAN]
  BY DEF IInv, TypeOK, NTTypeOK, NetworkTypeOK
<1>1. UNCHANGED objects /\ UNCHANGED <<cluster, cached, cachedAWS, awsFeed>>
  BY DEF NTRemoveFromPrefixList, NTDetach, storeVars, storeButQueue, objects
<1>2. Past(cached[c]) /\ Past(nt.obj) /\ CopyTells(nt.obj, cluster[c])
  BY DEF NTRemoveFromPrefixList, NTDetach, NTAt, IInv, NTInv, UnregisterStages
<1>3. CASE NTRetry /\ UNCHANGED networkVars
  BY <1>1, <1>3, NTEnds, QuietStep DEF networkVars, Parts
<1>4. CASE NTAt("RemoveFromPrefixList") /\ RemoveEntry(c, nt.vpc) /\ NTGoto("Detach")
  <2>1. HasEntry(c) => nt.vpc
    BY <1>4 DEF NTAt, IInv, NTInv
  <2>2. attachment' = attachment /\ prefixList'[Cidr[c]] # c
        /\ \A d \in Clusters : HasEntry(d)' => HasEntry(d)
    <3>1. CASE HasEntry(c)
      <4>1. prefixList' = [prefixList EXCEPT ![Cidr[c]] = Nobody] /\ attachment' = attachment
        BY <1>4, <2>1, <3>1 DEF RemoveEntry
      <4> QED
        BY <1>0, <4>1, NetworkAssumption DEF HasEntry, Cidrs
    <3>2. CASE ~HasEntry(c)
      BY <1>4, <3>2 DEF RemoveEntry, HasEntry
    <3> QED
      BY <3>1, <3>2
  <2>3. nt'.pc = "Detach" /\ nt'.c = nt.c /\ nt'.obj = nt.obj
    BY <1>0, <1>4 DEF NTGoto
  <2>4. EntryInv'
    BY <1>1, <2>2, <2>3 DEF IInv, EntryInv, Listing, Attached
  <2>5. DetachInv'
    BY <1>1, <2>2, <2>3 DEF IInv, DetachInv, FinalizerStages, RegisterStages
  <2>6. NTInv'
    BY <1>1, <1>2, <2>2, <2>3 DEF NTInv, HasEntry, RegisterStages, UnregisterStages, ReleaseStages
  <2> QED
    BY <1>1, <2>4, <2>5, <2>6, SameObjects DEF Parts
<1>5. CASE NTDetach
  <2>1. ~HasEntry(c) /\ UNCHANGED prefixList
    BY <1>5 DEF NTDetach, Detach, NTAt, IInv, NTInv
  <2>2. \A t \in Gateways, d \in Clusters : d # c => attachment'[t][d] = attachment[t][d]
    <3>1. CASE attachment' = attachment
      BY <3>1
    <3>2. CASE attachment' # attachment
      <4>1. attachment' = [attachment EXCEPT ![nt.obj.tgw] =
                             [attachment[nt.obj.tgw] EXCEPT ![c] = "deleting"]]
        BY <1>5, <3>2 DEF NTDetach, Detach
      <4> QED
        BY <1>0, <4>1
    <3> QED
      BY <3>1, <3>2
  <2>3. nt'.pc \in {"DeleteGateway", "RemoveAWSFinalizer"} /\ nt'.c = nt.c /\ nt'.obj = nt.obj
    BY <1>0, <1>5 DEF NTDetach, NTGoto
  <2>4. EntryInv'
    <3> SUFFICES ASSUME NEW d \in Clusters, HasEntry(d)' \/ Listing(d)'
                 PROVE  /\ Protected(cluster'[d]) /\ cluster'[d].mode = GSM
                        /\ \E t \in Gateways : Attached(t, d)'
                        /\ Ready(cachedAWS'[d], awsFeed'[d])
      BY DEF EntryInv
    <3>1. HasEntry(d) /\ d # c
      BY <2>1, <2>3 DEF Listing, HasEntry
    <3>2. PICK t \in Gateways : Attached(t, d)
      BY <3>1 DEF IInv, EntryInv
    <3>3. Attached(t, d)'
      BY <2>2, <3>1, <3>2 DEF Attached
    <3> QED
      BY <1>1, <3>1, <3>3 DEF IInv, EntryInv
  <2>5. DetachInv'
    <3> SUFFICES ASSUME NEW t \in Gateways, NEW d \in Clusters, attachment'[t][d] = "deleting"
                 PROVE  Past(cached'[d])
      BY <2>3 DEF DetachInv, FinalizerStages, RegisterStages
    <3> QED
      BY <1>1, <1>2, <2>2 DEF IInv, DetachInv
  <2>6. NTInv'
    BY <1>1, <1>2, <2>1, <2>3 DEF NTInv, HasEntry, RegisterStages, UnregisterStages, ReleaseStages
  <2> QED
    BY <1>1, <2>4, <2>5, <2>6, SameObjects DEF Parts
<1> QED
  BY <1>3, <1>4, <1>5 DEF NTRemoveFromPrefixList

\* What a worker knows of the mode when it takes a copy from the cache.
LEMMA ReadCopy ==
  ASSUME IInv, AnnotationsLeftToOperator, NEW c \in Clusters, Readable(c),
         cached[c].phase # "none"
  PROVE  CopyTells(cached[c], cluster[c])
<1>1. /\ ModeLeads(cached[c], cluster[c]) /\ (Past(cached[c]) => Past(cluster[c]))
      /\ cached[c].mode = "unset" => "unset" \in UserModes
  BY Known DEF Tells, ClusterFollows
<1>2. ASSUME cached[c].mode = "unset"
      PROVE  cluster[c].mode = "unset" \/ (cluster[c].mode = "None" /\ ModeChanges = {})
  <2>1. CASE ModeChanges = {}
    BY <1>1, <1>2, <2>1 DEF ModeLeads
  <2>2. CASE ModeChanges # {}
    <3>1. MaxLag = 0
      BY <1>1, <1>2, <2>2 DEF AnnotationsLeftToOperator, ModesSetOnce
    <3>2. Len(feed[c]) \in Nat
      <4>1. feed[c] \in Seq(ClusterRec)
        BY DEF IInv, TypeOK, StoreTypeOK
      <4> QED
        BY <4>1
    <3>3. Len(feed[c]) = 0
      BY <3>1, <3>2 DEF Readable
    <3>4. cluster[c] = cached[c]
      BY <3>3 DEF IInv, ClusterHistory, ClusterLine, Version
    <3> QED
      BY <1>2, <3>4
  <2> QED
    BY <2>1, <2>2
<1> QED
  BY <1>1, <1>2 DEF CopyTells

LEMMA NTGetStep ==
  ASSUME IInv, AnnotationsLeftToOperator, UNCHANGED sh, NEW c \in Clusters, NTGet(c)
  PROVE  Parts'
<1> DEFINE x == cached[c]
           fresh == [x EXCEPT !.ready = IF @ = "none" THEN "InProgress" ELSE @]
<1>0. UNCHANGED <<awsCluster, cached, cachedAWS, awsFeed, attachment, prefixList>>
  BY DEF NTGet, networkVars
<1>1. /\ fresh \in ClusterRec /\ fresh.phase = x.phase /\ fresh.fins = x.fins
      /\ fresh.mode = x.mode
  BY Known DEF ClusterRec, Conditions
<1> HIDE DEF fresh
<1>2. \/ nt' = NTIdle
      \/ /\ x.phase = "live"
         /\ nt' = [NTIdle EXCEPT !.pc = "AddFinalizer", !.c = c, !.obj = fresh]
      \/ /\ x.phase = "deleting"
         /\ nt' = [NTIdle EXCEPT !.pc = "Unregister", !.c = c, !.obj = fresh]
  BY DEF NTGet, Protected, Exists, fresh
<1>3. \/ nt'.pc = "idle"
      \/ x.phase = "live" /\ nt'.pc = "AddFinalizer" /\ nt'.c = c /\ nt'.obj = fresh
      \/ x.phase = "deleting" /\ nt'.pc = "Unregister" /\ nt'.c = c /\ nt'.obj = fresh
  <2>1. NTIdle.pc = "idle"
    BY DEF NTIdle
  <2> QED
    BY <1>2, <2>1, NTIdleType
<1>4. NTOnward
  BY <1>3 DEF NTOnward, Past, FinalizerStages, RegisterStages
<1>5. /\ ClusterHistory' /\ AWSHistory' /\ EntryInv' /\ DetachInv' /\ SHInv'
      /\ cluster'[c].mode = cluster[c].mode /\ cluster'[c].phase = cluster[c].phase
      /\ Protected(cluster[c]) => Protected(cluster'[c])
  <2>1. CASE Exists(x) /\ ~x.paused
    <3>1. StatusUpdated(c, fresh)
      BY <2>1 DEF NTGet, fresh
    <3> QED
      BY <1>0, <1>1, <1>4, <3>1, StatusStep
  <2>2. CASE ~(Exists(x) /\ ~x.paused)
    <3>1. UNCHANGED objects /\ cluster' = cluster
      BY <1>0, <2>2 DEF NTGet, objects
    <3> QED
      BY <1>0, <1>4, <3>1, QuietStep
  <2> QED
    BY <2>1, <2>2
<1>6. NTInv'
  <2>1. x.phase = "live" /\ Protected(x) => Protected(cluster[c])
    BY Known DEF Tells
  <2>2. Protected(fresh) <=> Protected(x)
    BY <1>1 DEF Protected
  <2>3. x.phase # "none" => CopyTells(x, cluster[c])
    BY ReadCopy DEF NTGet
  <2>4. x.phase # "none" => CopyTells(fresh, cluster'[c])
    BY <1>1, <1>5, <2>3 DEF CopyTells, ModeLeads, Past
  <2> QED
    BY <1>0, <1>1, <1>3, <1>5, <2>1, <2>2, <2>4
    DEF NTInv, Past, RegisterStages, UnregisterStages, ReleaseStages
<1> QED
  BY <1>5, <1>6 DEF Parts

\* The guard is on the server's Cluster before anything else is done for it.
LEMMA NTAddFinalizerStep ==
  ASSUME IInv, UNCHANGED sh, NTAddFinalizer
  PROVE  Parts'
<1>1. /\ nt \in [pc: NTStages, c: Clusters, obj: ClusterRec, mode: Modes,
                 gw: Gateways \cup {NoGateway}, up: BOOLEAN, vpc: BOOLEAN, again: BOOLEAN]
      /\ cluster \in [Clusters -> ClusterRec]
  BY DEF IInv, TypeOK, StoreTypeOK, NTTypeOK
<1>2. PICK c \in Clusters, s \in ClusterRec, x \in ClusterRec :
        c = nt.c /\ s = cluster[c] /\ x = nt.obj
  BY <1>1
<1> DEFINE r == FinalizerAdded(s, x, "nettop")
           o == Refreshed(x, r)
<1>3. /\ r \in ClusterRec /\ r.phase = s.phase /\ r.mode = s.mode /\ r.tgw = s.tgw
      /\ "nettop" \in x.fins => r.fins = s.fins
      /\ "nettop" \notin x.fins => "nettop" \in r.fins
  <2>1. "nettop" \in Finalizers
    BY DEF Finalizers
  <2>2. r \in ClusterRec
    BY <2>1, PatchTypes
  <2>3. r.phase = s.phase /\ r.mode = s.mode /\ r.tgw = s.tgw
    BY <2>1, PatchKeeps
  <2>4. "nettop" \in x.fins => r.fins = s.fins
    BY <2>1, PatchKeeps
  <2>5. "nettop" \notin x.fins => "nettop" \in r.fins
    BY <2>1, PatchKeeps
  <2> QED
    BY <2>2, <2>3, <2>4, <2>5
<1> HIDE DEF r
<1>4. o.mode = r.mode /\ o.phase = r.phase
  BY <1>3 DEF Refreshed, ClusterRec
<1>5. /\ UNCHANGED <<awsCluster, cached, cachedAWS, awsFeed, attachment, prefixList>>
      /\ nt.pc = "AddFinalizer"
  BY DEF NTAddFinalizer, networkVars, NTAt
<1>6. \/ NTRetry /\ UNCHANGED <<cluster, feed>>
      \/ Accepts(s, r) /\ StoreCluster(c, r) /\ nt' = [nt EXCEPT !.pc = "AddAWSFinalizer", !.obj = o]
  BY <1>2 DEF NTAddFinalizer, r
<1>7. CASE NTRetry /\ UNCHANGED <<cluster, feed>>
  BY <1>5, <1>7, NTEnds, QuietStep DEF objects, Parts
<1>8. CASE Accepts(s, r) /\ StoreCluster(c, r)
           /\ nt' = [nt EXCEPT !.pc = "AddAWSFinalizer", !.obj = o]
  <2>1. Protected(r)
    <3>1. Protected(x) => Protected(s)
      BY <1>2, <1>5 DEF IInv, NTInv
    <3> QED
      BY <1>3, <3>1 DEF Protected
  <2> HIDE DEF o
  <2>2. GoodWrite(cached[c], cluster[c], r)
    <3>1. ClusterFollows(s, r) /\ r.phase # "none"
      BY <1>3, <1>8 DEF ClusterFollows, Past, Protected, Accepts, Exists
    <3> QED
      BY <1>2, <1>3, <2>1, <3>1 DEF GoodWrite, ModeMoves, ModeKept
  <2>3. nt'.pc = "AddAWSFinalizer" /\ nt'.c = c /\ nt'.obj = o
    BY <1>1, <1>2, <1>8
  <2>4. NTOnward
    BY <1>2, <1>5, <2>3 DEF NTOnward, FinalizerStages
  <2>5. /\ ClusterHistory' /\ AWSHistory' /\ EntryInv' /\ DetachInv' /\ SHInv'
        /\ cluster'[c] = r
    BY <1>3, <1>5, <1>8, <2>1, <2>2, <2>4, ClusterStep
  <2>6. NTInv'
    <3>1. CopyTells(o, r)
      BY <1>4, SameCopy
    <3> QED
      BY <2>1, <2>3, <2>5, <3>1 DEF NTInv, RegisterStages, UnregisterStages, ReleaseStages
  <2> QED
    BY <2>5, <2>6 DEF Parts
<1> QED
  BY <1>6, <1>7, <1>8

\* Register saves an annotation: phase and finalizers stay, so does the guard.
LEMMA NTSaveStep ==
  ASSUME IInv, UNCHANGED sh, nt.pc \in RegisterStages, NEW r \in ClusterRec,
         StoreCluster(nt.c, r), r.phase = cluster[nt.c].phase, r.fins = cluster[nt.c].fins,
         ModeMoves(cluster[nt.c], r),
         UNCHANGED <<awsCluster, cached, cachedAWS, awsFeed, attachment, prefixList>>,
         nt'.c = nt.c, nt'.obj.mode = r.mode, nt'.obj.phase = r.phase,
         \/ nt'.pc = "UpdateStatus"
         \/ nt'.pc = "Attach" /\ nt.pc = "SaveGateway" /\ nt'.mode = nt.mode
  PROVE  Parts'
<1>1. PICK c \in Clusters : c = nt.c
  BY DEF IInv, TypeOK, NTTypeOK
<1>2. Protected(cluster[c]) /\ (nt.pc = "SaveGateway" => (nt.mode = GSM => cluster[c].mode = GSM))
  BY <1>1 DEF IInv, NTInv
<1>3. GoodWrite(cached[c], cluster[c], r) /\ Protected(r)
  BY <1>1, <1>2, Touched
<1>4. NTOnward
  BY DEF NTOnward
<1>5. /\ ClusterHistory' /\ AWSHistory' /\ EntryInv' /\ DetachInv' /\ SHInv'
      /\ cluster'[c] = r
  BY <1>1, <1>3, <1>4, ClusterStep
<1>6. NTInv'
  <2>1. CopyTells(nt'.obj, cluster'[c])
    BY <1>5, SameCopy
  <2>2. cluster[c].mode = GSM => cluster'[c].mode = GSM
    BY <1>1, <1>5 DEF ModeMoves, ModeKept, GSM
  <2> QED
    BY <1>1, <1>2, <1>3, <1>5, <2>1, <2>2 DEF NTInv, RegisterStages, UnregisterStages, ReleaseStages
<1> QED
  BY <1>5, <1>6 DEF Parts

LEMMA NTSaveSteps ==
  ASSUME IInv, UNCHANGED sh, NTModeNotSupported \/ NTSaveGateway \/ NTSavePrefixList
  PROVE  Parts'
<1>1. /\ nt \in [pc: NTStages, c: Clusters, obj: ClusterRec, mode: Modes,
                 gw: Gateways \cup {NoGateway}, up: BOOLEAN, vpc: BOOLEAN, again: BOOLEAN]
      /\ cluster \in [Clusters -> ClusterRec] /\ NTTypeOK
  BY DEF IInv, TypeOK, StoreTypeOK, NTTypeOK
<1>2. PICK c \in Clusters, s \in ClusterRec : c = nt.c /\ s = cluster[c]
  BY <1>1
<1>3. /\ UNCHANGED <<awsCluster, cached, cachedAWS, awsFeed, attachment, prefixList>>
      /\ nt.pc \in RegisterStages
  BY DEF NTModeNotSupported, NTSaveGateway, NTSavePrefixList, storeButCluster, networkVars, NTAt,
         RegisterStages
<1>4. ASSUME NEW condition, NEW again, NTRegistered(condition, again) \/ NTRegisterFails,
             UNCHANGED <<cluster, feed>>
      PROVE  Parts'
  <2>1. CopyTells(nt.obj, cluster'[nt.c])
    BY <1>3, <1>4 DEF IInv, NTInv, RegisterStages
  <2> QED
    BY <1>3, <1>4, <2>1, NTRegisterEnds, QuietStep DEF objects, Parts
<1>5. CASE NTModeNotSupported
  <2> DEFINE r == [s EXCEPT !.mode = "None"]
             o == [r EXCEPT !.ready = "ModeNotSupported"]
  <2>1. /\ r \in ClusterRec /\ r.phase = s.phase /\ r.fins = s.fins /\ r.mode = "None"
        /\ o.mode = r.mode /\ o.phase = r.phase
    BY DEF ClusterRec, Modes
  <2>2. CASE NTRegistered("ModeNotSupported", FALSE) /\ UNCHANGED <<cluster, feed>>
    BY <1>4, <2>2
  <2>3. CASE NTRegisterFails /\ UNCHANGED <<cluster, feed>>
    BY <1>4, <2>3
  <2>4. CASE /\ nt.obj.mode = "unset" /\ StoreCluster(c, r)
             /\ nt' = [nt EXCEPT !.pc = "UpdateStatus", !.again = FALSE, !.obj = o]
    <3> HIDE DEF r, o
    <3>1. nt'.pc = "UpdateStatus" /\ nt'.c = nt.c /\ nt'.obj = o
      BY <1>1, <2>4
    <3>2. cluster[nt.c].mode \in {"unset", "None"}
      BY <1>3, <2>4 DEF IInv, NTInv, RegisterStages, CopyTells
    <3>3. ModeMoves(cluster[nt.c], r)
      BY <2>1, <3>2 DEF ModeMoves, ModeKept
    <3> QED
      BY <1>2, <1>3, <2>1, <2>4, <3>1, <3>3, NTSaveStep
  <2> QED
    BY <1>2, <1>5, <2>2, <2>3, <2>4 DEF NTModeNotSupported
<1>6. CASE NTSaveGateway
  <2> DEFINE r == [s EXCEPT !.tgw = nt.gw]
             o == Refreshed(nt.obj, r)
  <2>1. r \in ClusterRec /\ r.phase = s.phase /\ r.fins = s.fins /\ r.mode = s.mode
    BY <1>1 DEF ClusterRec
  <2> HIDE DEF r
  <2>2. o.mode = r.mode /\ o.phase = r.phase /\ ModeMoves(cluster[nt.c], r)
    BY <1>2, <2>1 DEF Refreshed, ClusterRec, ModeMoves, ModeKept
  <2> HIDE DEF o
  <2>3. CASE NTRegisterFails /\ UNCHANGED <<cluster, feed>>
    BY <1>4, <2>3
  <2>4. CASE StoreCluster(c, r) /\ nt' = [nt EXCEPT !.pc = "Attach", !.obj = o]
    <3>1. nt'.pc = "Attach" /\ nt'.c = nt.c /\ nt'.obj = o /\ nt'.mode = nt.mode
      BY <1>1, <2>4
    <3>2. nt.pc = "SaveGateway"
      BY <1>6 DEF NTSaveGateway, NTAt
    <3> QED
      BY <1>2, <1>3, <2>1, <2>2, <2>4, <3>1, <3>2, NTSaveStep
  <2> QED
    BY <1>2, <1>6, <2>3, <2>4 DEF NTSaveGateway, r, o
<1>7. CASE NTSavePrefixList
  <2> DEFINE r == [s EXCEPT !.pl = TRUE]
             o == [r EXCEPT !.ready = "True"]
  <2>1. /\ r \in ClusterRec /\ r.phase = s.phase /\ r.fins = s.fins /\ r.mode = s.mode
        /\ o.mode = r.mode /\ o.phase = r.phase /\ ModeMoves(cluster[nt.c], r)
    BY <1>2 DEF ClusterRec, ModeMoves, ModeKept
  <2>2. CASE NTRegisterFails /\ UNCHANGED <<cluster, feed>>
    BY <1>4, <2>2
  <2>3. CASE StoreCluster(c, r)
             /\ nt' = [nt EXCEPT !.pc = "UpdateStatus", !.again = TRUE, !.obj = o]
    <3> HIDE DEF r, o
    <3>1. nt'.pc = "UpdateStatus" /\ nt'.c = nt.c /\ nt'.obj = o
      BY <1>1, <2>3
    <3> QED
      BY <1>2, <1>3, <2>1, <2>3, <3>1, NTSaveStep
  <2> QED
    BY <1>2, <1>7, <2>2, <2>3 DEF NTSavePrefixList
<1> QED
  BY <1>5, <1>6, <1>7

LEMMA NTUpdateStatusStep ==
  ASSUME IInv, UNCHANGED sh, NTUpdateStatus
  PROVE  Parts'
<1>1. nt.c \in Clusters /\ nt.obj \in ClusterRec
  BY DEF IInv, TypeOK, NTTypeOK
<1>2. NTOnward /\ NTInv'
  BY NTEnds DEF NTUpdateStatus
<1>3. StatusUpdated(nt.c, nt.obj)
      /\ UNCHANGED <<awsCluster, cached, cachedAWS, awsFeed, attachment, prefixList>>
  BY DEF NTUpdateStatus, networkVars
<1> QED
  BY <1>1, <1>2, <1>3, StatusStep DEF Parts

\* The guard goes when the deletion has been read and the entry has gone.
LEMMA NTRemoveFinalizerStep ==
  ASSUME IInv, UNCHANGED sh, NTRemoveFinalizer
  PROVE  Parts'
<1>1. PICK c \in Clusters, s \in ClusterRec, x \in ClusterRec :
        c = nt.c /\ s = cluster[c] /\ x = nt.obj
  BY DEF IInv, TypeOK, StoreTypeOK, NTTypeOK
<1> DEFINE r == FinalizerRemoved(s, x, "nettop")
<1>2. /\ r \in ClusterRec /\ r.phase = s.phase /\ r.mode = s.mode /\ r.tgw = s.tgw
      /\ Protected(r) => Protected(s)
  <2>1. "nettop" \in Finalizers
    BY DEF Finalizers
  <2>2. r \in ClusterRec
    BY <2>1, PatchTypes
  <2>3. r.phase = s.phase /\ r.mode = s.mode /\ r.tgw = s.tgw
    BY <2>1, PatchKeeps
  <2>4. "nettop" \notin x.fins => r.fins = s.fins
    BY <2>1, PatchKeeps
  <2>5. "nettop" \in x.fins => "nettop" \notin r.fins
    BY <2>1, PatchKeeps
  <2> HIDE DEF r
  <2>6. Protected(r) => Protected(s)
    BY <2>4, <2>5 DEF Protected
  <2> QED
    BY <2>2, <2>3, <2>6
<1>3. /\ UNCHANGED <<awsCluster, cached, cachedAWS, awsFeed, attachment, prefixList>>
      /\ nt.pc = "RemoveFinalizer" /\ NTOnward /\ NTInv'
  BY NTEnds DEF NTRemoveFinalizer, networkVars, NTAt
<1>4. Past(cached[c]) /\ ~HasEntry(c) /\ ~Listing(c)
  BY <1>1, <1>3 DEF IInv, NTInv, UnregisterStages, ReleaseStages, Listing
<1>5. StoreCluster(c, r) \/ UNCHANGED <<cluster, feed>>
  BY <1>1 DEF NTRemoveFinalizer
<1> HIDE DEF r
<1>6. CASE StoreCluster(c, r)
  <2>1. /\ Past(s) /\ s.phase # "none"
    BY <1>1, <1>4, Known DEF ClusterFollows
  <2>2. GoodWrite(cached[c], cluster[c], r)
    BY <1>1, <1>2, <1>4, <2>1 DEF GoodWrite, ClusterFollows, Past, ModeMoves, ModeKept
  <2> QED
    BY <1>2, <1>3, <1>4, <1>6, <2>2, ClusterStep DEF Parts
<1>7. CASE UNCHANGED <<cluster, feed>>
  BY <1>3, <1>7, QuietStep DEF objects, Parts
<1> QED
  BY <1>5, <1>6, <1>7

\* A finalizer patch of an AWSCluster, by either reconciler.
LEMMA AWSPatched ==
  ASSUME IInv, NEW c \in Clusters, NEW f \in Finalizers, NEW r,
         \/ r = FinalizerAdded(awsCluster[c], cachedAWS[c], f)
         \/ r = FinalizerRemoved(awsCluster[c], cachedAWS[c], f),
         Accepts(awsCluster[c], r), StoreAWS(c, r),
         UNCHANGED <<cluster, cached, cachedAWS, feed, attachment, prefixList>>, NTOnward
  PROVE  /\ ClusterHistory' /\ AWSHistory' /\ EntryInv' /\ DetachInv'
         /\ sh' = sh => SHInv'
         /\ nt' = nt => NTInv'
<1>1. PICK s \in AWSRec, x \in AWSRec : s = awsCluster[c] /\ x = cachedAWS[c]
  BY Known
<1>2. r \in AWSRec
  BY <1>1, AWSPatchTypes
<1>3. r.phase = s.phase /\ (r.vpc <=> s.vpc)
  BY <1>1, AWSPatchKeeps
<1>4. Exists(s)
  BY <1>1 DEF Accepts
<1>5. /\ AWSFollows(awsCluster[c], r) /\ Exists(r) /\ r.phase # "none"
  BY <1>1, <1>3, <1>4 DEF AWSFollows, Exists
<1> QED
  BY <1>2, <1>5, AWSStep

LEMMA NTAWSFinalizerSteps ==
  ASSUME IInv, UNCHANGED sh, NTAddAWSFinalizer \/ NTRemoveAWSFinalizer
  PROVE  Parts'
<1>1. PICK c \in Clusters : c = nt.c
  BY DEF IInv, TypeOK, NTTypeOK
<1>2. /\ UNCHANGED <<cluster, cached, cachedAWS, feed, attachment, prefixList>>
      /\ nt \in [pc: NTStages, c: Clusters, obj: ClusterRec, mode: Modes,
                 gw: Gateways \cup {NoGateway}, up: BOOLEAN, vpc: BOOLEAN, again: BOOLEAN]
  BY DEF NTAddAWSFinalizer, NTRemoveAWSFinalizer, networkVars, IInv, TypeOK, NTTypeOK
<1>3. NTOnward /\ NTInv'
  <2>1. CASE NTRetry
    BY <2>1, NTEnds
  <2>2. CASE ~NTRetry
    <3>1. \/ nt.pc = "AddAWSFinalizer" /\ nt' = [nt EXCEPT !.pc = "Register"]
          \/ nt.pc = "RemoveAWSFinalizer" /\ nt' = [nt EXCEPT !.pc = "RemoveFinalizer"]
      BY <2>2 DEF NTAddAWSFinalizer, NTRemoveAWSFinalizer, NTAt, NTGoto
    <3>2. /\ nt'.c = nt.c /\ nt'.obj = nt.obj
          /\ \/ nt.pc = "AddAWSFinalizer" /\ nt'.pc = "Register"
             \/ nt.pc = "RemoveAWSFinalizer" /\ nt'.pc = "RemoveFinalizer"
      BY <1>2, <3>1
    <3> QED
      BY <1>2, <3>2
      DEF IInv, NTInv, NTOnward, HasEntry, FinalizerStages, RegisterStages, UnregisterStages,
          ReleaseStages
  <2> QED
    BY <2>1, <2>2
<1>4. CASE UNCHANGED <<awsCluster, awsFeed>>
  BY <1>2, <1>3, <1>4, QuietStep DEF objects, Parts
<1>5. CASE ~UNCHANGED <<awsCluster, awsFeed>>
  <2>1. PICK r : /\ \/ r = FinalizerAdded(awsCluster[c], cachedAWS[c], "nettop")
                    \/ r = FinalizerRemoved(awsCluster[c], cachedAWS[c], "nettop")
                 /\ Accepts(awsCluster[c], r) /\ StoreAWS(c, r)
    BY <1>1, <1>5 DEF NTAddAWSFinalizer, NTRemoveAWSFinalizer
  <2>2. "nettop" \in Finalizers
    BY DEF Finalizers
  <2> QED
    BY <1>2, <1>3, <2>1, <2>2, AWSPatched DEF Parts
<1> QED
  BY <1>4, <1>5

LEMMA NTFaultStep ==
  ASSUME IInv, UNCHANGED sh, NTFault
  PROVE  Parts'
<1>1. UNCHANGED objects /\ UNCHANGED <<cluster, attachment, prefixList>>
  BY DEF NTFault, networkVars, objects
<1>2. NTOnward /\ NTInv'
  <2>1. CASE NTRetry \/ NTDone
    BY <2>1, NTEnds
  <2>2. CASE NTRegisterFails /\ nt.pc \in RegisterStages
    <3>1. CopyTells(nt.obj, cluster'[nt.c])
      BY <1>1, <2>2 DEF IInv, NTInv, RegisterStages
    <3> QED
      BY <1>1, <2>2, <3>1, NTRegisterEnds
  <2> QED
    BY <2>1, <2>2 DEF NTFault
<1> QED
  BY <1>1, <1>2, QuietStep DEF Parts

\* The failed read moves only the worker, and between two release stages.
LEMMA NTAWSReadFailsStep ==
  ASSUME IInv, UNCHANGED sh, NTAWSReadFails
  PROVE  Parts'
<1>1. UNCHANGED objects /\ UNCHANGED <<cluster, cached, attachment, prefixList>>
  BY DEF NTAWSReadFails, networkVars, objects
<1>2. nt \in [pc: NTStages, c: Clusters, obj: ClusterRec, mode: Modes,
              gw: Gateways \cup {NoGateway}, up: BOOLEAN, vpc: BOOLEAN, again: BOOLEAN]
  BY DEF IInv, TypeOK, NTTypeOK
<1>3. nt.pc = "RemoveAWSFinalizer" /\ nt'.pc = "RemoveFinalizer" /\ nt'.c = nt.c /\ nt'.obj = nt.obj
  BY <1>2 DEF NTAWSReadFails, NTAt, NTGoto
<1>4. NTOnward /\ NTInv'
  BY <1>1, <1>3 DEF IInv, NTInv, NTOnward, HasEntry, FinalizerStages, RegisterStages,
                    UnregisterStages, ReleaseStages
<1> QED
  BY <1>1, <1>4, QuietStep DEF Parts

LEMMA NTWorkStep == ASSUME IInv, NTWork PROVE Parts'
BY NTAddFinalizerStep, NTAWSFinalizerSteps, NTQuietSteps, NTSaveSteps, NTAttachStep,
   NTAddToPrefixListStep, NTUpdateStatusStep, NTRemoveSteps, NTRemoveFinalizerStep
DEF NTWork, NTStep

-----------------------------------------------------------------------------
(* The share reconciler.                                                    *)

\* It takes up a deletion only when it has read that the guard is gone.
LEMMA SHQuietSteps ==
  ASSUME IInv, UNCHANGED nt,
         \/ SHShareTransitGateway \/ SHApplyGatewayShare \/ SHSharePrefixList
         \/ SHDeleteGatewayShare \/ SHDeletePrefixListShare \/ SHFault
         \/ SHAWSReadFails \/ \E c \in Clusters : SHGet(c)
  PROVE  Parts'
<1>1. /\ UNCHANGED objects /\ UNCHANGED <<cluster, attachment, prefixList>> /\ NTOnward
      /\ sh \in [pc: SHStages, c: Clusters, obj: ClusterRec]
  BY DEF SHShareTransitGateway, SHApplyGatewayShare, SHSharePrefixList, SHDeleteGatewayShare,
         SHDeletePrefixListShare, SHFault, SHAWSReadFails, SHGet, storeVars, networkVars, objects,
         ApplyResourceShare, DeleteResourceShare, NTOnward, IInv, TypeOK, SHTypeOK
<1>2. SHInv'
  <2>1. CASE sh' = SHIdle
    <3>1. sh'.pc = "idle"
      BY <2>1 DEF SHIdle
    <3> QED
      BY <3>1 DEF SHInv, SHReleaseStages
  <2>2. CASE sh' # SHIdle /\ ~\E c \in Clusters : SHGet(c)
    <3>1. PICK stage \in SHStages : sh' = [sh EXCEPT !.pc = stage]
      BY <2>2
      DEF SHShareTransitGateway, SHApplyGatewayShare, SHSharePrefixList, SHDeleteGatewayShare,
          SHDeletePrefixListShare, SHFault, SHAWSReadFails, SHRetry, SHGoto, SHStages
    <3>2. sh'.pc = stage /\ sh'.c = sh.c /\ sh'.obj = sh.obj
      BY <1>1, <3>1
    <3>3. \/ stage = "AddFinalizer" /\ sh.pc = "ShareTransitGateway" /\ sh.obj.tgw # NoGateway
          \/ stage = "SharePrefixList"
          \/ stage \in SHReleaseStages /\ sh.pc \in SHReleaseStages
      <4>1. CASE SHShareTransitGateway
        <5>1. /\ sh.pc = "ShareTransitGateway"
              /\ \/ sh.obj.tgw # NoGateway /\ sh' = [sh EXCEPT !.pc = "AddFinalizer"]
                 \/ sh' = [sh EXCEPT !.pc = "SharePrefixList"]
          BY <2>2, <4>1 DEF SHShareTransitGateway, SHAt, SHRetry, SHGoto
        <5> QED
          BY <1>1, <3>2, <5>1
      <4>2. CASE SHApplyGatewayShare \/ SHSharePrefixList \/ SHFault
        BY <1>1, <2>2, <3>2, <4>2 DEF SHApplyGatewayShare, SHSharePrefixList, SHFault, SHRetry, SHGoto
      <4>3. CASE SHDeleteGatewayShare \/ SHDeletePrefixListShare \/ SHAWSReadFails
        BY <1>1, <3>2, <4>3
        DEF SHDeleteGatewayShare, SHDeletePrefixListShare, SHAWSReadFails, SHAt, SHGoto,
            SHReleaseStages
      <4> QED
        BY <2>2, <4>1, <4>2, <4>3
    <3> QED
      BY <1>1, <3>2, <3>3 DEF IInv, SHInv, SHReleaseStages
  <2>3. ASSUME sh' # SHIdle, NEW c \in Clusters, SHGet(c)
        PROVE  SHInv'
    <3>1. PICK x \in ClusterRec : x = cached[c]
      BY Known
    <3>2. sh' = [pc |-> SHFirst(x), c |-> c, obj |-> x] /\ SHFirst(x) # "idle"
      BY <2>3, <3>1 DEF SHGet
    <3>3. \/ SHFirst(x) = "ShareTransitGateway" /\ x.phase = "live" /\ x.mode = GSM
          \/ SHFirst(x) = "DeleteGatewayShare" /\ x.phase = "deleting" /\ ~Protected(x)
      BY <3>2 DEF SHFirst, Exists, Protected, GSM
    <3>4. /\ x.phase = "live" /\ x.mode = GSM /\ x.tgw # NoGateway => Protected(x)
          /\ x.phase = "deleting" /\ ~Protected(x) => Past(cluster[c]) /\ ~Protected(cluster[c])
      BY <3>1, Known DEF Tells, ClusterFollows, Past, OperatorNamed
    <3> QED
      BY <1>1, <3>2, <3>3, <3>4 DEF SHInv, SHReleaseStages
  <2> QED
    BY <2>1, <2>2, <2>3
<1> QED
  BY <1>1, <1>2, QuietStep DEF Parts

LEMMA SHFinalizerSteps ==
  ASSUME IInv, UNCHANGED nt, SHAddFinalizer \/ SHRemoveFinalizer
  PROVE  Parts'
<1>1. PICK c \in Clusters, s \in ClusterRec, x \in ClusterRec :
        c = sh.c /\ s = cluster[c] /\ x = sh.obj
  BY DEF IInv, TypeOK, StoreTypeOK, SHTypeOK
<1>2. /\ UNCHANGED <<awsCluster, cached, cachedAWS, awsFeed, attachment, prefixList>> /\ NTOnward
      /\ sh \in [pc: SHStages, c: Clusters, obj: ClusterRec]
  BY DEF SHAddFinalizer, SHRemoveFinalizer, networkVars, NTOnward, IInv, TypeOK, SHTypeOK
<1>3. SHInv'
  <2>1. sh'.pc = "idle" \/ sh'.pc = "AddAWSFinalizer"
    <3> DEFINE o == Refreshed(sh.obj, FinalizerAdded(cluster[sh.c], sh.obj, "share"))
    <3>1. sh' = SHIdle \/ sh' = [sh EXCEPT !.pc = "AddAWSFinalizer", !.obj = o]
      BY DEF SHAddFinalizer, SHRemoveFinalizer, SHRetry, SHDone
    <3> HIDE DEF o
    <3>2. SHIdle.pc = "idle"
      BY DEF SHIdle
    <3> QED
      BY <1>2, <3>1, <3>2
  <2> QED
    BY <2>1 DEF SHInv, SHReleaseStages
<1>4. CASE UNCHANGED <<cluster, feed>>
  BY <1>2, <1>3, <1>4, QuietStep DEF objects, Parts
<1>5. ASSUME NEW r \in ClusterRec, Accepts(s, r), StoreCluster(c, r),
             r.phase = s.phase, r.mode = s.mode, r.tgw = s.tgw,
             Protected(s) => Protected(r)
      PROVE  Parts'
  <2>1. ClusterFollows(s, r) /\ r.phase # "none"
    BY <1>5 DEF ClusterFollows, Past, Protected, Accepts, Exists
  <2>2. s.phase = "live" /\ OperatorNamed(s) => Protected(s)
    BY <1>1, Known DEF Tells
  <2>3. OperatorNamed(r) = OperatorNamed(s)
    BY <1>5 DEF OperatorNamed
  <2>4. GoodWrite(cached[c], cluster[c], r)
    BY <1>1, <1>5, <2>1, <2>2, <2>3 DEF GoodWrite, ModeMoves, ModeKept
  <2>5. HasEntry(c) \/ Listing(c) => Protected(r)
    BY <1>1, <1>5 DEF IInv, EntryInv
  <2> QED
    BY <1>1, <1>2, <1>3, <1>5, <2>4, <2>5, ClusterStep DEF Parts, ModeKept
<1>6. "share" \in Finalizers
  BY DEF Finalizers
<1>7. CASE SHAddFinalizer /\ ~UNCHANGED <<cluster, feed>>
  <2> DEFINE r == FinalizerAdded(s, x, "share")
  <2>1. r \in ClusterRec
    BY <1>6, PatchTypes
  <2>2. r.phase = s.phase /\ r.mode = s.mode /\ r.tgw = s.tgw
    BY <1>6, PatchKeeps
  <2>3. "share" \in x.fins => r.fins = s.fins
    BY <1>6, PatchKeeps
  <2>4. "share" \notin x.fins => ("nettop" \in x.fins => "nettop" \in r.fins)
    BY <1>6, PatchKeeps
  <2>5. Accepts(s, r) /\ StoreCluster(c, r)
    BY <1>1, <1>7 DEF SHAddFinalizer
  <2> HIDE DEF r
  <2>6. Protected(x)
    BY <1>1, <1>7 DEF SHAddFinalizer, SHAt, IInv, SHInv
  <2>7. Protected(s) => Protected(r)
    BY <2>3, <2>4, <2>6 DEF Protected
  <2> QED
    BY <1>5, <2>1, <2>2, <2>5, <2>7
<1>8. CASE SHRemoveFinalizer /\ ~UNCHANGED <<cluster, feed>>
  <2> DEFINE r == FinalizerRemoved(s, x, "share")
  <2>1. r \in ClusterRec
    BY <1>6, PatchTypes
  <2>2. r.phase = s.phase /\ r.mode = s.mode /\ r.tgw = s.tgw
    BY <1>6, PatchKeeps
  <2>3. Accepts(s, r) /\ StoreCluster(c, r)
    BY <1>1, <1>8 DEF SHRemoveFinalizer
  <2>4. ~Protected(s)
    BY <1>1, <1>8 DEF SHRemoveFinalizer, SHAt, IInv, SHInv, SHReleaseStages
  <2> HIDE DEF r
  <2> QED
    BY <1>5, <2>1, <2>2, <2>3, <2>4
<1> QED
  BY <1>4, <1>7, <1>8

LEMMA SHAWSFinalizerSteps ==
  ASSUME IInv, UNCHANGED nt, SHAddAWSFinalizer \/ SHRemoveAWSFinalizer
  PROVE  Parts'
<1>1. PICK c \in Clusters : c = sh.c
  BY DEF IInv, TypeOK, SHTypeOK
<1>2. /\ UNCHANGED <<cluster, cached, cachedAWS, feed, attachment, prefixList>> /\ NTOnward
      /\ sh \in [pc: SHStages, c: Clusters, obj: ClusterRec]
  BY DEF SHAddAWSFinalizer, SHRemoveAWSFinalizer, networkVars, NTOnward, IInv, TypeOK, SHTypeOK
<1>3. SHInv'
  <2>1. \/ sh' = SHIdle \/ sh' = [sh EXCEPT !.pc = "ApplyGatewayShare"]
        \/ sh.pc = "RemoveAWSFinalizer" /\ sh' = [sh EXCEPT !.pc = "RemoveFinalizer"]
    BY DEF SHAddAWSFinalizer, SHRemoveAWSFinalizer, SHAt, SHGoto, SHRetry
  <2>2. \/ sh'.pc = "idle" \/ sh'.pc = "ApplyGatewayShare"
        \/ sh.pc = "RemoveAWSFinalizer" /\ sh'.pc = "RemoveFinalizer" /\ sh'.c = sh.c
    BY <1>2, <2>1 DEF SHIdle
  <2> QED
    BY <1>2, <2>2 DEF IInv, SHInv, SHReleaseStages
<1>4. CASE UNCHANGED <<awsCluster, awsFeed>>
  BY <1>2, <1>3, <1>4, QuietStep DEF objects, Parts
<1>5. CASE ~UNCHANGED <<awsCluster, awsFeed>>
  <2>1. PICK r : /\ \/ r = FinalizerAdded(awsCluster[c], cachedAWS[c], "share")
                    \/ r = FinalizerRemoved(awsCluster[c], cachedAWS[c], "share")
                 /\ Accepts(awsCluster[c], r) /\ StoreAWS(c, r)
    BY <1>1, <1>5 DEF SHAddAWSFinalizer, SHRemoveAWSFinalizer
  <2>2. "share" \in Finalizers
    BY DEF Finalizers
  <2> QED
    BY <1>2, <1>3, <2>1, <2>2, AWSPatched DEF Parts
<1> QED
  BY <1>4, <1>5

LEMMA SHWorkStep == ASSUME IInv, SHWork PROVE Parts'
BY SHQuietSteps, SHFinalizerSteps, SHAWSFinalizerSteps DEF SHWork, SHStep

-----------------------------------------------------------------------------
(* The caches, a new process, the owners of the objects, and AWS.           *)

LEMMA DeliverStep ==
  ASSUME IInv, NEW c \in Clusters, Deliver(c)
  PROVE  Parts'
<1>1. /\ cached \in [Clusters -> ClusterRec] /\ feed \in [Clusters -> Seq(ClusterRec)]
      /\ cachedAWS \in [Clusters -> AWSRec] /\ awsFeed \in [Clusters -> Seq(AWSRec)]
      /\ nt.c \in Clusters
  BY DEF IInv, TypeOK, StoreTypeOK, NTTypeOK
<1>2. UNCHANGED <<cluster, awsCluster, attachment, prefixList, nt, sh>>
  BY DEF Deliver, DeliverCluster, DeliverAWS, networkVars
<1>3. \A d \in Clusters : /\ ClusterLine(cached[d], feed[d], cluster[d])
                          /\ AWSLine(cachedAWS[d], awsFeed[d], awsCluster[d])
  BY DEF IInv, ClusterHistory, AWSHistory
<1>4. /\ \A d \in Clusters : /\ ClusterLine(cached'[d], feed'[d], cluster[d])
                             /\ AWSLine(cachedAWS'[d], awsFeed'[d], awsCluster[d])
      /\ \A d \in Clusters : Past(cached[d]) => Past(cached'[d])
      /\ \A d \in Clusters : Ready(cachedAWS[d], awsFeed[d]) => Ready(cachedAWS'[d], awsFeed'[d])
  <2>1. CASE DeliverCluster(c)
    <3>1. /\ cached'[c] = Head(feed[c]) /\ feed'[c] = Tail(feed[c]) /\ feed[c] # <<>>
          /\ \A d \in Clusters : d # c => cached'[d] = cached[d] /\ feed'[d] = feed[d]
          /\ UNCHANGED <<cachedAWS, awsFeed>>
      BY <1>1, <2>1 DEF DeliverCluster
    <3>2. ClusterLine(Head(feed[c]), Tail(feed[c]), cluster[c]) /\ ClusterFollows(cached[c], Head(feed[c]))
      BY <1>1, <1>3, <3>1, ClusterTail
    <3>3. Past(cached[c]) => Past(cached'[c])
      BY <3>1, <3>2 DEF ClusterFollows
    <3> QED
      BY <1>3, <3>1, <3>2, <3>3
  <2>2. CASE DeliverAWS(c)
    <3>1. /\ cachedAWS'[c] = Head(awsFeed[c]) /\ awsFeed'[c] = Tail(awsFeed[c]) /\ awsFeed[c] # <<>>
          /\ \A d \in Clusters : d # c => cachedAWS'[d] = cachedAWS[d] /\ awsFeed'[d] = awsFeed[d]
          /\ UNCHANGED <<cached, feed>>
      BY <1>1, <2>2 DEF DeliverAWS
    <3>2. /\ AWSLine(Head(awsFeed[c]), Tail(awsFeed[c]), awsCluster[c])
          /\ Ready(cachedAWS[c], awsFeed[c]) => Ready(Head(awsFeed[c]), Tail(awsFeed[c]))
      BY <1>1, <1>3, <3>1, AWSTail
    <3> QED
      BY <1>3, <3>1, <3>2
  <2> QED
    BY <2>1, <2>2 DEF Deliver
<1>5. ClusterHistory' /\ AWSHistory'
  BY <1>2, <1>4 DEF ClusterHistory, AWSHistory
<1>6. EntryInv'
  BY <1>2, <1>4 DEF IInv, EntryInv, HasEntry, Listing, Attached
<1>7. DetachInv' /\ NTInv' /\ SHInv'
  BY <1>1, <1>2, <1>4 DEF IInv, DetachInv, NTInv, SHInv, HasEntry
<1> QED
  BY <1>5, <1>6, <1>7 DEF Parts

LEMMA RestartStep == ASSUME IInv, Restart PROVE Parts'
<1>1. /\ UNCHANGED <<cluster, awsCluster, attachment, prefixList>>
      /\ cached' = cluster /\ cachedAWS' = awsCluster
      /\ \A d \in Clusters : feed'[d] = <<>> /\ awsFeed'[d] = <<>>
      /\ nt'.pc = "idle" /\ sh'.pc = "idle"
  BY DEF Restart, Relist, networkVars, NTIdle, SHIdle
<1>2. \A d \in Clusters : /\ ClusterLine(cached[d], feed[d], cluster[d])
                          /\ AWSLine(cachedAWS[d], awsFeed[d], awsCluster[d])
  BY DEF IInv, ClusterHistory, AWSHistory
<1>3. \A d \in Clusters : /\ ClusterLine(cluster[d], <<>>, cluster[d])
                          /\ AWSLine(awsCluster[d], <<>>, awsCluster[d])
  BY <1>2, Known, SingleVersion
<1>4. ASSUME NEW d \in Clusters, Ready(cachedAWS[d], awsFeed[d])
      PROVE  Ready(awsCluster[d], <<>>)
  <2>1. Len(awsFeed[d]) \in 0..Len(awsFeed[d])
    <3>1. awsFeed[d] \in Seq(AWSRec)
      BY DEF IInv, TypeOK, StoreTypeOK
    <3>2. Len(awsFeed[d]) \in Nat
      BY <3>1
    <3> QED
      BY <3>2
  <2>2. Exists(awsCluster[d]) /\ awsCluster[d].vpc
    BY <1>2, <1>4, <2>1 DEF Ready, AWSLine
  <2> QED
    BY <2>2 DEF Ready, Version
<1>5. ClusterHistory' /\ AWSHistory'
  BY <1>1, <1>3 DEF ClusterHistory, AWSHistory
<1>6. EntryInv'
  BY <1>1, <1>4 DEF IInv, EntryInv, HasEntry, Listing, Attached
<1>7. DetachInv'
  <2>1. \A d \in Clusters : Past(cached[d]) => Past(cluster[d])
    BY Known DEF ClusterFollows
  <2> QED
    BY <1>1, <2>1 DEF IInv, DetachInv, FinalizerStages, RegisterStages
<1>8. NTInv' /\ SHInv'
  BY <1>1 DEF NTInv, SHInv, RegisterStages, UnregisterStages, ReleaseStages, SHReleaseStages
<1> QED
  BY <1>5, <1>6, <1>7, <1>8 DEF Parts

\* CAPI, CAPA and users delete, collect and pause, and set modes; they keep guards
\* and VPCs.
LEMMA OwnersStep ==
  ASSUME IInv, AnnotationsLeftToOperator, NEW c \in Clusters, Provision(c) \/ User(c)
  PROVE  Parts'
<1>1. UNCHANGED <<attachment, prefixList, nt, sh>> /\ NTOnward
  BY DEF Provision, User, networkVars, NTOnward
<1>2. PICK s \in ClusterRec, a \in AWSRec : s = cluster[c] /\ a = awsCluster[c]
  BY Known
<1>3. /\ s.phase = "live" /\ OperatorNamed(s) => Protected(s)
      /\ s.phase # "none" /\ (a.phase = "none" => ~a.vpc)
  BY <1>2, Known DEF Tells
<1>4. ASSUME NEW r \in ClusterRec, StoreCluster(c, r),
             UNCHANGED <<awsCluster, cached, cachedAWS, awsFeed>>,
             r.fins = s.fins, ModeKept(s, r), r.phase # "none",
             OperatorNamed(r) => OperatorNamed(s),
             Past(s) => Past(r), r.phase = "live" => s.phase = "live"
      PROVE  Parts'
  <2>1. Protected(r) <=> Protected(s)
    BY <1>4 DEF Protected
  <2>2. GoodWrite(cached[c], cluster[c], r)
    BY <1>2, <1>3, <1>4, <2>1 DEF GoodWrite, ClusterFollows, ModeMoves
  <2>3. HasEntry(c) \/ Listing(c) => Protected(r)
    BY <1>2, <2>1 DEF IInv, EntryInv
  <2> QED
    BY <1>1, <1>2, <1>4, <2>1, <2>2, <2>3, ClusterStep DEF Parts
<1>5. ASSUME NEW r \in AWSRec, StoreAWS(c, r),
             UNCHANGED <<cluster, cached, cachedAWS, feed>>,
             r.phase # "none", a.phase = "gone" => r.phase = "gone", a.vpc => r.vpc,
             HasEntry(c) \/ Listing(c) => Exists(r)
      PROVE  Parts'
  <2>1. AWSFollows(awsCluster[c], r)
    BY <1>2, <1>5 DEF AWSFollows
  <2> QED
    BY <1>1, <1>5, <2>1, AWSStep DEF Parts
<1>6. CASE DeleteCluster(c)
  <2> DEFINE r == [s EXCEPT !.phase = "deleting"]
  <2>1. /\ r \in ClusterRec /\ r.fins = s.fins /\ r.mode = s.mode /\ r.tgw = s.tgw
        /\ r.phase = "deleting"
    BY DEF ClusterRec, Phases
  <2>2. StoreCluster(c, r) /\ UNCHANGED <<awsCluster, cached, cachedAWS, awsFeed>>
    BY <1>2, <1>6 DEF DeleteCluster
  <2> HIDE DEF r
  <2> QED
    BY <1>4, <2>1, <2>2 DEF Past, ModeKept, OperatorNamed
<1>7. CASE CollectCluster(c)
  <2> DEFINE r == [s EXCEPT !.phase = "gone"]
  <2>1. /\ r \in ClusterRec /\ r.fins = s.fins /\ r.mode = s.mode /\ r.tgw = s.tgw
        /\ r.phase = "gone"
    BY DEF ClusterRec, Phases
  <2>2. StoreCluster(c, r) /\ UNCHANGED <<awsCluster, cached, cachedAWS, awsFeed>>
    BY <1>2, <1>7 DEF CollectCluster
  <2> HIDE DEF r
  <2> QED
    BY <1>4, <2>1, <2>2 DEF Past, ModeKept, OperatorNamed
<1>8. CASE TogglePause(c)
  <2> DEFINE r == [s EXCEPT !.paused = ~@]
  <2>1. /\ r \in ClusterRec /\ r.fins = s.fins /\ r.mode = s.mode /\ r.tgw = s.tgw
        /\ r.phase = s.phase
    BY DEF ClusterRec
  <2>2. StoreCluster(c, r) /\ UNCHANGED <<awsCluster, cached, cachedAWS, awsFeed>>
    BY <1>2, <1>8 DEF TogglePause
  <2> HIDE DEF r
  <2> QED
    BY <1>3, <1>4, <2>1, <2>2 DEF Past, ModeKept, OperatorNamed
<1>9. CASE ChangeMode(c)
  <2>1. PICK m \in Modes : /\ s.phase = "live" /\ <<s.mode, m>> \in ModeChanges
                           /\ StoreCluster(c, [s EXCEPT !.mode = m])
                           /\ UNCHANGED <<awsCluster, cached, cachedAWS, awsFeed>>
    BY <1>2, <1>9 DEF ChangeMode
  <2>2. /\ s.mode \in {"None", "invalid"} /\ m \in Supported /\ ModeChanges # {}
        /\ UserGateways = {NoGateway} \/ m # GSM
    <3>1. s.mode \in Modes
      BY DEF ClusterRec
    <3> QED
      BY <2>1, <3>1 DEF AnnotationsLeftToOperator, ModesSetOnce
  <2> DEFINE r == [s EXCEPT !.mode = m]
  <2>3. /\ r \in ClusterRec /\ r.fins = s.fins /\ r.mode = m /\ r.tgw = s.tgw
        /\ r.phase = s.phase
    BY DEF ClusterRec
  <2>4. StoreCluster(c, r)
    BY <2>1
  <2> HIDE DEF r
  <2> QED
    BY <1>3, <1>4, <2>1, <2>2, <2>3, <2>4 DEF Past, ModeKept, OperatorNamed
<1>10. CASE CreateAWSCluster(c)
  <2> DEFINE r == [NoAWSCluster EXCEPT !.phase = "live"]
  <2>1. r \in AWSRec /\ r.phase = "live"
    BY DEF NoAWSCluster, AWSRec, Phases
  <2>2. /\ StoreAWS(c, r) /\ UNCHANGED <<cluster, cached, cachedAWS, feed>>
        /\ a.phase = "none"
    BY <1>2, <1>10 DEF CreateAWSCluster
  <2> HIDE DEF r
  <2> QED
    BY <1>3, <1>5, <2>1, <2>2 DEF Exists
<1>11. CASE VPCReady(c)
  <2> DEFINE r == [a EXCEPT !.vpc = TRUE]
  <2>1. r \in AWSRec /\ r.phase = a.phase /\ r.vpc
    BY DEF AWSRec
  <2>2. /\ StoreAWS(c, r) /\ UNCHANGED <<cluster, cached, cachedAWS, feed>>
        /\ a.phase = "live"
    BY <1>2, <1>11 DEF VPCReady
  <2> HIDE DEF r
  <2> QED
    BY <1>5, <2>1, <2>2 DEF Exists
<1>12. CASE DeleteAWSCluster(c)
  <2> DEFINE r == [a EXCEPT !.phase = "deleting"]
  <2>1. r \in AWSRec /\ r.phase = "deleting" /\ (r.vpc <=> a.vpc)
    BY DEF AWSRec, Phases
  <2>2. /\ StoreAWS(c, r) /\ UNCHANGED <<cluster, cached, cachedAWS, feed>>
        /\ a.phase = "live"
    BY <1>2, <1>12 DEF DeleteAWSCluster
  <2> HIDE DEF r
  <2> QED
    BY <1>5, <2>1, <2>2 DEF Exists
<1>13. CASE RemoveInfrastructure(c)
  <2> DEFINE r == [a EXCEPT !.phase = "gone"]
  <2>1. r \in AWSRec /\ r.phase = "gone" /\ (r.vpc <=> a.vpc)
    BY DEF AWSRec, Phases
  <2>2. StoreAWS(c, r) /\ UNCHANGED <<cluster, cached, cachedAWS, feed>>
    BY <1>2, <1>13 DEF RemoveInfrastructure, CollectAWSCluster
  <2>3. ~(HasEntry(c) \/ Listing(c))
    <3>1. ~\E t \in Gateways : Attached(t, c)
      BY <1>13 DEF RemoveInfrastructure, HasAttachment, Attached
    <3> QED
      BY <3>1 DEF IInv, EntryInv
  <2> HIDE DEF r
  <2> QED
    BY <1>5, <2>1, <2>2, <2>3
<1> QED
  BY <1>6, <1>7, <1>8, <1>9, <1>10, <1>11, <1>12, <1>13 DEF Provision, User

LEMMA AWSMovesOn ==
  ASSUME IInv, NEW t \in Gateways, AWS(t)
  PROVE  Parts'
<1>1. UNCHANGED objects /\ UNCHANGED <<cluster, cached, cachedAWS, awsFeed, prefixList, nt, sh>>
  BY DEF AWS, storeVars, objects, GatewayAvailable, AttachmentDeleted, AcceptAttachment
<1>2. nt.c \in Clusters /\ attachment \in [Gateways -> [Clusters -> AttachmentStates]]
  BY DEF IInv, TypeOK, NTTypeOK, NetworkTypeOK
<1>3. \A g \in Gateways, d \in Clusters :
        /\ Attached(g, d) => attachment'[g][d] \in {"pendingAcceptance", "available"}
        /\ attachment'[g][d] = "deleting" => attachment[g][d] = "deleting"
  <2>1. CASE GatewayAvailable(t)
    BY <2>1 DEF GatewayAvailable, Attached
  <2>2. ASSUME NEW c \in Clusters, AttachmentDeleted(t, c)
        PROVE  \A g \in Gateways, d \in Clusters :
                 /\ Attached(g, d) => attachment'[g][d] \in {"pendingAcceptance", "available"}
                 /\ attachment'[g][d] = "deleting" => attachment[g][d] = "deleting"
    BY <1>2, <2>2 DEF AttachmentDeleted, Attached
  <2>3. ASSUME NEW c \in Clusters, AcceptAttachment(t, c)
        PROVE  \A g \in Gateways, d \in Clusters :
                 /\ Attached(g, d) => attachment'[g][d] \in {"pendingAcceptance", "available"}
                 /\ attachment'[g][d] = "deleting" => attachment[g][d] = "deleting"
    BY <1>2, <2>3 DEF AcceptAttachment, Attached
  <2> QED
    BY <2>1, <2>2, <2>3 DEF AWS
<1>4. EntryInv'
  BY <1>1, <1>3 DEF IInv, EntryInv, HasEntry, Listing, Attached
<1>5. DetachInv' /\ NTInv'
  BY <1>1, <1>2, <1>3 DEF IInv, DetachInv, NTInv, HasEntry
<1> QED
  BY <1>1, <1>4, <1>5, SameObjects DEF Parts

-----------------------------------------------------------------------------
\* New clusters have no gateway of the operator and no entry; one that is set up is guarded.
LEMMA InitInv ==
  ASSUME Init, AnnotationsLeftToOperator
  PROVE  IInv
<1>1. TypeOK
  BY InitTypeOK
<1>2. /\ \A c \in Churn : /\ cluster[c].phase = "live" /\ ~OperatorNamed(cluster[c])
                          /\ cached[c].phase = "none" /\ feed[c] = <<cluster[c]>>
                          /\ cluster[c].mode \in UserModes
      /\ \A c \in Clusters \ Churn : /\ cluster[c] = SettledCluster /\ cached[c] = SettledCluster
                                     /\ feed[c] = <<>> /\ awsCluster[c] = SettledAWSCluster
      /\ \A c \in Clusters : cachedAWS[c] = awsCluster[c] /\ awsFeed[c] = <<>>
  <2>1. PICK m \in [Churn -> UserModes], t \in [Churn -> UserGateways], p \in [Churn -> UserLists] :
          cluster = [c \in Clusters |-> IF c \in Churn THEN NewCluster(m[c], t[c], p[c])
                                                       ELSE SettledCluster]
    BY DEF Init, StoreInit
  <2>2. \A c \in Churn : /\ c \in Clusters /\ m[c] \in UserModes
                         /\ t[c] = NoGateway \/ (UserGateways # {NoGateway} /\ m[c] # GSM)
    BY StoreAssumption DEF AnnotationsLeftToOperator
  <2>3. ASSUME NEW c \in Churn
        PROVE  /\ cluster[c].phase = "live" /\ ~OperatorNamed(cluster[c])
               /\ cluster[c].mode \in UserModes
    <3>1. cluster[c] = NewCluster(m[c], t[c], p[c])
      <4>1. c \in Clusters
        BY <2>2
      <4> QED
        BY <2>1, <4>1, Zenon
    <3>2. /\ cluster[c].phase = "live" /\ cluster[c].mode = m[c] /\ cluster[c].tgw = t[c]
      BY <3>1 DEF NewCluster
    <3> QED
      BY <2>2, <3>2 DEF OperatorNamed
  <2>4. NoCluster.phase = "none"
    BY DEF NoCluster, NewCluster
  <2> QED
    BY <2>1, <2>2, <2>3, <2>4, StoreAssumption DEF Init, StoreInit
<1>3. /\ SettledCluster.phase = "live" /\ SettledCluster.mode = GSM /\ Protected(SettledCluster)
      /\ Exists(SettledAWSCluster) /\ SettledAWSCluster.vpc
  BY DEF SettledCluster, SettledAWSCluster, GSM, Protected, Exists
<1>4. ClusterHistory
  <2>1. ASSUME NEW c \in Churn
        PROVE  ClusterLine(cached[c], feed[c], cluster[c])
    <3> DEFINE V(i) == Version(cached[c], feed[c], i)
    <3>1. Len(feed[c]) = 1 /\ V(0) = cached[c] /\ V(1) = cluster[c]
      <4>1. feed[c] = <<cluster[c]>>
        BY <1>2, <2>1
      <4>2. Len(feed[c]) = 1 /\ feed[c][1] = cluster[c]
        BY <4>1
      <4> QED
        BY <4>2 DEF Version
    <3>2. 0..1 = {0, 1}
      OBVIOUS
    <3> HIDE DEF V
    <3>3. \A i, j \in 0..1 : i <= j => ClusterFollows(V(i), V(j))
      BY <1>2, <3>1, <3>2 DEF ClusterFollows, Past
    <3>4. \A i \in 0..1 : Tells(V(i), cluster[c])
      BY <1>2, <3>1, <3>2 DEF Tells, ModeLeads, OperatorNamed
    <3> QED
      BY <1>2, <3>1, <3>3, <3>4 DEF ClusterLine, V
  <2>2. ASSUME NEW c \in Clusters \ Churn
        PROVE  ClusterLine(cached[c], feed[c], cluster[c])
    BY <1>2, <1>3, FollowsTransitive DEF ClusterLine, Version, Tells, ModeLeads, GSM
  <2> QED
    BY <2>1, <2>2 DEF ClusterHistory
<1>5. AWSHistory
  <2>1. \A c \in Clusters : awsCluster[c].phase = "none" => ~awsCluster[c].vpc
    BY StoreAssumption DEF Init, StoreInit, NoAWSCluster, SettledAWSCluster
  <2> QED
    BY <1>2, <2>1, FollowsTransitive DEF AWSHistory, AWSLine, Version
<1>6. nt.pc = "idle" /\ sh.pc = "idle"
  BY DEF Init, NTInit, SHInit, NTIdle, SHIdle
<1>7. EntryInv
  <2> SUFFICES ASSUME NEW c \in Clusters, HasEntry(c)
               PROVE  /\ Protected(cluster[c]) /\ cluster[c].mode = GSM
                      /\ \E t \in Gateways : Attached(t, c)
                      /\ Ready(cachedAWS[c], awsFeed[c])
    BY <1>6 DEF EntryInv, Listing
  <2>1. c \in Clusters \ Churn
    <3>1. prefixList = [d \in Cidrs |-> IF Clusters \ Churn # {} /\ d = Cidr[MC] THEN MC ELSE Nobody]
      BY DEF Init, NetworkInit
    <3>2. c = MC /\ Clusters \ Churn # {}
      BY <3>1, NetworkAssumption DEF HasEntry, Cidrs
    <3> QED
      BY <3>2, StoreAssumption
  <2>2. Attached(Gateway0, c)
    BY <2>1, StoreAssumption DEF Init, NetworkInit, Attached
  <2>3. Ready(cachedAWS[c], awsFeed[c])
    BY <1>2, <1>3, <2>1 DEF Ready, Version
  <2> QED
    BY <1>2, <1>3, <2>1, <2>2, <2>3, StoreAssumption
<1>8. DetachInv
  BY DEF Init, NetworkInit, DetachInv
<1>9. NTInv /\ SHInv
  BY <1>6 DEF NTInv, SHInv, RegisterStages, UnregisterStages, ReleaseStages, SHReleaseStages
<1> QED
  BY <1>1, <1>4, <1>5, <1>7, <1>8, <1>9 DEF IInv

LEMMA NextInv ==
  ASSUME IInv, AnnotationsLeftToOperator, [Next]_vars
  PROVE  IInv'
<1>1. TypeOK'
  BY NextTypeOK DEF IInv
<1>2. Parts'
  <2>1. CASE NTWork
    BY <2>1, NTWorkStep
  <2>2. CASE SHWork
    BY <2>2, SHWorkStep
  <2>3. CASE Fault
    BY <2>3, NTFaultStep, NTAWSReadFailsStep, SHQuietSteps DEF Fault
  <2>4. CASE Restart
    BY <2>4, RestartStep
  <2>5. ASSUME NEW c \in Clusters, NTTake(c) \/ SHTake(c) \/ Deliver(c) \/ Provision(c) \/ User(c)
        PROVE  Parts'
    BY <2>5, NTGetStep, SHQuietSteps, DeliverStep, OwnersStep DEF NTTake, SHTake
  <2>6. ASSUME NEW t \in Gateways, AWS(t)
        PROVE  Parts'
    BY <2>6, AWSMovesOn
  <2>7. CASE UNCHANGED vars
    BY <2>7
    DEF vars, storeVars, networkVars, Parts, IInv, ClusterHistory, AWSHistory, EntryInv, DetachInv,
        NTInv, SHInv, HasEntry, Listing, Attached
  <2> QED
    BY <2>1, <2>2, <2>3, <2>4, <2>5, <2>6, <2>7 DEF Next
<1> QED
  BY <1>1, <1>2 DEF IInv, Parts

\* The versions of the objects stay in order and the workers, the prefix list and
\* the attachments stay in step with them, however far the caches lag and whatever
\* fails, if users leave the gateways of GiantSwarmManaged clusters to the operator
\* and a supported mode as it is (ModesSetOnce).
THEOREM InductiveInvariant == AnnotationsLeftToOperator => (Spec => []IInv)
<1> SUFFICES ASSUME AnnotationsLeftToOperator
             PROVE  Spec => []IInv
  OBVIOUS
<1>1. Init => IInv
  BY InitInv
<1>2. IInv /\ [Next]_vars => IInv'
  BY NextInv
<1> QED
  BY <1>1, <1>2, PTL DEF Spec

\* The prefix list never holds the block of a cluster that could disappear
\* without its entry being removed, under the same proviso.
THEOREM EntriesAlwaysGuarded == AnnotationsLeftToOperator => (Spec => []EntriesGuarded)
<1>1. IInv => EntriesGuarded
  BY DEF IInv, EntryInv, EntriesGuarded, Protected
<1> QED
  BY <1>1, InductiveInvariant, PTL

\* While Register works on a Cluster, that Cluster has the finalizer on the
\* server, although the reconciler decides by copies that may be old.
THEOREM RegistersAlwaysGuarded == AnnotationsLeftToOperator => (Spec => []RegistersGuarded)
<1>1. IInv => RegistersGuarded
  BY DEF IInv, NTInv, RegistersGuarded, Protected
<1> QED
  BY <1>1, InductiveInvariant, PTL

-----------------------------------------------------------------------------
(* Entries keep their owners.                                              *)

\* Two calls of the registrar change the prefix list, and nothing else does.
LEMMA ListChangesByRegistrar ==
  ASSUME [Next]_vars PROVE UNCHANGED prefixList \/ NTAddToPrefixList \/ NTRemoveFromPrefixList
<1>1. CASE NTWork
  BY <1>1 DEF NTWork, NTStep, NTAddFinalizer, NTAddAWSFinalizer, NTModeNotSupported, NTInvalidMode,
     NTIDMissing, NTNoGateway, NTFindGateway, NTCreateGateway, NTSaveGateway, NTNotReady, NTAttach,
     NTNoVPC, NTPublish, NTSavePrefixList, NTUpdateStatus, NTUnregister, NTDetach, NTDeleteGateway,
     NTRemoveAWSFinalizer, NTRemoveFinalizer, CreateGateway, Attach, PublishSNSMessage, Detach,
     DeleteGateway, networkVars
<1>2. CASE SHWork
  BY <1>2 DEF SHWork, SHStep, SHShareTransitGateway, SHAddFinalizer, SHAddAWSFinalizer,
     SHApplyGatewayShare, SHSharePrefixList, SHDeleteGatewayShare,
     SHDeletePrefixListShare, SHRemoveAWSFinalizer, SHRemoveFinalizer, ApplyResourceShare,
     DeleteResourceShare, networkVars
<1>3. CASE Fault \/ Restart
  BY <1>3 DEF Fault, NTFault, NTAWSReadFails, SHFault, SHAWSReadFails, Restart, networkVars
<1>4. ASSUME NEW c \in Clusters, NTTake(c) \/ SHTake(c) PROVE UNCHANGED prefixList
  BY <1>4 DEF NTTake, SHTake, NTGet, SHGet, networkVars
<1>5. ASSUME NEW c \in Clusters, Deliver(c) \/ Provision(c) \/ User(c) PROVE UNCHANGED prefixList
  BY <1>5 DEF Deliver, Provision, User, networkVars
<1>6. ASSUME NEW t \in Gateways, AWS(t) PROVE UNCHANGED prefixList
  BY <1>6 DEF AWS, GatewayAvailable, AttachmentDeleted, AcceptAttachment
<1>7. CASE UNCHANGED vars
  BY <1>7 DEF vars, networkVars
<1> QED
  BY <1>1, <1>2, <1>3, <1>4, <1>5, <1>6, <1>7 DEF Next

\* What EntryKeepsOwner says of one step, block by block.
OwnerStays(d) ==
  prefixList'[d] # prefixList[d] /\ prefixList[d] # Nobody
    => /\ prefixList'[d] = Nobody
       /\ NTAt("RemoveFromPrefixList") /\ nt.c = prefixList[d]

\* Clusters with one CIDR block never take over or remove each other's entry, for
\* any modes, annotations, caches and failures (addToPrefixList,
\* removeFromPrefixList compare the description of the entry).
THEOREM EntryKept == Spec => EntryKeepsOwner
<1>1. ASSUME TypeOK, [Next]_vars, NEW d \in Cidrs PROVE OwnerStays(d)
  <2>1. prefixList \in [Cidrs -> Clusters \cup {Nobody}] /\ nt.c \in Clusters
    BY <1>1 DEF TypeOK, NetworkTypeOK, NTTypeOK
  <2>2. CASE UNCHANGED prefixList
    BY <2>2 DEF OwnerStays
  <2>3. CASE NTAddToPrefixList
    <3>1. UNCHANGED prefixList \/ (prefixList[Cidr[nt.c]] \in {nt.c, Nobody}
                                   /\ prefixList' = [prefixList EXCEPT ![Cidr[nt.c]] = nt.c])
      BY <2>3 DEF NTAddToPrefixList, EntryConflicts, AddEntry, networkVars
    <3> QED
      BY <2>1, <3>1 DEF OwnerStays
  <2>4. CASE NTRemoveFromPrefixList
    <3>1. UNCHANGED prefixList \/ (prefixList[Cidr[nt.c]] = nt.c
                                   /\ prefixList' = [prefixList EXCEPT ![Cidr[nt.c]] = Nobody])
      BY <2>4 DEF NTRemoveFromPrefixList, RemoveEntry, HasEntry, networkVars
    <3> QED
      BY <2>1, <2>4, <3>1 DEF OwnerStays, NTRemoveFromPrefixList
  <2> QED
    BY <1>1, <2>2, <2>3, <2>4, ListChangesByRegistrar
<1>2. ASSUME TypeOK, [Next]_vars
      PROVE  [\A d \in Cidrs : prefixList'[d] # prefixList[d] /\ prefixList[d] # Nobody
                => /\ prefixList'[d] = Nobody
                   /\ NTAt("RemoveFromPrefixList") /\ nt.c = prefixList[d]]_vars
  BY <1>1, <1>2 DEF OwnerStays
<1> QED
  BY TypeCorrect, <1>2, PTL DEF Spec, EntryKeepsOwner
=============================================================================
