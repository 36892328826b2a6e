-------------------------------- MODULE Subnets --------------------------------
(***************************************************************************)
(* The subnets a transit gateway is attached to (getTGWGAttachmentSubnets- *)
(* OrDefault and getPrivateSubnetsByAZ in pkg/registrar/transitgateway.go):*)
(* the ones tagged for it, or else the private ones of the AWSCluster, the *)
(* first of each availability zone. EC2 takes one subnet per zone.         *)
(***************************************************************************)
EXTENDS Naturals, Sequences, SequencesExt

\* One round of the loop both functions run: a zone that is taken is passed over.
Visit(acc, subnet, eligible) ==
  IF eligible /\ subnet.az \notin acc.azMap
    THEN [result |-> Append(acc.result, subnet.id), azMap |-> acc.azMap \cup {subnet.az}]
    ELSE acc

\* What has been collected after each round.
Rounds(subnets, eligible) ==
  LET round[i \in 0..Len(subnets)] ==
        IF i = 0 THEN [result |-> <<>>, azMap |-> {}]
                 ELSE Visit(round[i - 1], subnets[i], i \in eligible)
  IN  round
FirstPerZone(subnets, eligible) == Rounds(subnets, eligible)[Len(subnets)].result

Private(subnets) == {i \in DOMAIN subnets : ~subnets[i].isPublic}

\* Mutant: zones are not told apart.
AllPrivateSubnets(subnets) ==
  LET private == SelectSeq(subnets, LAMBDA s : ~s.isPublic)
  IN  [i \in DOMAIN private |-> private[i].id]

PrivateSubnetsByAZ(subnets) == FirstPerZone(subnets, Private(subnets))

\* The describe call answers for subnets with the tag, in the cluster's account.
AttachmentSubnets(tagged, subnets) ==
  IF tagged = <<>> THEN PrivateSubnetsByAZ(subnets) ELSE FirstPerZone(tagged, DOMAIN tagged)
=============================================================================
