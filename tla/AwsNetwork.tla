------------------------------ MODULE AwsNetwork ------------------------------
(***************************************************************************)
(* The AWS resources the operator creates and removes: transit gateways,   *)
(* their attachments to VPCs, the prefix list of the management cluster,   *)
(* RAM resource shares and the SNS notifications. The services are         *)
(* external; each operator here is one call as the registrar, the share    *)
(* reconciler and the RAM client use it.                                   *)
(***************************************************************************)
EXTENDS ClusterStore

CONSTANTS
  Account,         \* the AWS account of each cluster
  GatewayAccount,  \* the AWS account that owns each gateway
  Cidr,            \* the CIDR block of each cluster's VPC
  ManualAccept,    \* gateways whose owner accepts each attachment by hand
  Nobody           \* no owner of a prefix list entry

Cidrs == {Cidr[c] : c \in Clusters}
ShareKinds == {"transit-gateway", "prefix-list"}

ASSUME NetworkAssumption ==
  /\ DOMAIN Account = Clusters /\ DOMAIN GatewayAccount = Gateways
  /\ DOMAIN Cidr = Clusters /\ ManualAccept \subseteq Gateways /\ Nobody \notin Clusters

VARIABLES
  gateway,     \* the state of each transit gateway
  attachment,  \* the state of the attachment of each gateway to each cluster's VPC
  prefixList,  \* whose entry, by its description, each CIDR block of the list is
  shares,      \* the resource shares that exist for each cluster
  notified     \* attachments whose acceptance was requested by an SNS message

networkVars == <<gateway, attachment, prefixList, shares, notified>>

GatewayStates == {"absent", "pending", "available", "deleted"}
AttachmentStates == {"none", "pendingAcceptance", "available", "deleting"}

NetworkTypeOK ==
  /\ gateway \in [Gateways -> GatewayStates]
  /\ attachment \in [Gateways -> [Clusters -> AttachmentStates]]
  /\ prefixList \in [Cidrs -> Clusters \cup {Nobody}]
  /\ shares \in [Clusters -> SUBSET ShareKinds]
  /\ notified \subseteq Gateways \X Clusters

NetworkInit ==
  LET Settled == Clusters \ Churn
      existing == UserGateways \cup (IF Settled = {} THEN {} ELSE {Gateway0})
  IN  /\ gateway = [t \in Gateways |-> IF t \in existing THEN "available" ELSE "absent"]
      /\ attachment = [t \in Gateways |-> [c \in Clusters |->
                         IF c \in Settled /\ t = Gateway0 THEN "available" ELSE "none"]]
      /\ prefixList = [d \in Cidrs |-> IF Settled # {} /\ d = Cidr[MC] THEN MC ELSE Nobody]
      /\ shares = [c \in Clusters |-> {}]
      /\ notified = {}

\* A gateway with an attachment in any state cannot be deleted, and a VPC with
\* one cannot be removed.
Attached(t, c) == attachment[t][c] \in {"pendingAcceptance", "available"}
HasAttachment(c) == \E t \in Gateways : attachment[t][c] # "none"
HasEntry(c) == prefixList[Cidr[c]] = c

\* A gateway of another account can be attached to once it is shared.
Visible(t, c) == GatewayAccount[t] = Account[c] \/ "transit-gateway" \in shares[c]

-----------------------------------------------------------------------------
(* What AWS and the owners of gateways do in their own time.               *)

GatewayAvailable(t) ==
  /\ gateway[t] = "pending"
  /\ gateway' = [gateway EXCEPT ![t] = "available"]
  /\ UNCHANGED <<attachment, prefixList, shares, notified>>

AttachmentDeleted(t, c) ==
  /\ attachment[t][c] = "deleting"
  /\ attachment' = [attachment EXCEPT ![t][c] = "none"]
  /\ UNCHANGED <<gateway, prefixList, shares, notified>>

\* The owner of the gateway acts on the SNS message.
AcceptAttachment(t, c) ==
  /\ attachment[t][c] = "pendingAcceptance" /\ <<t, c>> \in notified
  /\ attachment' = [attachment EXCEPT ![t][c] = "available"]
  /\ UNCHANGED <<gateway, prefixList, shares, notified>>

-----------------------------------------------------------------------------
(* The calls of the registrar.                                             *)

CreateGateway(t) ==
  /\ gateway[t] = "absent" /\ GatewayAccount[t] = Account[MC]
  /\ gateway' = [gateway EXCEPT ![t] = "pending"]
  /\ UNCHANGED <<attachment, prefixList, shares, notified>>

CanAttach(t, c) == attachment[t][c] # "none" \/ (Visible(t, c) /\ gateway[t] = "available")

\* An attachment that exists is left as it is, whatever its state.
Attach(t, c) ==
  LET new == IF t \in ManualAccept THEN "pendingAcceptance" ELSE "available"
  IN  /\ attachment' = [attachment EXCEPT ![t][c] = IF @ = "none" THEN new ELSE @]
      /\ UNCHANGED <<gateway, prefixList, shares, notified>>

\* Mutants: the VPC guard is inverted; attachments not yet accepted are left.
DetachWithoutVPC(t, c, vpc) ==
  /\ attachment' = IF ~vpc /\ t # NoGateway /\ attachment[t][c] # "none"
                   THEN [attachment EXCEPT ![t][c] = "deleting"] ELSE attachment
  /\ UNCHANGED <<gateway, prefixList, shares, notified>>
DetachAccepted(t, c, vpc) ==
  /\ attachment' = IF vpc /\ t # NoGateway /\ attachment[t][c] = "available"
                   THEN [attachment EXCEPT ![t][c] = "deleting"] ELSE attachment
  /\ UNCHANGED <<gateway, prefixList, shares, notified>>

\* Deletes what the describe call returns: nothing without a gateway or a VPC.
Detach(t, c, vpc) ==
  /\ attachment' = IF vpc /\ t # NoGateway /\ attachment[t][c] # "none"
                   THEN [attachment EXCEPT ![t][c] = "deleting"] ELSE attachment
  /\ UNCHANGED <<gateway, prefixList, shares, notified>>

CanDeleteGateway(t) ==
  /\ t # NoGateway /\ gateway[t] \in {"pending", "available"}
  /\ \A c \in Clusters : attachment[t][c] = "none"

DeleteGateway(t) ==
  /\ gateway' = [gateway EXCEPT ![t] = "deleted"]
  /\ UNCHANGED <<attachment, prefixList, shares, notified>>

\* Mutant: the description is compared the wrong way round.
RemoveOtherEntry(c, vpc) ==
  /\ prefixList' = IF vpc /\ ~HasEntry(c) THEN [prefixList EXCEPT ![Cidr[c]] = Nobody]
                                          ELSE prefixList
  /\ UNCHANGED <<gateway, attachment, shares, notified>>

\* addToPrefixList and removeFromPrefixList read a version of the list and send
\* it with the change, which AWS refuses if the list has changed since: each is
\* one step, and the refusal is one of the faults of a caller.
EntryConflicts(c) == prefixList[Cidr[c]] \notin {c, Nobody}

AddEntry(c) ==
  /\ prefixList' = [prefixList EXCEPT ![Cidr[c]] = c]
  /\ UNCHANGED <<gateway, attachment, shares, notified>>

RemoveEntry(c, vpc) ==
  /\ prefixList' = IF vpc /\ HasEntry(c) THEN [prefixList EXCEPT ![Cidr[c]] = Nobody]
                                         ELSE prefixList
  /\ UNCHANGED <<gateway, attachment, shares, notified>>

PublishSNSMessage(t, c) ==
  /\ notified' = notified \cup {<<t, c>>}
  /\ UNCHANGED <<gateway, attachment, prefixList, shares>>

-----------------------------------------------------------------------------
(* The calls of the RAM client, keyed by cluster and kind of resource.     *)

ApplyResourceShare(c, kind) ==
  /\ shares' = [shares EXCEPT ![c] = @ \cup {kind}]
  /\ UNCHANGED <<gateway, attachment, prefixList, notified>>

\* Mutant: only the share of the gateway is found by its name.
DeleteGatewayShareOnly(c, kind) ==
  /\ shares' = [shares EXCEPT ![c] = @ \ (IF kind = "prefix-list" THEN {} ELSE {kind})]
  /\ UNCHANGED <<gateway, attachment, prefixList, notified>>

DeleteResourceShare(c, kind) ==
  /\ shares' = [shares EXCEPT ![c] = @ \ {kind}]
  /\ UNCHANGED <<gateway, attachment, prefixList, notified>>
=============================================================================
