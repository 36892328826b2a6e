---------------------------- MODULE AttachmentsMC ------------------------------
(* Instances of Attachments for TLC. *)
EXTENDS AttachmentsInv

CONSTANTS n1, a1, a2, v1, v2

\* One VPC in each account.
OneEach == [v \in VPCs |-> IF v = v1 THEN a1 ELSE a2]
=============================================================================
