------------------------------ MODULE AwsClients ------------------------------
(***************************************************************************)
(* The clients AWS is called with. main.go keeps an EC2 client per name of *)
(* a workload cluster for some minutes and hands out copies; a client      *)
(* assumes the role of its cluster at the first call made through it       *)
(* (pkg/aws/ec2Client.go) and keeps it. transitGatewayClient.go passes     *)
(* calls on. A name may come back with a cluster of another account.       *)
(***************************************************************************)
EXTENDS Naturals, Sequences, FiniteSets

CONSTANTS
  Names,     \* names of workload clusters
  Accounts,  \* AWS accounts
  NoAccount  \* no role assumed

ASSUME ClientsAssumption == NoAccount \notin Accounts /\ Names # {}

VARIABLES
  identity,  \* the account of the AWSClusterRoleIdentity each AWSCluster refers to
  pool,      \* the cached EC2 clients: for each name none, or the one there is
  client,    \* the EC2 client in the TGWClient the worker holds
  sns        \* whether the SNS client of the process has assumed its role

clientVars == <<identity, pool, client, sns>>

Client == [name: Names, account: Accounts \cup {NoAccount}]
ClientsTypeOK ==
  /\ identity \in [Names -> Accounts]
  /\ pool \in [Names -> SUBSET Client] /\ \A n \in Names : Cardinality(pool[n]) <= 1
  /\ client \in SUBSET Client /\ Cardinality(client) <= 1
  /\ sns \in BOOLEAN

ClientsInit ==
  /\ identity \in [Names -> Accounts]
  /\ pool = [n \in Names |-> {}] /\ client = {} /\ sns = FALSE

NewEC2Client(n) == [name |-> n, account |-> NoAccount]

\* Mutant: a client is kept for each account a name was used with.
GetClientForAccount(n) ==
  /\ pool' = [pool EXCEPT ![n] = @ \cup {[name |-> n, account |-> identity[n]]}]
  /\ client' = {[name |-> n, account |-> identity[n]]}
  /\ UNCHANGED <<identity, sns>>

\* getTransitGatewayClientForWorkloadCluster: NewTGWClient takes the cached
\* client by value, so the worker gets a copy.
GetClient(n) ==
  /\ pool' = [pool EXCEPT ![n] = IF @ = {} THEN {NewEC2Client(n)} ELSE @]
  /\ client' = pool'[n]
  /\ UNCHANGED <<identity, sns>>

\* The role of the AWSClusterRoleIdentity that the AWSCluster of this name refers to.
GetAWSClusterRoleIdentity(n) == identity[n]

\* The account a call through the client is made in.
CalledIn(c) == IF c.account = NoAccount THEN GetAWSClusterRoleIdentity(c.name) ELSE c.account
Bound(c) == [c EXCEPT !.account = CalledIn(c)]

\* Mutant: the client is passed by reference, and the cached one is bound.
CallByReference ==
  /\ client' = {Bound(c) : c \in client}
  /\ pool' = [n \in Names |-> IF \E c \in client : c.name = n THEN client' ELSE pool[n]]
  /\ UNCHANGED <<identity, sns>>

\* Every call goes through client(), which binds the copy it is made through.
Call ==
  /\ client' = {Bound(c) : c \in client}
  /\ UNCHANGED <<identity, pool, sns>>

\* The SNS client is the process's own and never assumes its role again.
PublishSNSMessage == sns' = TRUE /\ UNCHANGED <<identity, pool, client>>

Expire(n) ==
  /\ pool[n] # {} /\ pool' = [pool EXCEPT ![n] = {}]
  /\ UNCHANGED <<identity, client, sns>>

\* A new process: also what SNSClient.client makes of a role it cannot get.
ClientsRestart ==
  /\ pool' = [n \in Names |-> {}] /\ client' = {} /\ sns' = FALSE
  /\ UNCHANGED identity
=============================================================================
