--------------------------- MODULE CredentialPool ---------------------------
(***************************************************************************)
(* What the rotation of a token promises, without calls, requests, answers *)
(* or failures: a service issues credentials, older ones are retired, and  *)
(* the gateway publishes credentials to its consumers.                     *)
(*                                                                         *)
(* Credentials are numbered in the order in which the service issued them. *)
(***************************************************************************)
EXTENDS Naturals

VARIABLES
    issued,     \* how many credentials the service has issued
    live,       \* the credentials the service still accepts
    published   \* the credential in the gateway's store, 0 when there is none

poolVars == <<issued, live, published>>

PoolInit ==
    /\ issued \in {0, 1}
    /\ live = 1..issued
    /\ published = issued

Issue ==
    /\ issued' = issued + 1
    /\ live' = live \union {issued'}
    /\ UNCHANGED published

\* Only a credential that has been superseded may go.
Retire(k) ==
    /\ k < issued
    /\ live' = live \ {k}
    /\ UNCHANGED <<issued, published>>

\* Only a credential that works is handed to consumers.
Publish(k) ==
    /\ k \in live
    /\ published' = k
    /\ UNCHANGED <<issued, live>>

PoolNext ==
    \/ Issue
    \/ \E k \in live : Retire(k) \/ Publish(k)

PoolSpec == PoolInit /\ [][PoolNext]_poolVars

=============================================================================
