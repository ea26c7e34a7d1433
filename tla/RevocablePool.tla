--------------------------- MODULE RevocablePool ---------------------------
(***************************************************************************)
(* The pool of credentials whose published one may be revoked: its         *)
(* revocation is ordered first and takes effect some time later, if at     *)
(* all, while the pool goes on as before.                                  *)
(***************************************************************************)
EXTENDS CredentialPool

VARIABLE
    revoked     \* the credentials whose revocation was ordered

revocableVars == <<poolVars, revoked>>

RevocableInit ==
    /\ PoolInit
    /\ revoked = {}

\* What is published may be ordered to be revoked, and nothing else.
Order ==
    /\ revoked' = revoked \union {published}
    /\ UNCHANGED poolVars

\* What was ordered to be revoked may go, superseded or not.
Revoke(k) ==
    /\ k \in revoked
    /\ live' = live \ {k}
    /\ UNCHANGED <<issued, published, revoked>>

RevocableNext ==
    \/ PoolNext /\ UNCHANGED revoked
    \/ Order
    \/ \E k \in live : Revoke(k)

RevocableSpec == RevocableInit /\ [][RevocableNext]_revocableVars

=============================================================================
