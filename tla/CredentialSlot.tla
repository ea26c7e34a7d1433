--------------------------- MODULE CredentialSlot ---------------------------
(***************************************************************************)
(* What the rotation of a secret in place promises, without calls,         *)
(* requests, answers or failures: a service replaces the one credential    *)
(* that is in force, and the gateway publishes credentials to its          *)
(* consumers.  One that is lost on the way stays undelivered for ever.     *)
(* Where an answer may leave the credential out, a blank is published in   *)
(* its place, and the slot may become empty until the next replacement.    *)
(*                                                                         *)
(* Credentials are numbered in the order in which they came into force.    *)
(***************************************************************************)
EXTENDS Naturals

CONSTANT
    Ordered     \* TRUE: an earlier credential is not published after a later one

VARIABLES
    checked,        \* TRUE: the service replaces only what its client can name
    whole,          \* TRUE: an answer holds the credential
    latest,         \* the last credential that was put in force
    inForce,        \* the credential in force, 0 for none
    published,      \* the credential in the gateway's store, 0 for a blank
    undelivered     \* the credentials that were put in force and not published

slotVars == <<checked, whole, latest, inForce, published, undelivered>>

SlotInit ==
    /\ checked \in BOOLEAN
    /\ whole \in BOOLEAN
    /\ latest = 1
    /\ inForce = 1
    /\ published = 1
    /\ undelivered = {}

\* A service that checks what it replaces waits until that has been published.
Replace ==
    /\ checked => inForce \notin undelivered
    /\ latest' = latest + 1
    /\ inForce' = latest'
    /\ undelivered' = undelivered \union {latest'}
    /\ UNCHANGED <<checked, whole, published>>

\* A credential is published once.  Without a check it may have been replaced by then.
Publish(k) ==
    /\ checked => k = inForce
    /\ Ordered => \A j \in (1..latest) \ undelivered : j < k
    /\ published' \in IF whole THEN {k} ELSE {k, 0}
    /\ undelivered' = undelivered \ {k}
    /\ UNCHANGED <<checked, whole, latest, inForce>>

Empty ==
    /\ ~whole
    /\ inForce' = 0
    /\ UNCHANGED <<checked, whole, latest, published, undelivered>>

SlotNext == Replace \/ Empty \/ \E k \in undelivered : Publish(k)

SlotSpec == SlotInit /\ [][SlotNext]_slotVars

=============================================================================
