----------------------------- MODULE LeaseBook -----------------------------
(***************************************************************************)
(* What a dynamic secret promises, without calls, requests or failures: a  *)
(* consumer holds an account of its own from the moment its lease opens    *)
(* until the lease ends, and a lease that is closed has left none behind.  *)
(***************************************************************************)

CONSTANT Leases

VARIABLES
    open,       \* the leases in the book
    ending,     \* those that have expired
    closed,     \* those that were struck off
    held        \* the leases whose account exists

bookVars == <<open, ending, closed, held>>

BookInit == open = {} /\ ending = {} /\ closed = {} /\ held = {}

\* An account is made for a lease that is not in the book yet, or never will be.
Provide(c) ==
    /\ c \notin open \union closed
    /\ held' = held \union {c}
    /\ UNCHANGED <<open, ending, closed>>

Open(c) ==
    /\ c \in held \ closed
    /\ open' = open \union {c}
    /\ UNCHANGED <<ending, closed, held>>

Expire(c) ==
    /\ c \in open
    /\ ending' = ending \union {c}
    /\ UNCHANGED <<open, closed, held>>

\* Only a lease that has expired loses its account.
Withdraw(c) ==
    /\ c \in ending
    /\ held' = held \ {c}
    /\ UNCHANGED <<open, ending, closed>>

\* Only leases whose accounts are gone are struck off.
Close(S) ==
    /\ S \subseteq (open \intersect ending) \ held
    /\ open' = open \ S
    /\ closed' = closed \union S
    /\ UNCHANGED <<ending, held>>

BookNext ==
    \/ \E c \in Leases : Provide(c) \/ Open(c) \/ Expire(c) \/ Withdraw(c)
    \/ \E S \in SUBSET Leases : Close(S)

BookSpec == BookInit /\ [][BookNext]_bookVars

=============================================================================
