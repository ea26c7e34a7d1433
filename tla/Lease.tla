------------------------------- MODULE Lease -------------------------------
(***************************************************************************)
(* Dynamic secrets of OpenObserve: /sync/create makes an account for one   *)
(* consumer, /sync/revoke deletes the accounts of leases that have ended.  *)
(* An account is a service account, whose token is read in a second        *)
(* request, or a user with a password.                                     *)
(*                                                                         *)
(* What Gateway calls the store holds the open leases here, and a lease is *)
(* the call that created it.  A request and its answer are one step unless *)
(* the answer does not come: then the request may take effect at any later *)
(* time, or never.                                                         *)
(***************************************************************************)
EXTENDS Gateway

CONSTANTS
    Leases,     \* the calls to /sync/create; the others go to /sync/revoke
    Kinds,      \* what the accounts may be
    Emails      \* names that the clock can make up

ASSUME LeaseAssumption ==
    /\ Leases \subseteq Calls
    /\ Kinds \subseteq {"token", "password"}

VARIABLES
    kind,       \* what the accounts are
    email,      \* the email that each create made up
    accounts,   \* the emails that have an account
    wire,       \* requests without an answer that may still take effect
    todo,       \* the ids that each revocation has yet to delete
    answer,     \* the status each revocation got for its latest id, 0 for none
    ending,     \* the leases that have expired
    waived      \* history: the leases acknowledged without a deletion

leaseVars == <<kind, email, accounts, wire, todo, answer, ending, waived>>
vars == <<gatewayVars, leaseVars>>

-----------------------------------------------------------------------------

None == "none"
ASSUME NoneAssumption == None \notin Emails

Revocations == Calls \ Leases

Stages == {"idle", "create", "token", "delete", "reply"} \union Ended

\* Mutant: leases are named by themselves.
Unnamed(S) == S

\* Mutant: whatever is open is revoked.
OpenIds(S) == {email[c] : c \in store}

Ids(S) == {email[c] : c \in S}

\* A service account's token has to be read, a user's password is known.
AfterCreate == IF kind = "token" THEN "token" ELSE "reply"

\* Mutant: an account that is not there is an error.
OnlyOK(status) == status = 200

Deleted(status) == status \in {200, 404}

-----------------------------------------------------------------------------

Init ==
    /\ kind \in Kinds
    /\ store = {}
    /\ email = [c \in Leases |-> None]
    /\ accounts = {}
    /\ wire = {}
    /\ todo = [c \in Calls |-> {}]
    /\ answer = [c \in Calls |-> 0]
    /\ ending = {}
    /\ waived = {}
    /\ GatewayInit({})

-----------------------------------------------------------------------------
\* The gateway.

Post(c, stage) ==
    /\ pc[c] = "idle"
    /\ pc' = [pc EXCEPT ![c] = stage]
    /\ awaited' = [awaited EXCEPT ![c] = TRUE]
    /\ UNCHANGED <<store, cancelled>>

\* The email is made from the time, in nanoseconds of a clock that may be coarser
\* and may be set back: another lease may have the same.
AskCreate(c) ==
    /\ Post(c, "create")
    /\ \E e \in Emails : email' = [email EXCEPT ![c] = e]
    /\ UNCHANGED <<old, new, kind, accounts, wire, todo, answer, ending, waived>>

Expire(c) ==
    /\ c \in store \ ending
    /\ ending' = ending \union {c}
    /\ UNCHANGED <<gatewayVars, kind, email, accounts, wire, todo, answer, waived>>

Asks(c, S) ==
    /\ old' = [old EXCEPT ![c] = S]
    /\ UNCHANGED <<kind, email, accounts, wire, answer, ending>>

\* The ids of some leases that have expired, with the payload of the item.
AskRevoke(c, S) ==
    /\ Post(c, "delete")
    /\ Asks(c, S)
    /\ todo' = [todo EXCEPT ![c] = Ids(S)]
    /\ UNCHANGED <<new, waived>>

\* The same with a payload that is empty or of an unknown type: acknowledged.
AskBlankly(c, S) ==
    /\ Post(c, "reply")
    /\ Asks(c, S)
    /\ new' = [new EXCEPT ![c] = Ids(S)]
    /\ waived' = waived \union S
    /\ UNCHANGED todo

\* The gateway is free to revoke again what it was not told is revoked.
Forget(c) ==
    /\ c \in Revocations
    /\ pc[c] \in Ended
    /\ pc' = [pc EXCEPT ![c] = "idle"]
    /\ old' = [old EXCEPT ![c] = {}]
    /\ new' = [new EXCEPT ![c] = {}]
    /\ todo' = [todo EXCEPT ![c] = {}]
    /\ answer' = [answer EXCEPT ![c] = 0]
    /\ cancelled' = [cancelled EXCEPT ![c] = FALSE]
    /\ UNCHANGED <<store, awaited, kind, email, accounts, wire, ending, waived>>

-----------------------------------------------------------------------------
\* Create.

\* The account exists now; the service takes a second one of that name or not.
AccountCreated(c) ==
    /\ pc[c] = "create"
    /\ ~cancelled[c]
    /\ accounts' = accounts \union {email[c]}
    /\ GoOn(c, AfterCreate, {email[c]})
    /\ UNCHANGED <<kind, email, wire, todo, answer, ending, waived>>

TokenRead(c) ==
    /\ pc[c] = "token"
    /\ ~cancelled[c]
    /\ email[c] \in accounts
    /\ GoOn(c, "reply", new[c])
    /\ UNCHANGED leaseVars

\* Mutant: the error of reading the token is logged and nothing more.
TokenErrorIgnored(c) ==
    /\ pc[c] \in {"create", "token"}
    /\ GoOn(c, "reply", {email[c]})
    /\ UNCHANGED leaseVars

\* Refused, unanswered or cancelled: Create returns an error and no id.
CreateFails(c) ==
    /\ pc[c] \in {"create", "token"}
    /\ Fail(c)
    /\ wire' \in {wire, IF pc[c] = "create" /\ ~cancelled[c]
                          THEN wire \union {<<"create", email[c]>>} ELSE wire}
    /\ UNCHANGED <<kind, email, accounts, todo, answer, ending, waived>>

-----------------------------------------------------------------------------
\* Revoke.

\* On to the next id, with the ids deleted so far.
ToNext(c, e, status, deleted) ==
    /\ answer' = [answer EXCEPT ![c] = status]
    /\ todo' = [todo EXCEPT ![c] = @ \ {e}]
    /\ GoOn(c, IF todo[c] = {e} THEN "reply" ELSE "delete", deleted)
    /\ UNCHANGED <<kind, email, ending, waived>>

DeleteAnswered(c, e) ==
    LET status == IF e \in accounts THEN 200 ELSE 404 IN
    /\ pc[c] = "delete"
    /\ ~cancelled[c]
    /\ e \in todo[c]
    /\ accounts' = accounts \ {e}
    /\ ToNext(c, e, status, IF Deleted(status) THEN new[c] \union {e} ELSE new[c])
    /\ UNCHANGED wire

\* Mutant: an id whose deletion failed is reported with the others.
ReportsAnyway(c, e) == new[c] \union {e}

\* An id whose deletion failed is left out.
Reported(c, e) == new[c]

\* Refused, unanswered or cancelled: logged, and the loop goes on.
DeleteFails(c, e) ==
    /\ pc[c] = "delete"
    /\ e \in todo[c]
    /\ ToNext(c, e, 0, Reported(c, e))
    /\ wire' \in {wire, IF cancelled[c] THEN wire ELSE wire \union {<<"delete", e>>}}
    /\ UNCHANGED accounts

-----------------------------------------------------------------------------

\* OpenObserve gets round to a request that nobody waits for.
ServeLate(request, e) ==
    /\ <<request, e>> \in wire
    /\ wire' = wire \ {<<request, e>>}
    /\ accounts' = IF request = "create" THEN accounts \union {e} ELSE accounts \ {e}
    /\ UNCHANGED <<gatewayVars, kind, email, todo, answer, ending, waived>>

\* The lease is open: its consumer has the credentials, the gateway the id.
DeliverLease(c) ==
    /\ c \in Leases
    /\ pc[c] = "reply"
    /\ awaited[c]
    /\ End(c, "stored")
    /\ store' = store \union {c}
    /\ UNCHANGED <<old, new, cancelled>>

\* The leases that are reported as revoked are closed.
DeliverRevoked(c) ==
    /\ c \in Revocations
    /\ pc[c] = "reply"
    /\ awaited[c]
    /\ End(c, "acknowledged")
    /\ store' = store \ {d \in old[c] : email[d] \in new[c]}
    /\ UNCHANGED <<old, new, cancelled>>

\* What the rotator does about a call, unless it crashes.
Progress(c) ==
    \/ AccountCreated(c) \/ TokenRead(c) \/ CreateFails(c)
    \/ \E e \in Emails : DeleteAnswered(c, e) \/ DeleteFails(c, e)
    \/ (DeliverLease(c) \/ DeliverRevoked(c) \/ Drop(c)) /\ UNCHANGED leaseVars

Next ==
    \/ \E c \in Leases : AskCreate(c) \/ Expire(c)
    \/ \E c \in Revocations, S \in (SUBSET (store \intersect ending)) \ {{}} :
          AskRevoke(c, S) \/ AskBlankly(c, S)
    \/ \E e \in Emails, request \in {"create", "delete"} : ServeLate(request, e)
    \/ \E c \in Calls :
          \/ Forget(c) \/ Progress(c)
          \/ (Refuse(c) \/ GiveUp(c) \/ NoticeLeft(c) \/ Die(c)) /\ UNCHANGED leaseVars

Spec == Init /\ [][Next]_vars

-----------------------------------------------------------------------------

TypeOK ==
    /\ kind \in Kinds
    /\ store \subseteq Leases
    /\ email \in [Leases -> Emails \union {None}]
    /\ accounts \subseteq Emails
    /\ wire \subseteq {"create", "delete"} \X Emails
    /\ todo \in [Calls -> SUBSET Emails]
    /\ answer \in [Calls -> {0, 200, 404}]
    /\ ending \subseteq Leases
    /\ waived \subseteq Leases
    /\ pc \in [Calls -> Stages]
    /\ old \in [Calls -> SUBSET Leases]
    /\ new \in [Calls -> SUBSET Emails]
    /\ awaited \in [Calls -> BOOLEAN]
    /\ cancelled \in [Calls -> BOOLEAN]

Shares(c, d) == c # d /\ email[c] = email[d]

\* An open lease that has not expired has its account, unless another lease has the
\* same email: then revoking the other one took the account from both.
OpenWorks ==
    \A c \in store \ ending : email[c] \in accounts \/ \E d \in Leases : Shares(c, d)

\* An account that belongs to no open lease has a cause: the call that made it has
\* not delivered its lease, or the lease was acknowledged as revoked without a
\* look at it.
OrphanHasCause ==
    \A e \in accounts : \E c \in Leases :
        /\ email[c] = e
        /\ c \in store \/ pc[c] # "stored" \/ c \in waived

\* As long as every lease has an email of its own and no revocation was waved
\* through, this implements LeaseBook: a lease has its account from its delivery to
\* its end, and is closed only when the account is gone, whatever is late or lost.
Book == INSTANCE LeaseBook WITH
    open <- store,
    closed <- {c \in Leases : pc[c] = "stored"} \ store,
    held <- {c \in Leases : email[c] \in accounts}

Regular == waived = {} /\ \A c, d \in Leases : Shares(c, d) => email[c] = None

KeepsBook == Book!BookInit /\ [][Regular' => [Book!BookNext]_(Book!bookVars)]_vars

\* What a revocation was asked for is done or still to do.
Covers(c) == Ids(old[c]) \subseteq todo[c] \union new[c]

\* A revocation that covers its leases goes on to do so, whatever else is going on, and
\* closes all of them when its answer gets through: a deletion that failed is the only
\* way to be left out of the answer, and one of an account that is gone does not fail.
OnlyFailedIsLeftOut ==
    [][\A c \in Revocations :
          Covers(c) /\ ~(\E e \in Emails : DeleteFails(c, e)) =>
              /\ Covers(c)'
              /\ pc[c] = "reply" /\ pc'[c] = "acknowledged" => store' \intersect old[c] = {}]_vars

-----------------------------------------------------------------------------

\* What can keep a revocation from getting through.
Fault ==
    \E c \in Revocations :
        \/ GiveUp(c) \/ Die(c) \/ Refuse(c)
        \/ \E e \in Emails : DeleteFails(c, e)

\* A call that is running moves on, and the gateway does not stop asking for a
\* lease that has expired.
FairSpec ==
    /\ Spec
    /\ \A c \in Calls : WF_vars(Progress(c))
    /\ \A c \in Revocations : WF_vars(Forget(c))
    /\ \A c \in Revocations, d \in Leases :
          SF_vars(\E S \in SUBSET (store \intersect ending) : d \in S /\ AskRevoke(c, S))

\* When faults cease, every lease that has expired gets closed, also one whose
\* account an earlier revocation deleted without the gateway hearing of it.
ExpiredLeaseCloses ==
    (<>[][~Fault]_vars) => \A c \in Leases : c \in ending ~> c \notin store

=============================================================================
