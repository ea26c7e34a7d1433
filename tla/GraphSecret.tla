---------------------------- MODULE GraphSecret ----------------------------
(***************************************************************************)
(* A client secret of an application in Entra, which Microsoft Graph adds  *)
(* and removes.  Its Rotate is one of Rotation's, but the removal of the   *)
(* old secret is attempted several times, and its Revoke, which the        *)
(* gateway calls when the item is deleted, removes the stored secret.      *)
(* Both may be under way at once.                                          *)
(*                                                                         *)
(* A replica of the directory that lags behind may refuse a removal as a   *)
(* conflict, or not know the secret.                                       *)
(***************************************************************************)
EXTENDS Naturals, Targets, Gateway

CONSTANT
    MaxAttempts     \* how often a removal is attempted, 4 in the code

ASSUME GraphAssumption == MaxAttempts \in Nat \ {0}

VARIABLES
    revoking,   \* the calls that went to /sync/revoke
    issued,     \* how many secrets have been added; they are 1..issued
    live,       \* the secrets the application accepts
    wire,       \* requests that may still take effect; an attempt that was given up
                \* for the next one is "late"
    made,       \* the secret added for each call, 0 before
    tries,      \* the removals each call has attempted
    answer,     \* the status each call got for its latest removal, 0 for none
    due         \* history: the adds and removals that are owed, until they are served

serviceVars == <<revoking, issued, live, wire, made, tries, answer, due>>
vars == <<gatewayVars, serviceVars>>

-----------------------------------------------------------------------------

Payload(k) == [id |-> k, key |-> k]
Blank == Payload(0)

PayloadType == [id : Nat, key : Nat]

Stages == {"idle", "create", "delete", "backoff", "reply"} \union Ended

Removals == {"delete", "late"}

\* A removal that took effect, one of a secret that is not there, a conflict, and
\* a failure of the service.
Gone == 204
Missing == 404
Conflict == 409
Stumble == 503
Statuses == {0, Gone, Missing, Conflict, Stumble}

\* Mutant: a secret that is not there counts as removed.
MissingIsGone(status) == status \in {200, Gone, Missing}

Succeeds(status) == status \in {200, Gone}

\* Mutant: a conflict is final.
OnlyFailures(status) == status >= 500

Retryable(status) == status \in {409, 429} \/ status >= 500

\* Mutant: the loop starts over with every attempt.
AttemptUncounted(c) ==
    /\ wire' = wire \union {<<"delete", c>>}
    /\ tries' = [tries EXCEPT ![c] = 1]
    /\ answer' = [answer EXCEPT ![c] = 0]

\* The next attempt, sent unless the context is cancelled; the one before may
\* still be under way.
Attempt(c) ==
    /\ wire' = {r \in wire : r # <<"delete", c>>}
                 \union {<<"late", c>> : r \in {<<"delete", c>>} \intersect wire}
                 \union (IF cancelled[c] THEN {} ELSE {<<"delete", c>>})
    /\ tries' = [tries EXCEPT ![c] = @ + 1]
    /\ answer' = [answer EXCEPT ![c] = 0]

-----------------------------------------------------------------------------

\* The item was created with a secret and its key id, with a secret alone, or with
\* neither: Create gives back what it was sent.
Init ==
    /\ revoking = {}
    /\ issued \in {0, 1}
    /\ live = 1..issued
    /\ store \in [id : {0, issued}, key : {issued}]
    /\ wire = {}
    /\ made = [c \in Calls |-> 0]
    /\ tries = [c \in Calls |-> 0]
    /\ answer = [c \in Calls |-> 0]
    /\ due = {}
    /\ GatewayInit(Blank)

-----------------------------------------------------------------------------
\* Microsoft Graph.

ServeCreate(c) ==
    /\ <<"create", c>> \in wire
    /\ wire' = wire \ {<<"create", c>>}
    /\ issued' = issued + 1
    /\ live' = live \union {issued'}
    /\ made' = [made EXCEPT ![c] = issued']
    /\ due' = due \ {<<"create", c>>}
    /\ UNCHANGED <<gatewayVars, revoking, tries, answer>>

\* Mutant: the key id of the payload is overwritten before it is read.
NextKeyID(c) == IF made[c] # 0 THEN made[c] ELSE old[c].id

\* The secret that a call removes.
PrevKeyID(c) == old[c].id

\* An answer is of use only to a client that waits for it.
Answer(c, request, status) ==
    answer' = IF request = "delete" /\ pc[c] = "delete"
              THEN [answer EXCEPT ![c] = status] ELSE answer

ServeRemoval(c, request) ==
    /\ <<request, c>> \in wire
    /\ wire' = wire \ {<<request, c>>}
    /\ live' = live \ {PrevKeyID(c)}
    /\ Answer(c, request, IF PrevKeyID(c) \in live THEN Gone ELSE Missing)
    /\ due' = due \ {<<"delete", c>>}
    /\ UNCHANGED <<gatewayVars, revoking, issued, made, tries>>

RefuseRemoval(c, request) ==
    /\ <<request, c>> \in wire
    /\ wire' = wire \ {<<request, c>>}
    /\ \E status \in {Missing, Conflict} : Answer(c, request, status)
    /\ UNCHANGED <<gatewayVars, revoking, issued, live, made, tries, due>>

\* A failure is reported, and the removal may take effect all the same.
StumbleOverRemoval(c) ==
    /\ <<"delete", c>> \in wire
    /\ Answer(c, "delete", Stumble)
    /\ UNCHANGED <<gatewayVars, revoking, issued, live, wire, made, tries, due>>

-----------------------------------------------------------------------------
\* The rotator.

TriggerRotate(c) ==
    /\ Start(c, "create")
    /\ wire' = wire \union {<<"create", c>>}
    /\ due' = due \union {<<"create", c>>}
    /\ UNCHANGED <<revoking, issued, live, made, tries, answer>>

\* A payload without a key id is acknowledged, there is nothing to remove.
TriggerRevoke(c) ==
    /\ \/ /\ store.id = 0
          /\ Start(c, "reply")
          /\ UNCHANGED <<wire, tries, answer, due>>
       \/ /\ store.id # 0
          /\ Start(c, "delete")
          /\ Attempt(c)
          /\ due' = due \union {<<"delete", c>>}
    /\ revoking' = revoking \union {c}
    /\ UNCHANGED <<issued, live, made>>

\* addPassword returned a secret with its key id.
CreateSucceeds(c) ==
    /\ pc[c] = "create"
    /\ made[c] # 0
    /\ \/ /\ old[c].id = 0
          /\ GoOn(c, "reply", Payload(made[c]))
          /\ UNCHANGED <<wire, tries, answer, due>>
       \/ /\ old[c].id # 0
          /\ GoOn(c, "delete", Payload(made[c]))
          /\ Attempt(c)
          /\ due' = IF cancelled[c] THEN due ELSE due \union {<<"delete", c>>}
    /\ UNCHANGED <<revoking, issued, live, made>>

\* Mutant: the error of addPassword is not looked at.
CreateErrorIgnored(c) ==
    /\ pc[c] = "create"
    /\ GoOn(c, "delete", old[c])
    /\ Attempt(c)
    /\ UNCHANGED <<revoking, issued, live, made, due>>

\* No access token, another status, an incomplete or a late answer, a cancelled
\* context: Rotate returns an error.
CreateFails(c) ==
    /\ pc[c] = "create"
    /\ Fail(c)
    /\ UNCHANGED serviceVars

Removed(c) ==
    /\ pc[c] = "delete"
    /\ Succeeds(answer[c])
    /\ GoOn(c, "reply", new[c])
    /\ UNCHANGED serviceVars

\* Mutant: Revoke returns as Rotate does, whatever became of the removal.
ReturnsAnyway(c) == GoOn(c, "reply", new[c])

\* Mutant: a rotation whose removal fails is an error as well.
FailsAnyway(c) == Fail(c)

\* Rotate goes on without the removal, Revoke returns the error.
WithoutRemoval(c) ==
    IF c \in revoking THEN Fail(c) ELSE GoOn(c, "reply", new[c])

\* Mutant: one attempt too many.
OnceMore(c) == Retryable(answer[c]) /\ tries[c] <= MaxAttempts

TriesAgain(c) == Retryable(answer[c]) /\ tries[c] < MaxAttempts

\* An answer that is final, an access token or an answer that did not come, or a
\* context cancelled between two attempts: removePassword returns an error.
RemovalFails(c) ==
    /\ \/ /\ pc[c] = "delete"
          /\ answer[c] # 0
          /\ ~Succeeds(answer[c])
          /\ ~TriesAgain(c)
          /\ UNCHANGED answer
       \/ /\ pc[c] = "delete"
          /\ answer' = [answer EXCEPT ![c] = 0]
       \/ /\ pc[c] = "backoff"
          /\ cancelled[c]
          /\ UNCHANGED answer
    /\ WithoutRemoval(c)
    /\ UNCHANGED <<revoking, issued, live, wire, made, tries, due>>

BackOff(c) ==
    /\ pc[c] = "delete"
    /\ TriesAgain(c)
    /\ GoOn(c, "backoff", new[c])
    /\ UNCHANGED serviceVars

Retry(c) ==
    /\ pc[c] = "backoff"
    /\ GoOn(c, "delete", new[c])
    /\ Attempt(c)
    /\ UNCHANGED <<revoking, issued, live, made, due>>

-----------------------------------------------------------------------------

\* The answer comes back, a payload to store only from a rotation.
Return(c) ==
    \/ c \notin revoking /\ Deliver(c)
    \/ c \in revoking /\ Acknowledge(c)
    \/ Drop(c)

Progress(c) ==
    \/ CreateSucceeds(c) \/ CreateFails(c)
    \/ Removed(c) \/ RemovalFails(c) \/ BackOff(c) \/ Retry(c)
    \/ Return(c) /\ UNCHANGED serviceVars

Next ==
    \E c \in Calls :
        \/ TriggerRotate(c) \/ TriggerRevoke(c) \/ Progress(c)
        \/ ServeCreate(c)
        \/ StumbleOverRemoval(c)
        \/ \E request \in Removals : ServeRemoval(c, request) \/ RefuseRemoval(c, request)
        \/ (Refuse(c) \/ GiveUp(c) \/ NoticeLeft(c) \/ Die(c)) /\ UNCHANGED serviceVars

Spec == Init /\ [][Next]_vars

\* Every request ends within the client's 30 seconds and every pause within 6, so
\* a call that is running moves on.
FairSpec == Spec /\ \A c \in Calls : WF_vars(Progress(c))

-----------------------------------------------------------------------------

TypeOK ==
    /\ revoking \subseteq Calls
    /\ issued \in Nat
    /\ live \subseteq 1..issued
    /\ wire \subseteq ({"create"} \union Removals) \X Calls
    /\ made \in [Calls -> 0..issued]
    /\ tries \in [Calls -> 0..MaxAttempts]
    /\ answer \in [Calls -> Statuses]
    /\ due \subseteq {"create", "delete"} \X Calls
    /\ store \in PayloadType
    /\ pc \in [Calls -> Stages]
    /\ old \in [Calls -> PayloadType]
    /\ new \in [Calls -> PayloadType]
    /\ awaited \in [Calls -> BOOLEAN]
    /\ cancelled \in [Calls -> BOOLEAN]

\* A revocation answered without an error has left behind no secret that it was sent
\* with its key id: the secret is gone, whatever attempts were refused, repeated or
\* served late.  A secret without its key id is acknowledged as it is, and works on.
AcknowledgedIsGone ==
    \A c \in revoking :
        pc[c] \in {"reply", "acknowledged", "lost"} =>
            old[c].key \notin live \/ old[c].id = 0

\* A removal succeeds once.  Of the revocations of one secret - the gateway calls
\* again after an error, or after no answer - at most one is answered without an
\* error, so the call that repeats one which did remove the secret always fails.
RemovedForOne ==
    \A c, d \in revoking :
        /\ old[c].id # 0 /\ old[c].id = old[d].id
        /\ {pc[c], pc[d]} \subseteq {"reply", "acknowledged", "lost"}
        => c = d

\* Rotations kill the newest secret under no circumstances, only a revocation does.
NewestIsLive ==
    issued \in {0} \union live \union {old[c].id : c \in revoking}

\* A stored secret is dead because it was revoked, or because the rotation that
\* replaced it has not delivered the next one, which works.
StoredDeadHasCause ==
    store.key # 0 /\ store.key \notin live =>
        \/ \E c \in revoking : old[c].id = store.key
        \/ \E c \in Calls :
               /\ old[c] = store
               /\ pc[c] \in {"delete", "backoff", "reply", "lost", "dead"}
               /\ made[c] \in live

\* A secret that works and is not the stored one has a cause: its rotation never
\* delivered it; two rotations overlapped; or the one that replaced it had no key
\* id, or used up its attempts, or got an answer that is final, or none.  Conflicts,
\* throttling and failures that end before the last attempt leave no secret behind.
LeakHasCause ==
    \A k \in live \ {store.key} :
        \/ \E c \in Calls : made[c] = k /\ pc[c] # "stored"
        \/ \E c \in Calls :
               /\ pc[c] = "stored"
               /\ old[c].key = k
               /\ \/ old[c].id = 0
                  \/ tries[c] = MaxAttempts
                  \/ answer[c] \in {0, Missing}
        \/ \E c, d \in Calls :
               c # d /\ pc[c] = "stored" /\ pc[d] = "stored" /\ old[c] = old[d]

\* A call comes to an end, however often its removal is refused.
EveryCallEnds == \A c \in Calls : Running(c) ~> pc[c] \in Ended

\* How many steps the rotator will take for a call at the most: a pause and an attempt
\* for each attempt that is left.
StepsLeft(c) ==
    CASE pc[c] = "idle"    -> 2 * MaxAttempts + 4
      [] pc[c] = "create"  -> 2 * MaxAttempts + 3
      [] pc[c] = "delete"  -> 2 * (MaxAttempts - tries[c]) + 3
      [] pc[c] = "backoff" -> 2 * (MaxAttempts - tries[c]) + 2
      [] pc[c] = "reply"   -> 1
      [] OTHER             -> 0

\* Why it comes to an end: nobody, neither Graph with whatever it answers, nor the
\* gateway, nor another call, can make it take longer, and each step of its own
\* brings it nearer to its end.
RetriesRunOut ==
    [][\A c \in Calls :
          /\ StepsLeft(c)' <= StepsLeft(c)
          /\ Progress(c) => StepsLeft(c)' < StepsLeft(c)]_vars

\* To the gateway this is a target like the others, with a strict Revoke: it
\* implements Rotation, with the attempts and the pauses as a part of the delete.
Plain == INSTANCE Rotation WITH
    Profiles <- {MicrosoftGraph},
    Blanks <- FALSE,
    profile <- MicrosoftGraph,
    wire <- due,
    answer <- [c \in Calls |-> IF made[c] = 0 THEN 0 ELSE 200],
    pc <- [c \in Calls |-> IF pc[c] = "backoff" THEN "delete" ELSE pc[c]]

ImplementsRotation == Plain!Spec

\* A secret goes only when it has been superseded, or
\* was in the store when a revocation was sent; no overlap of rotations, revocations
\* and late removals hits another; and what is stored works when it is stored.
Pool == INSTANCE RevocablePool WITH
    published <- store.key,
    revoked <- {old[c].id : c \in revoking} \ {0}

RefinesPool == Pool!RevocableSpec

=============================================================================
