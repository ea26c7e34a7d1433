------------------------------ MODULE Rotation ------------------------------
(***************************************************************************)
(* Rotation of one secret whose target issues a token and deletes the old  *)
(* one: the gateway that stores the secret, the rotator, and the service   *)
(* that issues the tokens.  The gateway may also have the secret revoked,  *)
(* which some targets take as an order to delete the stored token.         *)
(*                                                                         *)
(* A request on its way to the service may be lost, and may arrive after   *)
(* the caller stopped waiting for it.                                      *)
(***************************************************************************)
EXTENDS Naturals, Targets, Gateway

CONSTANTS
    Profiles,   \* the targets the secret may be configured with
    Blanks      \* TRUE: the service may say "created" and leave out the credential,
                \* its handle, or both

ASSUME RotationAssumption ==
    /\ Profiles \subseteq ProfileType
    /\ Blanks \in BOOLEAN

VARIABLES
    profile,    \* the target of this secret
    revoking,   \* the calls that went to /sync/revoke
    issued,     \* how many credentials the service has issued; they are 1..issued
    live,       \* the credentials the service still accepts
    wire,       \* requests to the service that may still take effect
    made,       \* the credential the service issued to each call, 0 before
    answer      \* the status of the answer to each call's create, 0 before

serviceVars == <<profile, revoking, issued, live, wire, made, answer>>
vars == <<gatewayVars, serviceVars>>

-----------------------------------------------------------------------------

\* The parts of a payload that rotation changes: the handle by which the
\* credential can be deleted and the credential, 0 for an empty field.
Payload(i, k) == [id |-> i, key |-> k]
\* Mutant: a payload that lost its handle field.
NoHandle == [key |-> 0]

Blank == Payload(0, 0)

PayloadType == [id : Nat, key : Nat]

Requests == {"create", "delete"}
Stages == {"idle", "reply"} \union Requests \union Ended

ErrorStatus == 500

\* The handle that comes with the credential k.
Handles(k) ==
    CASE profile.id \in {"always", "itself"} -> {k}
      [] profile.id = "maybe"               -> {0, k}
      [] profile.id = "never"               -> {0}

\* A credential that is its own handle does not come without it.
Whole(payload) == profile.id = "itself" => payload.id = payload.key

\* The answers a service may give for the credential k it just issued.
Bodies(k) ==
    IF Blanks THEN {body \in [id : {0} \union Handles(k), key : {0, k}] : Whole(body)}
              ELSE {Payload(i, k) : i \in Handles(k)}

\* Mutant: an answer without a credential is taken for one.
AcceptsAnyBody(c, body) == answer[c] \in profile.created

\* What the client's create call returns without an error.
Accepts(c, body) ==
    /\ answer[c] \in profile.created
    /\ profile.checks => body.key # 0 /\ (profile.id = "always" => body.id # 0)

\* Mutant: the old credential goes first, whatever the target.
AlwaysDeletesFirst(payload) == IF payload.id # 0 THEN "delete" ELSE "create"

FirstStage(payload) ==
    IF profile.order = "delete_first" /\ payload.id # 0 THEN "delete" ELSE "create"

\* Mutant: the delete is forgotten.
NeverDeletes(c) == "reply"

AfterCreate(c) ==
    IF profile.order = "create_first" /\ old[c].id # 0 THEN "delete" ELSE "reply"

\* Mutant: a delete is repeated until it succeeds.
RepeatsDelete == "delete"

AfterDelete ==
    IF profile.order = "create_first" THEN "reply" ELSE "create"

\* Sent with the stage that waits for it, unless the context is cancelled.
Send(c, stage) ==
    wire' = IF stage \in Requests /\ ~cancelled[c]
            THEN wire \union {<<stage, c>>}
            ELSE wire

-----------------------------------------------------------------------------

\* A secret is set up with a working credential, with or without its handle, or
\* with none.
Init ==
    /\ profile \in Profiles
    /\ revoking = {}
    /\ issued \in {0, 1}
    /\ live = 1..issued
    /\ store \in {payload \in [id : {0} \union Handles(issued), key : {issued}] : Whole(payload)}
    /\ wire = {}
    /\ made = [c \in Calls |-> 0]
    /\ answer = [c \in Calls |-> 0]
    /\ GatewayInit(Blank)

-----------------------------------------------------------------------------
\* The service.

ServeCreate(c) ==
    /\ <<"create", c>> \in wire
    /\ wire' = wire \ {<<"create", c>>}
    /\ issued' = issued + 1
    /\ live' = live \union {issued'}
    /\ made' = [made EXCEPT ![c] = issued']
    /\ \E status \in SuccessStatuses : answer' = [answer EXCEPT ![c] = status]
    /\ UNCHANGED <<gatewayVars, profile, revoking>>

RefuseCreate(c) ==
    /\ <<"create", c>> \in wire
    /\ wire' = wire \ {<<"create", c>>}
    /\ answer' = [answer EXCEPT ![c] = ErrorStatus]
    /\ UNCHANGED <<gatewayVars, profile, revoking, issued, live, made>>

ServeDelete(c) ==
    /\ <<"delete", c>> \in wire
    /\ wire' = wire \ {<<"delete", c>>}
    /\ live' = live \ {old[c].id}
    /\ UNCHANGED <<gatewayVars, profile, revoking, issued, made, answer>>

-----------------------------------------------------------------------------
\* The rotator.

Trigger(c) ==
    /\ Start(c, FirstStage(store))
    /\ Send(c, FirstStage(store))
    /\ UNCHANGED <<profile, revoking, issued, live, made, answer>>

\* Where Revoke starts: the delete is for the targets that have one, and for a
\* payload that names what to delete.
RevokeStage(payload) ==
    IF profile.revoke # "none" /\ payload.id # 0 THEN "delete" ELSE "reply"

TriggerRevoke(c) ==
    /\ Start(c, RevokeStage(store))
    /\ Send(c, RevokeStage(store))
    /\ revoking' = revoking \union {c}
    /\ UNCHANGED <<profile, issued, live, made, answer>>

CreateSucceeds(c) ==
    /\ pc[c] = "create"
    /\ \E body \in Bodies(made[c]) :
        /\ Accepts(c, body)
        /\ GoOn(c, AfterCreate(c), body)
    /\ Send(c, AfterCreate(c))
    /\ UNCHANGED <<profile, revoking, issued, live, made, answer>>

\* Mutant: the error of the create call is not looked at.
CreateErrorIgnored(c) ==
    /\ pc[c] = "create"
    /\ GoOn(c, AfterCreate(c), new[c])
    /\ Send(c, AfterCreate(c))
    /\ UNCHANGED <<profile, revoking, issued, live, made, answer>>

\* Another status, no credential in the answer, no answer within the client's
\* 30 seconds, a cancelled context: Rotate returns an error.
CreateFails(c) ==
    /\ pc[c] = "create"
    /\ Fail(c)
    /\ UNCHANGED serviceVars

\* The delete was served, refused, timed out or never sent: Rotate logs which
\* and goes on in every case.
DeleteReturns(c) ==
    /\ pc[c] = "delete"
    /\ c \notin revoking
    /\ GoOn(c, AfterDelete, new[c])
    /\ Send(c, AfterDelete)
    /\ UNCHANGED <<profile, revoking, issued, live, made, answer>>

\* The same in Revoke, but a strict one wants the credential deleted.
RevokeReturns(c) ==
    /\ pc[c] = "delete"
    /\ c \in revoking
    /\ \/ /\ profile.revoke = "strict" => old[c].id \notin live
          /\ GoOn(c, "reply", new[c])
       \/ /\ profile.revoke = "strict"
          /\ Fail(c)
    /\ UNCHANGED serviceVars

\* The answer comes back, a payload to store only from a rotation.
Return(c) ==
    /\ \/ c \notin revoking /\ Deliver(c)
       \/ c \in revoking /\ Acknowledge(c)
       \/ Drop(c)
    /\ UNCHANGED serviceVars

-----------------------------------------------------------------------------

\* What the rotator does about a call, unless it crashes.
Progress(c) ==
    \/ CreateSucceeds(c) \/ CreateFails(c)
    \/ DeleteReturns(c) \/ RevokeReturns(c) \/ Return(c)

Next ==
    \E c \in Calls :
        \/ Trigger(c) \/ TriggerRevoke(c) \/ Progress(c)
        \/ ServeCreate(c) \/ RefuseCreate(c) \/ ServeDelete(c)
        \/ (Refuse(c) \/ GiveUp(c) \/ NoticeLeft(c) \/ Die(c)) /\ UNCHANGED serviceVars

Spec == Init /\ [][Next]_vars

\* Every outbound call ends within the client's 30 seconds, so a call that is
\* running moves on.  Nothing obliges the service or the gateway to act.
FairSpec == Spec /\ \A c \in Calls : WF_vars(Progress(c))

-----------------------------------------------------------------------------

TypeOK ==
    /\ profile \in Profiles
    /\ revoking \subseteq Calls
    /\ store \in PayloadType
    /\ issued \in Nat
    /\ live \subseteq 1..issued
    /\ wire \subseteq Requests \X Calls
    /\ pc \in [Calls -> Stages]
    /\ old \in [Calls -> PayloadType]
    /\ new \in [Calls -> PayloadType]
    /\ made \in [Calls -> Nat]
    /\ answer \in [Calls -> SuccessStatuses \union {0, ErrorStatus}]
    /\ awaited \in [Calls -> BOOLEAN]
    /\ cancelled \in [Calls -> BOOLEAN]

\* The credentials that a revocation was sent to delete.
Ordered ==
    IF profile.revoke = "none" THEN {} ELSE {old[c].id : c \in revoking} \ {0}

\* With a target that creates before it deletes, rotations never delete the newest
\* credential, however many calls overlap, get lost, die or are served late: the
\* service accepts it until a revocation is sent to delete that very credential.
\* This is what the repository's documents promise of create-before-revoke.
NewestIsLive ==
    profile.order = "create_first" => issued \in {0} \union live \union Ordered

\* The stored credential is dead only when a revocation was sent to delete it, or
\* a call that was sent it has not delivered its payload.  With a target that
\* creates first, that call is about to, died, or found the gateway gone, and the
\* credential it holds works: a rotation that ends in an error has killed nothing.
\* Grafana's may have ended in one.  No overlap of calls stores a credential that
\* another one deleted.
StoredDeadHasCause ==
    store.key # 0 /\ store.key \notin live =>
        \/ store.key \in Ordered
        \/ \E c \in Calls :
              /\ old[c] = store
              /\ \/ pc[c] \in {"delete", "reply", "lost", "dead"} /\ made[c] \in live
                 \/ profile.order = "delete_first" /\ pc[c] \notin {"idle", "stored"}

\* Whatever the target, a payload that the gateway stores holds a credential
\* that works at that moment, so one rotation that gets through repairs a
\* secret whose credential was dead.  The exception is the service's answer
\* without a credential, to a client that does not look.
DeliveredWorks ==
    [][\A c \in Calls : pc[c] # "stored" /\ pc'[c] = "stored" =>
           \/ store'.key \in live'
           \/ store'.key = 0 /\ ~profile.checks]_vars

\* Two rotations of the same payload that were both delivered.
Overlapped ==
    \E c, d \in Calls : c # d /\ pc[c] = "stored" /\ pc[d] = "stored" /\ old[c] = old[d]

\* A credential that works and is not the stored one has a cause: the call that
\* made it never delivered it, its answer came without it, or the rotation that
\* replaced it had no handle to delete it by or a delete that did not reach the
\* service.  Only a gateway that does not wait for one call at a time can add
\* another: two rotations of the same payload, each delivered.
LeakHasCause ==
    \A k \in live \ {store.key} :
        \/ \E c \in Calls : made[c] = k /\ (pc[c] # "stored" \/ new[c].key # k)
        \/ \E c \in Calls :
               /\ pc[c] = "stored"
               /\ old[c].key = k
               /\ old[c].id = 0 \/ <<"delete", c>> \in wire
        \/ ~Serial /\ Overlapped

\* With such a gateway the store never goes back to an older credential, not
\* even when a call it gave up on outlives the call made after it.
StoreMovesForward ==
    [][Serial => store'.key \in {0, store.key} \/ store'.key > store.key]_vars

\* A call that is running comes to an end, whatever the service and the gateway
\* do: Rotate never waits for something that may not come.
EveryCallEnds == \A c \in Calls : Running(c) ~> pc[c] \in Ended

\* What github-app-token.md says of its rotation: when the old token is revoked,
\* the new one is in the secret store already.  It does not speak of tokens that
\* a call to /sync/revoke was sent to delete.
NewStoredBeforeOldRevoked ==
    [][\A c \in Calls : old[c].id \in live \ Ordered /\ old[c].id \notin live' =>
           \E d \in Calls : old[d].id = old[c].id /\ store.key = made[d]]_vars

\* Rotation with a create-before-revoke target implements the pool of
\* credentials: nothing is retired but a superseded credential, or one that was
\* in the store when its revocation was sent, and nothing but a working one is
\* ever stored.
Pool == INSTANCE RevocablePool WITH
    published <- store.key,
    revoked <- Ordered
RefinesPool == Pool!RevocableSpec

-----------------------------------------------------------------------------
(***************************************************************************)
(* The inductive invariant behind these properties.                        *)
(***************************************************************************)

\* The two fields are of one credential, as far as they are there.
WellFormed(payload) == payload.id = 0 \/ payload.key \in {0, payload.id}

\* A call sends one create and one delete, in the order of its target, and what
\* it holds was issued to it, after the credential it replaces.  A revocation
\* sends at most a delete.
Bookkeeping(c) ==
    /\ WellFormed(old[c])
    /\ WellFormed(new[c])
    /\ old[c].id <= issued
    /\ old[c].key <= issued
    /\ made[c] <= issued
    /\ new[c].id \in {0, made[c]}
    /\ new[c].key \in {0, made[c]}
    /\ pc[c] = "idle" =>
        /\ c \notin revoking
        /\ made[c] = 0
        /\ answer[c] = 0
        /\ old[c] = Blank
        /\ ~awaited[c]
        /\ ~cancelled[c]
        /\ \A r \in Requests : <<r, c>> \notin wire
    /\ c \in revoking =>
        /\ made[c] = 0
        /\ pc[c] \notin {"create", "stored"}
        /\ <<"create", c>> \notin wire
        /\ pc[c] = "delete" \/ <<"delete", c>> \in wire => profile.revoke # "none"
    /\ made[c] # 0 =>
        old[c].id < made[c] /\ old[c].key < made[c] /\ <<"create", c>> \notin wire
    /\ answer[c] \in SuccessStatuses => made[c] # 0
    /\ pc[c] \in {"reply", "stored", "lost"} => made[c] # 0 \/ c \in revoking
    /\ pc[c] = "delete" /\ profile.order = "create_first" => made[c] # 0 \/ c \in revoking
    /\ pc[c] = "delete" /\ profile.order = "delete_first" =>
        made[c] = 0 /\ <<"create", c>> \notin wire
    /\ <<"delete", c>> \in wire /\ profile.order = "create_first" /\ c \notin revoking =>
        made[c] # 0 /\ pc[c] \in {"delete", "reply", "stored", "lost", "dead"}
    /\ pc[c] \in {"delete", "reply"} /\ made[c] # 0 /\ new[c].key = 0 =>
        Blanks /\ ~profile.checks

\* What a payload names.
Names(payload) == {payload.id, payload.key} \ {0}

\* Until a call delivers, nobody else knows of the credential it was issued.
Unshared(c) ==
    made[c] # 0 /\ pc[c] # "stored" =>
        /\ made[c] \in live
        /\ made[c] \notin Names(store)
        /\ \A d \in Calls : made[c] \notin Names(old[d])

\* A credential is stored once: after it was replaced it does not come back.
Replaced(c) ==
    Names(old[c]) \intersect Names(store) # {} => pc[c] # "stored" /\ old[c] = store

OneMaker == \A c, d \in Calls : made[c] # 0 /\ made[c] = made[d] => c = d

\* What is stored was issued.
StoreIssued ==
    /\ WellFormed(store)
    /\ store.id <= issued
    /\ store.key <= issued
    /\ store.key = 0 /\ store.id # 0 => Blanks

Inductive ==
    /\ StoreIssued
    /\ \A c \in Calls : Bookkeeping(c) /\ Unshared(c) /\ Replaced(c)
    /\ OneMaker
    /\ NewestIsLive
    /\ StoredDeadHasCause

\* Past its delete, a rotation that is not cancelled has sent it; what it deletes can
\* be alive only as long as the request is under way.
DeleteSent(c) ==
    /\ c \notin revoking
    /\ ~cancelled[c]
    /\ old[c].id \in live
    /\ \/ pc[c] \in {"delete", "reply"}
       \/ pc[c] = "create" /\ profile.order = "delete_first"
    => <<"delete", c>> \in wire

\* What is awaited runs, and is what the gateway stores, if it waits for one call
\* at a time.
Awaited(c) ==
    awaited[c] =>
        /\ Running(c) /\ ~cancelled[c]
        /\ Serial => old[c] = store /\ \A d \in Calls : awaited[d] => c = d

\* What a running call was sent is in the store or was replaced by a call that was
\* sent it, too, unless an overlap has come between.
ReplacedByOne ==
    Overlapped \/ \A c \in Calls :
        Running(c) /\ old[c] # store => \E d \in Calls : pc[d] = "stored" /\ old[d] = old[c]

\* The invariant behind LeakHasCause and StoreMovesForward.
Accounting ==
    /\ \A c \in Calls : Awaited(c) /\ DeleteSent(c)
    /\ ReplacedByOne
    /\ LeakHasCause

=============================================================================
