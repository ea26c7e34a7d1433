---------------------------- MODULE PatRotation ----------------------------
(***************************************************************************)
(* Rotation of an Azure DevOps personal access token.  Its Rotate creates  *)
(* a token and then revokes the old one, like the targets of Rotation, but *)
(* it needs an access token for both, which it gets from the identity      *)
(* provider for the refresh token in the payload.  The provider takes a    *)
(* refresh token once and answers with the next one: the payload must not  *)
(* lose track of it.                                                       *)
(***************************************************************************)
EXTENDS Naturals, Targets, Gateway

CONSTANTS
    Modes,      \* the auth modes the payload may select
    Rolls,      \* TRUE: every exchange uses up the refresh token
    Blanks      \* TRUE: Azure DevOps may say "none" of errors and leave out the PAT,
                \* its authorization id, or both

ASSUME PatAssumption ==
    /\ Modes \subseteq {"bearer", "ropc", "refresh_token"}
    /\ Rolls \in BOOLEAN
    /\ Blanks \in BOOLEAN

VARIABLES
    mode,       \* how the client authenticates
    valid,      \* the refresh token the provider accepts; they are numbered
    issued,     \* how many PATs have been issued; they are numbered 1..issued
    live,       \* the PATs that work
    wire,       \* requests that may still take effect, and answers of the provider
    made,       \* the PAT issued to each call, 0 before
    answer,     \* the status of the answer to each call's create, 0 before
    rt,         \* the refresh token that each call's client holds
    due         \* history: the creates and deletes a call owes, until they are served

serviceVars == <<mode, valid, issued, live, wire, made, answer, rt, due>>
vars == <<gatewayVars, serviceVars>>

-----------------------------------------------------------------------------

PayloadType == [id : Nat, key : Nat, rt : Nat]

\* Mutant: a payload that lost its refresh token field.
NoRefreshToken == [id |-> 0, key |-> 0]

Blank == [id |-> 0, key |-> 0, rt |-> 0]

\* "login" and "relogin" wait for the provider, before the create and the delete.
Stages == {"idle", "login", "create", "relogin", "delete", "reply"} \union Ended

\* What a stage asks for.  An exchange names the refresh token that the client
\* holds; one made with a password leaves no trace and is no request here.
RequestsOf(c, stage, token) ==
    CASE stage \in {"login", "relogin"} /\ mode = "refresh_token" -> {<<"exchange", c, token>>}
      [] stage \in {"create", "delete"} -> {<<stage, c, 0>>}
      [] OTHER -> {}

Send(c, stage, token) ==
    wire' = IF cancelled[c] THEN wire ELSE wire \union RequestsOf(c, stage, token)

FirstStage == IF mode = "bearer" THEN "create" ELSE "login"

\* The access token of the create serves the delete as well, unless it was too
\* short-lived to be cached or ran out in between.
StagesAfterCreate(c) ==
    IF old[c].id = 0 THEN {"reply"}
    ELSE IF mode = "bearer" THEN {"delete"}
    ELSE {"delete", "relogin"}

\* What the answer to a create may hold: the client does not look.
Bodies(c) ==
    IF Blanks THEN [id : {0, made[c]}, key : {0, made[c]}]
              ELSE {[id |-> made[c], key |-> made[c]]}

\* Mutant: the rolled refresh token is not put in the payload.
DropsRefreshToken(c, pat) == [id |-> pat.id, key |-> pat.key, rt |-> old[c].rt]

NewPayload(c, pat) ==
    [id |-> pat.id, key |-> pat.key, rt |-> IF old[c].rt = 0 THEN 0 ELSE rt[c]]

-----------------------------------------------------------------------------

\* The payload holds the refresh token that was bootstrapped, and a PAT or none.
Init ==
    /\ mode \in Modes
    /\ valid = 1
    /\ issued \in {0, 1}
    /\ live = 1..issued
    /\ store \in [id : {0, issued}, key : {issued}, rt : {IF mode = "refresh_token" THEN 1 ELSE 0}]
    /\ wire = {}
    /\ made = [c \in Calls |-> 0]
    /\ answer = [c \in Calls |-> 0]
    /\ rt = [c \in Calls |-> 0]
    /\ due = {}
    /\ GatewayInit(Blank)

-----------------------------------------------------------------------------
\* The identity provider.

\* Whoever comes first with the refresh token in force gets the next one.
Exchange(c) ==
    /\ <<"exchange", c, valid>> \in wire
    /\ \/ valid' = valid + 1
       \/ ~Rolls /\ UNCHANGED valid
    /\ wire' = (wire \ {<<"exchange", c, valid>>}) \union {<<"token", c, valid'>>}
    /\ UNCHANGED <<gatewayVars, mode, issued, live, made, answer, rt, due>>

\* Azure DevOps.
ServeCreate(c) ==
    /\ <<"create", c, 0>> \in wire
    /\ wire' = wire \ {<<"create", c, 0>>}
    /\ issued' = issued + 1
    /\ live' = live \union {issued'}
    /\ made' = [made EXCEPT ![c] = issued']
    /\ \E status \in SuccessStatuses : answer' = [answer EXCEPT ![c] = status]
    /\ due' = due \ {<<"create", c>>}
    /\ UNCHANGED <<gatewayVars, mode, valid, rt>>

\* Mutant: the id in the payload was overwritten before the delete was sent.
RevokesNew(c) == made[c]

Revokes(c) == old[c].id

ServeDelete(c) ==
    /\ <<"delete", c, 0>> \in wire
    /\ wire' = wire \ {<<"delete", c, 0>>}
    /\ live' = live \ {Revokes(c)}
    /\ due' = due \ {<<"delete", c>>}
    /\ UNCHANGED <<gatewayVars, mode, valid, issued, made, answer, rt>>

-----------------------------------------------------------------------------
\* The rotator.

Trigger(c) ==
    /\ Start(c, FirstStage)
    /\ Send(c, FirstStage, store.rt)
    /\ rt' = [rt EXCEPT ![c] = store.rt]
    /\ due' = due \union {<<"create", c>>}
    /\ UNCHANGED <<mode, valid, issued, live, made, answer>>

\* The provider has answered the exchange; r is the client's refresh token then.
Granted(c, r) ==
    IF mode = "refresh_token" THEN <<"token", c, r>> \in wire ELSE r = rt[c]

\* Mutant: the error of the login is not looked at.
LoginErrorIgnored(c) ==
    /\ pc[c] = "login"
    /\ GoOn(c, "create", new[c])
    /\ Send(c, "create", 0)
    /\ UNCHANGED <<mode, valid, issued, live, made, answer, rt, due>>

LoginSucceeds(c) ==
    /\ pc[c] = "login"
    /\ \E r \in 0..valid :
        /\ Granted(c, r)
        /\ rt' = [rt EXCEPT ![c] = r]
        /\ wire' = (wire \ {<<"token", c, r>>}) \union
                     (IF cancelled[c] THEN {} ELSE RequestsOf(c, "create", r))
    /\ GoOn(c, "create", new[c])
    /\ UNCHANGED <<mode, valid, issued, live, made, answer, due>>

\* No access token, no PAT: Rotate returns an error, and with it goes whatever
\* refresh token the client holds by then.
CreateFails(c) ==
    /\ pc[c] \in {"login", "create"}
    /\ Fail(c)
    /\ UNCHANGED serviceVars

CreateSucceeds(c) ==
    /\ pc[c] = "create"
    /\ answer[c] \in AzurePATCreated
    /\ \E stage \in StagesAfterCreate(c), pat \in Bodies(c) :
        /\ GoOn(c, stage, NewPayload(c, pat))
        /\ Send(c, stage, rt[c])
        /\ due' = IF stage # "reply" /\ ~cancelled[c] THEN due \union {<<"delete", c>>} ELSE due
    /\ UNCHANGED <<mode, valid, issued, live, made, answer, rt>>

ReloginSucceeds(c) ==
    /\ pc[c] = "relogin"
    /\ \E r \in 0..valid :
        /\ Granted(c, r)
        /\ rt' = [rt EXCEPT ![c] = r]
        /\ wire' = (wire \ {<<"token", c, r>>}) \union
                     (IF cancelled[c] THEN {} ELSE RequestsOf(c, "delete", r))
    /\ GoOn(c, "delete", new[c])
    /\ UNCHANGED <<mode, valid, issued, live, made, answer, due>>

\* The PAT is revoked or it is not, for want of an access token or otherwise: the
\* payload is put together after that, with the refresh token the client holds.
RevokeReturns(c) ==
    /\ pc[c] \in {"relogin", "delete"}
    /\ GoOn(c, "reply", NewPayload(c, new[c]))
    /\ UNCHANGED serviceVars

Next ==
    \E c \in Calls :
        \/ Exchange(c) \/ ServeCreate(c) \/ ServeDelete(c)
        \/ Trigger(c) \/ LoginSucceeds(c) \/ CreateFails(c) \/ CreateSucceeds(c)
        \/ ReloginSucceeds(c) \/ RevokeReturns(c)
        \/ /\ Refuse(c) \/ GiveUp(c) \/ NoticeLeft(c) \/ Deliver(c) \/ Drop(c) \/ Die(c)
           /\ UNCHANGED serviceVars

Spec == Init /\ [][Next]_vars

-----------------------------------------------------------------------------

TypeOK ==
    /\ mode \in Modes
    /\ valid \in Nat
    /\ issued \in Nat
    /\ live \subseteq 1..issued
    /\ wire \subseteq {"exchange", "token", "create", "delete"} \X Calls \X (0..valid)
    /\ made \in [Calls -> 0..issued]
    /\ answer \in [Calls -> SuccessStatuses \union {0}]
    /\ rt \in [Calls -> 0..valid]
    /\ due \subseteq {"create", "delete"} \X Calls
    /\ store \in PayloadType
    /\ pc \in [Calls -> Stages]
    /\ old \in [Calls -> PayloadType]
    /\ new \in [Calls -> PayloadType]
    /\ awaited \in [Calls -> BOOLEAN]
    /\ cancelled \in [Calls -> BOOLEAN]

\* Two rotations of the same payload that were both delivered.
Overlapped ==
    \E c, d \in Calls : c # d /\ pc[c] = "stored" /\ pc[d] = "stored" /\ old[c] = old[d]

\* Where the stored refresh token is used up - no rotation can log in from then
\* on - there is a cause: the call that got its successor has not delivered it, or
\* never read the answer in which the provider sent it.  Only a provider that
\* need not roll, with a gateway that does not wait for one call at a time, can add
\* another: two rotations of the same payload, each delivered.
StrandedHasCause ==
    mode = "refresh_token" /\ store.rt # valid =>
        \/ \E c \in Calls :
               \/ <<"token", c, valid>> \in wire
               \/ rt[c] = valid /\ pc[c] # "stored"
        \/ ~Rolls /\ ~Serial /\ Overlapped

\* Where a refresh token can be used once, overlapping rotations cannot create a
\* PAT each: of the calls that were sent the same payload, one gets that far.
OneMintPerToken ==
    mode = "refresh_token" /\ Rolls =>
        \A c, d \in Calls :
            made[c] # 0 /\ made[d] # 0 /\ old[c].rt = old[d].rt => c = d

\* What azuredevops-pat.md's sequence diagram says: the rolled refresh token is in
\* the store before Azure DevOps is called, so that a failure there does not strand
\* it.
PersistedBeforeMint ==
    [][\A c \in Calls : pc[c] = "login" /\ pc'[c] = "create" => store.rt = rt'[c]]_vars

\* To the gateway and Azure DevOps this is a target like the others: it implements
\* Rotation, with the logins as a part of the create and of the delete.
Without(payload) == [id |-> payload.id, key |-> payload.key]
StageOf(stage) ==
    CASE stage = "login" -> "create" [] stage = "relogin" -> "delete" [] OTHER -> stage

Plain == INSTANCE Rotation WITH
    Profiles <- {AzurePAT},
    profile <- AzurePAT,
    revoking <- {},
    wire <- due,
    store <- Without(store),
    old <- [c \in Calls |-> Without(old[c])],
    new <- [c \in Calls |-> Without(new[c])],
    pc <- [c \in Calls |-> StageOf(pc[c])]

ImplementsRotation == Plain!Spec

\* So it implements the pool of credentials, as long as Azure DevOps sends what it
\* created: no PAT but a superseded one is ever revoked, and none but a working one
\* is ever stored, with a login in between that may fail, take as long as it likes
\* or lose its answer.
RefinesPool == Plain!RefinesPool

\* The stored PAT is dead only when the call that was sent it holds one that works
\* and has not delivered it: a failed login revokes nothing.
StoredDeadHasCause == Plain!StoredDeadHasCause

\* A PAT that works and is not the stored one was made by a call that has not
\* delivered it, or it was to be revoked and was not, for want of an id or because the
\* login or the revocation did not succeed, or rotations of one payload overlapped.
LeakHasCause == Plain!LeakHasCause

=============================================================================
