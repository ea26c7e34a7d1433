------------------------------ MODULE InPlace ------------------------------
(***************************************************************************)
(* Rotation of one secret whose target replaces the credential where it    *)
(* is: a password, a client secret, the only token of a team.  There is    *)
(* one credential in force at any time, and the moment a new one takes     *)
(* its place the stored one is dead.                                       *)
(***************************************************************************)
EXTENDS Naturals, Gateway

CONSTANT Kinds      \* the targets the secret may be configured with

(***************************************************************************)
(* What distinguishes these targets from one another:                      *)
(*   prepares     Rotate talks to the service before it replaces anything  *)
(*   deaf         the replacement does not look at the call's context      *)
(*   conditional  a replacement is refused unless it names the credential  *)
(*                in force                                                 *)
(*   cleans       Rotate also deletes what it replaced, by its id          *)
(*   id           "none": the credential has no id; "fresh": a replacement *)
(*                gets a new one; "kept": it keeps the old one             *)
(*   whole        where there is no error, there is a credential with its  *)
(*                id: the client made it or looks, or the service always   *)
(*                sends it                                                 *)
(***************************************************************************)
KindType ==
    {kind \in [prepares : BOOLEAN, deaf : BOOLEAN, conditional : BOOLEAN, cleans : BOOLEAN,
               id : {"none", "fresh", "kept"}, whole : BOOLEAN] :
        kind.conditional => kind.id = "fresh"}

ASSUME InPlaceAssumption == Kinds \subseteq KindType

Plain == [prepares |-> FALSE, deaf |-> FALSE, conditional |-> FALSE, cleans |-> FALSE,
          id |-> "none", whole |-> TRUE]

ServicenowCred      == Plain
OpenobserveToken    == Plain
OpenobservePassword == Plain
\* The user is looked up by name; where the payload has the id already, the
\* lookup is a step that returns at once.
AnsiblePassword     == [Plain EXCEPT !.prepares = TRUE]
\* The cluster is probed and joined first; ChangePassword takes no context.
AerospikePassword   == [Plain EXCEPT !.prepares = TRUE, !.deaf = TRUE]
\* The refresh token, here the id, is good for one exchange.  The client looks at the
\* "ok" of the answer and not at the tokens.
SlackToken(whole)   == [Plain EXCEPT !.conditional = TRUE, !.id = "fresh", !.whole = whole]
\* Whether the id of a team's token changes with the token is the service's choice.
\* The client takes any JSON object for the new token.
TerraformToken(id, whole) == [Plain EXCEPT !.cleans = TRUE, !.id = id, !.whole = whole]

VARIABLES
    profile,    \* the target of this secret
    current,    \* the credential in force, 0 for none
    issued,     \* how many there have been; they are numbered 1..issued
    wire,       \* requests to the service that may still take effect
    made        \* the credential each call put in force, 0 before

serviceVars == <<profile, current, issued, wire, made>>
vars == <<gatewayVars, serviceVars>>

-----------------------------------------------------------------------------

Requests == {"replace", "clean"}
Stages == {"idle", "prepare", "reply"} \union Requests \union Ended

PayloadType == [id : Nat, key : Nat]
\* Mutant: a payload that lost its id field.
NoId == [key |-> 0]

Blank == [id |-> 0, key |-> 0]

IdOf(k) == CASE profile.id = "none" -> 0 [] profile.id = "fresh" -> k [] profile.id = "kept" -> 1

Payload(k) == [id |-> IdOf(k), key |-> k]

FirstStage == IF profile.prepares THEN "prepare" ELSE "replace"

\* What an answer without an error may hold, once the replacement is made.
Bodies(c) ==
    IF profile.whole THEN {Payload(made[c])} ELSE [id : {0, IdOf(made[c])}, key : {0, made[c]}]

\* Mutant: what was replaced is deleted without a look at its id.
AlwaysCleans(c, body) == IF profile.cleans /\ old[c].id # 0 THEN "clean" ELSE "reply"

\* The id it looks at is that of the answer, also where the answer has none.
AfterReplace(c, body) ==
    IF profile.cleans /\ old[c].id # 0 /\ old[c].id # body.id THEN "clean" ELSE "reply"

Send(c, stage) ==
    wire' = IF stage \in Requests /\ (cancelled[c] => profile.deaf)
            THEN wire \union {<<stage, c>>}
            ELSE wire

-----------------------------------------------------------------------------

\* The stored credential is in force; its id may be missing from the payload.
Init ==
    /\ profile \in Kinds
    /\ issued = 1
    /\ current = 1
    /\ store \in {Payload(1), [id |-> 0, key |-> 1]}
    /\ wire = {}
    /\ made = [c \in Calls |-> 0]
    /\ GatewayInit(Blank)

-----------------------------------------------------------------------------
\* The service.  A request that it refuses, or that is lost, is never served.

\* Mutant: the service is not told which credential to replace.
ReplacesAny(c) == TRUE

Applies(c) == profile.conditional => old[c].id = IdOf(current)

ServeReplace(c) ==
    /\ <<"replace", c>> \in wire
    /\ Applies(c)
    /\ wire' = wire \ {<<"replace", c>>}
    /\ issued' = issued + 1
    /\ current' = issued'
    /\ made' = [made EXCEPT ![c] = issued']
    /\ UNCHANGED <<gatewayVars, profile>>

ServeClean(c) ==
    /\ <<"clean", c>> \in wire
    /\ wire' = wire \ {<<"clean", c>>}
    /\ current' = IF IdOf(current) = old[c].id THEN 0 ELSE current
    /\ UNCHANGED <<gatewayVars, profile, issued, made>>

-----------------------------------------------------------------------------
\* The rotator.

Trigger(c) ==
    /\ Start(c, FirstStage)
    /\ Send(c, FirstStage)
    /\ UNCHANGED <<profile, current, issued, made>>

Prepared(c) ==
    /\ pc[c] = "prepare"
    /\ cancelled[c] => profile.deaf
    /\ GoOn(c, "replace", new[c])
    /\ Send(c, "replace")
    /\ UNCHANGED <<profile, current, issued, made>>

\* Mutant: the new credential is not put in the payload.
KeepsOldPayload(c) ==
    /\ pc[c] = "replace"
    /\ made[c] # 0
    /\ GoOn(c, AfterReplace(c, old[c]), old[c])
    /\ Send(c, AfterReplace(c, old[c]))
    /\ UNCHANGED <<profile, current, issued, made>>

ReplaceSucceeds(c) ==
    /\ pc[c] = "replace"
    /\ made[c] # 0
    /\ \E body \in Bodies(c) :
        /\ GoOn(c, AfterReplace(c, body), body)
        /\ Send(c, AfterReplace(c, body))
    /\ UNCHANGED <<profile, current, issued, made>>

\* Refused, answered with a status the client does not know, or not answered in
\* time: Rotate returns an error.
ReplaceFails(c) ==
    /\ pc[c] \in {"prepare", "replace"}
    /\ Fail(c)
    /\ UNCHANGED serviceVars

\* Whatever came of it.
CleanReturns(c) ==
    /\ pc[c] = "clean"
    /\ GoOn(c, "reply", new[c])
    /\ UNCHANGED serviceVars

Next ==
    \E c \in Calls :
        \/ ServeReplace(c) \/ ServeClean(c)
        \/ Trigger(c) \/ Prepared(c) \/ ReplaceSucceeds(c) \/ ReplaceFails(c) \/ CleanReturns(c)
        \/ /\ Refuse(c) \/ GiveUp(c) \/ NoticeLeft(c) \/ Deliver(c) \/ Drop(c) \/ Die(c)
           /\ UNCHANGED serviceVars

Spec == Init /\ [][Next]_vars

-----------------------------------------------------------------------------

TypeOK ==
    /\ profile \in Kinds
    /\ current \in 0..issued
    /\ issued \in Nat \ {0}
    /\ wire \subseteq Requests \X Calls
    /\ made \in [Calls -> Nat]
    /\ store \in PayloadType
    /\ pc \in [Calls -> Stages]
    /\ old \in [Calls -> PayloadType]
    /\ new \in [Calls -> PayloadType]
    /\ awaited \in [Calls -> BOOLEAN]
    /\ cancelled \in [Calls -> BOOLEAN]

MayHaveRead(c) == pc[c] \in {"clean", "reply", "stored", "lost", "dead"}

\* A token kept its id, and the answer that brought the token did not say so.
Emptied ==
    /\ ~profile.whole /\ profile.id = "kept"
    /\ \E c \in Calls : MayHaveRead(c) /\ made[c] # 0 /\ old[c].id # 0 /\ new[c].id = 0

\* Deleting what was replaced never hits what replaced it, also when the delete
\* arrives after later rotations, and whether or not a token keeps its id.  The
\* comment in terraform/target.go calls this "safe".  It is, but for an answer
\* without an id: the id it is compared with is then nobody's.
AlwaysInForce == current = issued \/ (current = 0 /\ Emptied)

\* When the gateway waits for one call at a time, or the service checks what is
\* replaced, a stored credential that is not in force has one of three causes: there
\* is none in force, or the call that put one in force did not deliver it, or that
\* call's answer did not hold it and a blank was delivered instead.
Accounted ==
    store.key # current =>
        \/ current = 0
        \/ \E c \in Calls : made[c] = current /\ (pc[c] # "stored" \/ new[c].key = 0)

StaleHasCause == Serial \/ profile.conditional => Accounted

\* Under the same conditions the gateway stores answers in the order in which the
\* credentials came into force.
StoreMovesForward ==
    [][Serial \/ profile.conditional =>
        \A c \in Calls : pc[c] # "stored" /\ pc'[c] = "stored" =>
            \A d \in Calls : pc[d] = "stored" => made[d] < made[c]]_vars

\* Without those conditions it does happen that every rotation was delivered whole
\* and the stored credential is dead.  Then two calls ran at the same time: the one
\* whose answer is stored put its credential in force before the other and delivered
\* it after the other, and the other was not sent it.
StaleMeansOverlap ==
    store.key # current =>
        \/ current = 0
        \/ \E c \in Calls :
            /\ made[c] = current
            /\ \/ pc[c] # "stored" \/ new[c].key = 0
               \/ \E d \in Calls : /\ pc[d] = "stored" /\ new[d] = store
                                   /\ made[d] < made[c] /\ old[c].key # made[d]

\* To consumers the credential is a slot: only an answer without an id lets a clean-up
\* empty it, the answer to each replacement is stored once, and where the service
\* checks what it replaces, as Slack does, replacements and deliveries alternate,
\* whatever overlaps or arrives late.
Slot == INSTANCE CredentialSlot WITH
    Ordered <- Serial,
    checked <- profile.conditional,
    whole <- profile.whole,
    latest <- issued,
    inForce <- current,
    published <- store.key,
    undelivered <- {made[c] : c \in {d \in Calls : pc[d] # "stored"}} \ {0}

RefinesSlot == Slot!SlotSpec

-----------------------------------------------------------------------------
(***************************************************************************)
(* The inductive invariant behind these properties.                        *)
(***************************************************************************)

\* Where ids change, an id is not beyond what was issued; otherwise it is that of
\* every credential.
IdKnown(payload) == payload.id = 0 \/ (profile.id = "fresh" /\ payload.id <= issued)
                                   \/ (profile.id = "kept" /\ payload.id = 1)

Matches(payload) == payload.key <= issued /\ IdKnown(payload)

\* An answer holds the credential and its id, or parts of that.
Answered(c) ==
    /\ made[c] # 0
    /\ new[c].id \in {0, IdOf(made[c])} /\ new[c].key \in {0, made[c]}
    /\ profile.whole => new[c] = Payload(made[c])

\* A call asks for one replacement.  What it gets came after what it was sent, and
\* it asks for a clean-up only of an id that its own credential does not have, or
\* that the answer left out.
Bookkeeping(c) ==
    /\ Matches(old[c])
    /\ made[c] \in {0} \union 2..issued
    /\ pc[c] = "idle" => old[c] = Blank /\ ~awaited[c]
    /\ pc[c] \in {"idle", "prepare"} => made[c] = 0 /\ <<"replace", c>> \notin wire
    /\ pc[c] \in {"clean", "reply", "stored", "lost"} => Answered(c)
    /\ made[c] # 0 =>
        /\ old[c].key < made[c] /\ <<"replace", c>> \notin wire
        /\ profile.id = "fresh" => old[c].id < made[c]
    /\ <<"clean", c>> \in wire =>
        /\ made[c] # 0 /\ old[c].id # 0
        /\ \/ old[c].id # IdOf(made[c])
           \/ ~profile.whole /\ new[c].id = 0 /\ MayHaveRead(c)

\* Until a call delivers it, nobody else knows of the credential it put in force.
Unshared(c) ==
    made[c] # 0 =>
        /\ ~(pc[c] = "stored" /\ new[c].key = made[c]) =>
            store.key # made[c] /\ \A d \in Calls : old[d].key # made[c]
        /\ pc[c] # "stored" /\ profile.id = "fresh" =>
            store.id # made[c] /\ \A d \in Calls : old[d].id # made[c]

\* A credential is stored once: after it was replaced it does not come back.
Replaced(c) == pc[c] = "stored" /\ store.key # 0 => old[c].key # store.key

OneMaker == \A c, d \in Calls : made[c] # 0 /\ made[c] = made[d] => c = d

\* Each credential is the one from the start or was put in force by a call.
Origin == \A k \in 2..issued : \E c \in Calls : made[c] = k

\* The stored credential is the one from the start, and nothing was delivered, or
\* it was delivered.
StoreOrigin ==
    \/ store.key = 1 /\ \A c \in Calls : pc[c] # "stored"
    \/ \E c \in Calls : pc[c] = "stored" /\ new[c] = store

Inductive ==
    /\ AlwaysInForce
    /\ Matches(store)
    /\ \A c \in Calls : Bookkeeping(c) /\ Unshared(c) /\ Replaced(c)
    /\ OneMaker
    /\ Origin
    /\ StoreOrigin

\* Where the service checks what is replaced, only the credential in force can be
\* on its way to the gateway.
ConditionalInductive ==
    profile.conditional =>
        /\ \A c \in Calls : made[c] # 0 /\ pc[c] # "stored" => made[c] = issued
        /\ Accounted

\* What a gateway that waits for one call at a time adds: the awaited call brings the
\* latest answer, and what is stored is the latest that was delivered.
SerialInductive ==
    Serial =>
        /\ \A c, d \in Calls : awaited[c] /\ awaited[d] => c = d
        /\ \A c \in Calls : awaited[c] =>
            /\ Running(c) /\ old[c] = store
            /\ made[c] # 0 => \A d \in Calls : pc[d] = "stored" => made[d] < made[c]
        /\ \A c \in Calls : pc[c] = "stored" =>
            \E d \in Calls : pc[d] = "stored" /\ new[d] = store /\ made[c] <= made[d]

=============================================================================
