---------------------------- MODULE GraphProofs ----------------------------
(***************************************************************************)
(* Theorems about GraphSecret for every number of calls and of attempts.   *)
(***************************************************************************)
EXTENDS GraphSecret, TLAPS

USE GraphAssumption

-----------------------------------------------------------------------------
\* The inductive invariant.

\* A payload that was stored at some time has its key id, or none.
Stored(p) == p.id \in {0, p.key} /\ p.key <= issued

Removing(c) == \E request \in Removals : <<request, c>> \in wire

\* What the stages of one call say about what has been sent for it.
StagesKnown(c) ==
    /\ pc[c] = "idle" =>
           /\ c \notin revoking /\ made[c] = 0 /\ ~cancelled[c]
           /\ ~Removing(c) /\ <<"create", c>> \notin wire
    /\ pc[c] \in {"idle", "create"} => tries[c] = 0 /\ answer[c] = 0
    /\ pc[c] \in {"idle", "create", "stored"} => c \notin revoking
    /\ pc[c] = "backoff" => tries[c] < MaxAttempts
    /\ awaited[c] => ~cancelled[c]

\* A rotation has its new secret when it turns to the old one.
RotationKnown(c) ==
    c \notin revoking =>
        /\ pc[c] \in {"delete", "backoff", "reply", "stored", "lost"} =>
               made[c] # 0 /\ new[c] = Payload(made[c])
        /\ Removing(c) =>
               made[c] # 0 /\ pc[c] \in {"delete", "backoff", "reply", "stored", "lost", "dead"}
        /\ pc[c] # "acknowledged"

\* A revocation returns when the secret is removed, and makes none.
RevocationKnown(c) ==
    c \in revoking =>
        /\ made[c] = 0 /\ <<"create", c>> \notin wire
        /\ pc[c] \in {"reply", "acknowledged", "lost"} /\ old[c].id # 0 => answer[c] = Gone

\* The secret made for a call is newer than what it was sent, and works until it is
\* delivered.
MadeKnown(c) ==
    made[c] # 0 =>
        /\ <<"create", c>> \notin wire
        /\ old[c].key < made[c]
        /\ pc[c] # "stored" =>
               /\ made[c] \in live
               /\ store.key # made[c]
               /\ \A d \in Calls : old[d].key # made[c]

\* Why a rotation that nobody has left returns without having removed the old secret.
ReasonKnown(c) ==
    c \notin revoking /\ pc[c] = "reply" /\ old[c].id # 0 /\ ~cancelled[c] =>
        answer[c] \in {0, Missing, Gone} \/ tries[c] = MaxAttempts

CallKnown(c) ==
    /\ Stored(old[c])
    /\ answer[c] = Gone => old[c].id \notin live
    /\ StagesKnown(c) /\ RotationKnown(c) /\ RevocationKnown(c) /\ MadeKnown(c) /\ ReasonKnown(c)

OneMaker == \A c, d \in Calls : made[c] = made[d] /\ made[c] # 0 => c = d

OneRemover ==
    \A c, d \in Calls :
        answer[c] = Gone /\ answer[d] = Gone /\ old[c].id = old[d].id => c = d

\* The payload of a call is the stored one, or has been replaced.
StoreKnown ==
    /\ Stored(store)
    /\ \A c \in Calls : old[c].key = store.key => old[c] = store /\ pc[c] # "stored"

Overlapped ==
    \E c, d \in Calls : c # d /\ pc[c] = "stored" /\ pc[d] = "stored" /\ old[c] = old[d]

ReplacedByOne ==
    Overlapped \/ \A c \in Calls :
        Running(c) /\ old[c] # store => \E d \in Calls : pc[d] = "stored" /\ old[d] = old[c]

Inductive ==
    /\ \A c \in Calls : CallKnown(c)
    /\ OneMaker /\ OneRemover /\ StoreKnown /\ ReplacedByOne
    /\ NewestIsLive /\ StoredDeadHasCause /\ LeakHasCause

-----------------------------------------------------------------------------

LEMMA InitGood == Init => TypeOK /\ Inductive
<1> SUFFICES ASSUME Init PROVE TypeOK /\ Inductive
  OBVIOUS
<1>1. /\ issued \in {0, 1} /\ live = 1..issued
      /\ store \in [id : {0, issued}, key : {issued}]
      /\ revoking = {} /\ wire = {} /\ due = {}
      /\ made = [c \in Calls |-> 0] /\ tries = [c \in Calls |-> 0]
      /\ answer = [c \in Calls |-> 0]
      /\ pc = [c \in Calls |-> "idle"]
      /\ old = [c \in Calls |-> Blank] /\ new = [c \in Calls |-> Blank]
      /\ awaited = [c \in Calls |-> FALSE] /\ cancelled = [c \in Calls |-> FALSE]
  BY DEF Init, GatewayInit
<1>2. Blank \in PayloadType /\ store \in PayloadType /\ Blank.id = 0 /\ Blank.key = 0
  BY <1>1 DEF Blank, Payload, PayloadType
<1>3. TypeOK
  BY <1>1, <1>2 DEF TypeOK, Statuses, Stages
<1>4. Stored(store) /\ \A c \in Calls : Stored(old[c])
  BY <1>1, <1>2 DEF Stored
<1>5. \A c \in Calls : CallKnown(c)
  BY <1>1, <1>2, <1>4 DEF CallKnown, StagesKnown, RotationKnown, RevocationKnown, MadeKnown,
     ReasonKnown, Removing, Gone
<1>6. OneMaker /\ OneRemover
  BY <1>1 DEF OneMaker, OneRemover, Gone
<1>7. StoreKnown
  <2>1. store.key = 0 => store = Blank
    BY <1>1 DEF Blank, Payload
  <2> QED BY <1>1, <1>2, <1>4, <2>1 DEF StoreKnown
<1>8. ReplacedByOne
  BY <1>1 DEF ReplacedByOne, Running
<1>9. NewestIsLive /\ StoredDeadHasCause /\ LeakHasCause
  <2>1. store.key = issued
    BY <1>1
  <2>2. live \ {store.key} = {}
    BY <1>1, <2>1
  <2>3. issued \in {0} \union live
    BY <1>1
  <2> QED BY <2>1, <2>2, <2>3 DEF NewestIsLive, StoredDeadHasCause, LeakHasCause
<1> QED BY <1>3, <1>5, <1>6, <1>7, <1>8, <1>9 DEF Inductive

-----------------------------------------------------------------------------
\* Steps inside one call.

Requests == {"create"} \union Removals

\* What a step of one call does to the others.
Elsewhere(c) ==
    \A d \in Calls : d # c =>
        /\ pc'[d] = pc[d] /\ old'[d] = old[d] /\ new'[d] = new[d] /\ made'[d] = made[d]
        /\ tries'[d] = tries[d] /\ answer'[d] = answer[d]
        /\ awaited'[d] = awaited[d] /\ cancelled'[d] = cancelled[d]
        /\ d \in revoking' <=> d \in revoking
        /\ \A request \in Requests : <<request, d>> \in wire' <=> <<request, d>> \in wire

\* The stages of a rotation whose new secret has not been delivered, nor refused.
Halfway == {"delete", "backoff", "reply", "lost", "dead"}

LEMMA OtherCall ==
  ASSUME TypeOK, Inductive, NEW c \in Calls, Elsewhere(c), NEW d \in Calls, d # c,
         issued' \in Nat, issued <= issued',
         answer[d] = Gone => old[d].id \notin live', MadeKnown(d)'
  PROVE  CallKnown(d)'
<1>1. CallKnown(d)
  BY DEF Inductive
<1>2. /\ pc'[d] = pc[d] /\ old'[d] = old[d] /\ new'[d] = new[d] /\ made'[d] = made[d]
      /\ tries'[d] = tries[d] /\ answer'[d] = answer[d]
      /\ awaited'[d] = awaited[d] /\ cancelled'[d] = cancelled[d]
      /\ d \in revoking' <=> d \in revoking
      /\ <<"create", d>> \in wire' <=> <<"create", d>> \in wire
      /\ Removing(d)' <=> Removing(d)
  BY DEF Elsewhere, Requests, Removing
<1>3. old[d].key \in Nat /\ issued \in Nat
  BY DEF TypeOK, PayloadType
<1>4. Stored(old[d])'
  BY <1>1, <1>2, <1>3 DEF CallKnown, Stored
<1>5. StagesKnown(d)'
  BY <1>1, <1>2 DEF CallKnown, StagesKnown
<1>6. RotationKnown(d)'
  BY <1>1, <1>2 DEF CallKnown, RotationKnown
<1>7. RevocationKnown(d)'
  BY <1>1, <1>2 DEF CallKnown, RevocationKnown
<1>8. ReasonKnown(d)'
  BY <1>1, <1>2 DEF CallKnown, ReasonKnown
<1> QED BY <1>1, <1>2, <1>4, <1>5, <1>6, <1>7, <1>8 DEF CallKnown

\* A step that makes and removes nothing, and delivers nothing.
LEMMA InnerStep ==
  ASSUME TypeOK, Inductive, TypeOK', NEW c \in Calls, Elsewhere(c),
         UNCHANGED <<store, old, made, live, issued, revoking>>,
         pc'[c] = "stored" <=> pc[c] = "stored", Running(c)' => Running(c),
         pc[c] \in Halfway /\ c \notin revoking => pc'[c] \in Halfway,
         pc[c] = "stored" => tries'[c] = tries[c] /\ answer'[c] = answer[c],
         answer'[c] = Gone => answer[c] = Gone,
         <<"create", c>> \in wire' => <<"create", c>> \in wire,
         StagesKnown(c)', RotationKnown(c)', RevocationKnown(c)', ReasonKnown(c)'
  PROVE  Inductive'
<1>1. \A d \in Calls : pc'[d] = "stored" <=> pc[d] = "stored"
  BY DEF Elsewhere
<1>2. \A d \in Calls : MadeKnown(d)'
  <2> SUFFICES ASSUME NEW d \in Calls PROVE MadeKnown(d)'
    OBVIOUS
  <2>1. MadeKnown(d)
    BY DEF Inductive, CallKnown
  <2>2. <<"create", d>> \in wire' => <<"create", d>> \in wire
    BY DEF Elsewhere, Requests
  <2> QED BY <1>1, <2>1, <2>2 DEF MadeKnown
<1>3. \A d \in Calls : CallKnown(d)'
  <2> SUFFICES ASSUME NEW d \in Calls PROVE CallKnown(d)'
    OBVIOUS
  <2>1. CallKnown(d)
    BY DEF Inductive
  <2>2. CASE d = c
    BY <1>2, <2>1, <2>2 DEF CallKnown, Stored
  <2>3. CASE d # c
    BY <1>2, <2>1, <2>3, OtherCall DEF CallKnown, TypeOK
  <2> QED BY <2>2, <2>3
<1>4. OneMaker'
  BY DEF Inductive, OneMaker
<1>5. OneRemover'
  <2>1. \A d \in Calls : answer'[d] = Gone => answer[d] = Gone
    BY DEF Elsewhere
  <2> QED BY <2>1 DEF Inductive, OneRemover
<1>6. StoreKnown'
  BY <1>1 DEF Inductive, StoreKnown, Stored
<1>7. ReplacedByOne'
  <2>1. CASE Overlapped
    BY <1>1, <2>1 DEF Overlapped, ReplacedByOne
  <2>2. CASE ~Overlapped
    <3>1. ASSUME NEW d \in Calls, Running(d)', old[d] # store
          PROVE  \E x \in Calls : pc[x] = "stored" /\ old[x] = old[d]
      <4>1. Running(d)
        BY <3>1 DEF Elsewhere, Running
      <4> QED BY <2>2, <3>1, <4>1 DEF Inductive, ReplacedByOne
    <3> QED BY <1>1, <3>1 DEF ReplacedByOne
  <2> QED BY <2>1, <2>2
<1>8. NewestIsLive'
  BY DEF Inductive, NewestIsLive
<1>9. StoredDeadHasCause'
  <2>1. ASSUME NEW d \in Calls, old[d] = store, pc[d] \in Halfway, made[d] \in live
        PROVE  pc'[d] \in Halfway
    <3>1. made[d] # 0
      BY <2>1 DEF TypeOK
    <3>2. d \notin revoking
      BY <3>1 DEF Inductive, CallKnown, RevocationKnown
    <3> QED BY <2>1, <3>2 DEF Elsewhere
  <2> QED BY <2>1 DEF Inductive, StoredDeadHasCause, Halfway
<1>10. LeakHasCause'
  <2>1. \A d \in Calls : pc[d] = "stored" => tries'[d] = tries[d] /\ answer'[d] = answer[d]
    BY DEF Elsewhere
  <2> QED BY <1>1, <2>1 DEF Inductive, LeakHasCause
<1> QED BY <1>3, <1>4, <1>5, <1>6, <1>7, <1>8, <1>9, <1>10 DEF Inductive

\* What the next attempt leaves on the wire.
LEMMA AttemptEffect ==
  ASSUME TypeOK, NEW c \in Calls, Attempt(c), tries[c] < MaxAttempts
  PROVE  /\ wire' \subseteq Requests \X Calls
         /\ tries' \in [Calls -> 0..MaxAttempts] /\ answer' \in [Calls -> Statuses]
         /\ answer'[c] = 0
         /\ <<"create", c>> \in wire' <=> <<"create", c>> \in wire
         /\ \A d \in Calls : d # c => tries'[d] = tries[d] /\ answer'[d] = answer[d]
         /\ \A d \in Calls : d # c => \A request \in Requests :
                <<request, d>> \in wire' <=> <<request, d>> \in wire
<1>1. /\ tries' = [tries EXCEPT ![c] = @ + 1]
      /\ answer' = [answer EXCEPT ![c] = 0]
      /\ wire' = {r \in wire : r # <<"delete", c>>}
                   \union {<<"late", c>> : r \in {<<"delete", c>>} \intersect wire}
                   \union (IF cancelled[c] THEN {} ELSE {<<"delete", c>>})
  BY DEF Attempt
<1>2. tries' \in [Calls -> 0..MaxAttempts] /\ answer' \in [Calls -> Statuses]
  BY <1>1 DEF TypeOK, Statuses
<1>3. answer'[c] = 0 /\ \A d \in Calls : d # c => tries'[d] = tries[d] /\ answer'[d] = answer[d]
  BY <1>1 DEF TypeOK
<1>4. wire' \subseteq Requests \X Calls
  BY <1>1 DEF TypeOK, Requests, Removals
<1>5. <<"create", c>> \in wire' <=> <<"create", c>> \in wire
  BY <1>1
<1>6. \A d \in Calls : d # c => \A request \in Requests :
        <<request, d>> \in wire' <=> <<request, d>> \in wire
  BY <1>1
<1> QED BY <1>2, <1>3, <1>4, <1>5, <1>6

LEMMA CreateSucceedsStep ==
  ASSUME TypeOK, Inductive, NEW c \in Calls, CreateSucceeds(c)
  PROVE  TypeOK' /\ Inductive'
<1>1. /\ pc[c] = "create" /\ made[c] # 0 /\ tries[c] = 0 /\ answer[c] = 0 /\ c \notin revoking
      /\ new' = [new EXCEPT ![c] = Payload(made[c])]
      /\ UNCHANGED <<store, old, awaited, cancelled, revoking, issued, live, made>>
  BY DEF CreateSucceeds, GoOn, Inductive, CallKnown, StagesKnown
<1>2. /\ pc' = [pc EXCEPT ![c] = IF old[c].id = 0 THEN "reply" ELSE "delete"]
      /\ \/ old[c].id = 0 /\ UNCHANGED <<wire, tries, answer, due>>
         \/ old[c].id # 0 /\ Attempt(c) /\ due' \subseteq due \union {<<"delete", c>>}
  BY DEF CreateSucceeds, GoOn
<1>3. /\ wire' \subseteq Requests \X Calls
      /\ tries' \in [Calls -> 0..MaxAttempts] /\ answer' \in [Calls -> Statuses]
      /\ answer'[c] = 0
      /\ <<"create", c>> \in wire' <=> <<"create", c>> \in wire
      /\ \A d \in Calls : d # c => tries'[d] = tries[d] /\ answer'[d] = answer[d]
      /\ \A d \in Calls : d # c => \A request \in Requests :
             <<request, d>> \in wire' <=> <<request, d>> \in wire
  BY <1>1, <1>2, AttemptEffect DEF TypeOK, Requests
<1>4. made[c] \in Nat /\ Payload(made[c]) \in PayloadType
  BY DEF TypeOK, Payload, PayloadType
<1>5. TypeOK'
  <2>1. due' \subseteq {"create", "delete"} \X Calls
    BY <1>2 DEF TypeOK
  <2>2. pc' \in [Calls -> Stages] /\ new' \in [Calls -> PayloadType]
    BY <1>1, <1>2, <1>4 DEF TypeOK, Stages
  <2> QED BY <1>1, <1>3, <2>1, <2>2 DEF TypeOK, Requests
<1>6. /\ pc'[c] = IF old[c].id = 0 THEN "reply" ELSE "delete"
      /\ new'[c] = Payload(made[c])
      /\ \A d \in Calls : d # c => pc'[d] = pc[d] /\ new'[d] = new[d]
  BY <1>1, <1>2 DEF TypeOK
<1>7. Elsewhere(c)
  BY <1>1, <1>3, <1>6 DEF Elsewhere
<1>8. CallKnown(c)
  BY DEF Inductive
<1>9. StagesKnown(c)'
  BY <1>1, <1>6, <1>8 DEF CallKnown, StagesKnown
<1>10. RotationKnown(c)' /\ RevocationKnown(c)'
  BY <1>1, <1>6 DEF RotationKnown, RevocationKnown
<1>11. ReasonKnown(c)'
  BY <1>1, <1>3, <1>6 DEF ReasonKnown
<1> QED
  BY <1>1, <1>3, <1>5, <1>6, <1>7, <1>9, <1>10, <1>11, InnerStep DEF Running, Ended, Gone, Halfway

LEMMA RetryStep ==
  ASSUME TypeOK, Inductive, NEW c \in Calls, Retry(c)
  PROVE  TypeOK' /\ Inductive'
<1>1. /\ pc[c] = "backoff" /\ tries[c] < MaxAttempts
      /\ pc' = [pc EXCEPT ![c] = "delete"] /\ new' = [new EXCEPT ![c] = new[c]]
      /\ Attempt(c)
      /\ UNCHANGED <<store, old, awaited, cancelled, revoking, issued, live, made, due>>
  BY DEF Retry, GoOn, Inductive, CallKnown, StagesKnown
<1>2. /\ wire' \subseteq Requests \X Calls
      /\ tries' \in [Calls -> 0..MaxAttempts] /\ answer' \in [Calls -> Statuses]
      /\ answer'[c] = 0
      /\ <<"create", c>> \in wire' <=> <<"create", c>> \in wire
      /\ \A d \in Calls : d # c => tries'[d] = tries[d] /\ answer'[d] = answer[d]
      /\ \A d \in Calls : d # c => \A request \in Requests :
             <<request, d>> \in wire' <=> <<request, d>> \in wire
  BY <1>1, AttemptEffect
<1>3. TypeOK'
  BY <1>1, <1>2 DEF TypeOK, Requests, Stages
<1>4. /\ pc'[c] = "delete"
      /\ \A d \in Calls : new'[d] = new[d] /\ (d # c => pc'[d] = pc[d])
  BY <1>1 DEF TypeOK
<1>5. Elsewhere(c)
  BY <1>1, <1>2, <1>4 DEF Elsewhere
<1>6. CallKnown(c)
  BY DEF Inductive
<1>7. StagesKnown(c)'
  BY <1>1, <1>4, <1>6 DEF CallKnown, StagesKnown
<1>8. RotationKnown(c)' /\ RevocationKnown(c)'
  BY <1>1, <1>2, <1>4, <1>6 DEF CallKnown, RotationKnown, RevocationKnown
<1>9. ReasonKnown(c)'
  BY <1>4 DEF ReasonKnown
<1> QED
  BY <1>1, <1>2, <1>3, <1>4, <1>5, <1>7, <1>8, <1>9, InnerStep DEF Running, Ended, Gone, Halfway

\* The removal got its answer, or gets none.
LEMMA AnsweredStep ==
  ASSUME TypeOK, Inductive, NEW c \in Calls, Removed(c) \/ RemovalFails(c) \/ BackOff(c)
  PROVE  TypeOK' /\ Inductive'
<1>1. /\ UNCHANGED <<store, old, cancelled, revoking, issued, live, made, wire, tries, due>>
      /\ pc[c] \in {"delete", "backoff"}
      /\ new' = [new EXCEPT ![c] = new[c]] \/ new' = new
      /\ answer' = answer \/ answer' = [answer EXCEPT ![c] = 0]
  BY DEF Removed, RemovalFails, BackOff, WithoutRemoval, GoOn, Fail, End, serviceVars
<1>2. \/ /\ pc' = [pc EXCEPT ![c] = "reply"] /\ awaited' = awaited
         /\ answer[c] = Gone /\ answer' = answer
      \/ /\ pc' = [pc EXCEPT ![c] = "failed"] /\ awaited' = [awaited EXCEPT ![c] = FALSE]
         /\ c \in revoking
      \/ /\ pc' = [pc EXCEPT ![c] = "reply"] /\ awaited' = awaited
         /\ c \notin revoking
         /\ answer'[c] \in {0, Missing} \/ tries[c] = MaxAttempts \/ cancelled[c]
      \/ /\ pc' = [pc EXCEPT ![c] = "backoff"] /\ awaited' = awaited
         /\ tries[c] < MaxAttempts /\ answer' = answer
  <2>1. CASE Removed(c)
    BY <2>1 DEF Removed, GoOn, Succeeds, Gone, Statuses, Missing, Conflict, Stumble, TypeOK, serviceVars
  <2>2. CASE BackOff(c)
    BY <2>2 DEF BackOff, GoOn, TriesAgain, serviceVars
  <2>3. CASE RemovalFails(c)
    <3>1. tries[c] \in 0..MaxAttempts /\ answer[c] \in Statuses /\ tries[c] <= MaxAttempts
      BY DEF TypeOK
    <3>2. answer'[c] \in {0, Missing} \/ tries[c] = MaxAttempts \/ cancelled[c]
      BY <2>3, <3>1 DEF RemovalFails, TriesAgain, Retryable, Succeeds, Gone, Statuses, Missing,
                        Conflict, Stumble, TypeOK
    <3> QED BY <2>3, <3>2 DEF RemovalFails, WithoutRemoval, GoOn, Fail, End
  <2> QED BY <2>1, <2>2, <2>3
<1>3. TypeOK'
  BY <1>1, <1>2 DEF TypeOK, Stages, Ended, Statuses
<1>4. /\ pc'[c] \in {"reply", "failed", "backoff"}
      /\ answer'[c] \in {0, answer[c]}
      /\ \A d \in Calls : new'[d] = new[d]
      /\ \A d \in Calls : d # c =>
             pc'[d] = pc[d] /\ awaited'[d] = awaited[d] /\ answer'[d] = answer[d]
  BY <1>1, <1>2 DEF TypeOK
<1>5. \/ pc'[c] = "reply" /\ answer'[c] = Gone
      \/ pc'[c] = "failed" /\ c \in revoking
      \/ /\ pc'[c] = "reply" /\ c \notin revoking
         /\ answer'[c] \in {0, Missing} \/ tries[c] = MaxAttempts \/ cancelled[c]
      \/ pc'[c] = "backoff" /\ tries[c] < MaxAttempts
  BY <1>2 DEF TypeOK
<1>6. awaited'[c] => awaited[c]
  BY <1>2 DEF TypeOK
<1>7. Elsewhere(c)
  BY <1>1, <1>4 DEF Elsewhere
<1>8. CallKnown(c)
  BY DEF Inductive
<1>9. StagesKnown(c)'
  BY <1>1, <1>4, <1>5, <1>6, <1>8 DEF CallKnown, StagesKnown
<1>10. RotationKnown(c)'
  BY <1>1, <1>4, <1>5, <1>8 DEF CallKnown, RotationKnown, Removing
<1>11. RevocationKnown(c)'
  BY <1>1, <1>4, <1>5, <1>8 DEF CallKnown, RevocationKnown
<1>12. ReasonKnown(c)'
  BY <1>1, <1>5 DEF ReasonKnown
<1>13. /\ pc'[c] = "stored" <=> pc[c] = "stored"
       /\ Running(c)' => Running(c)
       /\ pc[c] \in Halfway /\ c \notin revoking => pc'[c] \in Halfway
       /\ pc[c] = "stored" => tries'[c] = tries[c] /\ answer'[c] = answer[c]
       /\ answer'[c] = Gone => answer[c] = Gone
  BY <1>1, <1>4, <1>5 DEF Running, Ended, Halfway, Gone
<1> QED BY <1>1, <1>3, <1>7, <1>9, <1>10, <1>11, <1>12, <1>13, InnerStep

\* A call ends, or is left, and nothing is delivered.
LEMMA QuietStep ==
  ASSUME TypeOK, Inductive, NEW c \in Calls, UNCHANGED serviceVars,
         \/ CreateFails(c) \/ (c \in revoking /\ Acknowledge(c)) \/ Drop(c)
         \/ Refuse(c) \/ GiveUp(c) \/ NoticeLeft(c) \/ Die(c)
  PROVE  TypeOK' /\ Inductive'
<1>1. UNCHANGED <<store, old, new, revoking, issued, live, wire, made, tries, answer, due>>
  BY DEF serviceVars, CreateFails, Fail, Acknowledge, Drop, Refuse, GiveUp, NoticeLeft, Die
<1>2. \/ /\ pc' = pc /\ cancelled' = cancelled
         /\ awaited' = [awaited EXCEPT ![c] = FALSE]
      \/ /\ pc' = pc /\ awaited' = awaited /\ ~awaited[c] /\ pc[c] # "idle"
         /\ cancelled' = [cancelled EXCEPT ![c] = TRUE]
      \/ /\ cancelled' = cancelled
         /\ awaited' = [awaited EXCEPT ![c] = FALSE]
         /\ \/ pc[c] \in {"idle", "create"} /\ pc' = [pc EXCEPT ![c] = "failed"]
            \/ pc[c] = "reply" /\ c \in revoking /\ pc' = [pc EXCEPT ![c] = "acknowledged"]
            \/ pc[c] = "reply" /\ pc' = [pc EXCEPT ![c] = "lost"]
            \/ Running(c) /\ pc' = [pc EXCEPT ![c] = "dead"]
  BY DEF CreateFails, Fail, Acknowledge, Drop, Refuse, GiveUp, NoticeLeft, Die, End, Running
<1>3. TypeOK'
  BY <1>1, <1>2 DEF TypeOK, Stages, Ended
<1>4. \A d \in Calls : d # c =>
        pc'[d] = pc[d] /\ awaited'[d] = awaited[d] /\ cancelled'[d] = cancelled[d]
  BY <1>2 DEF TypeOK
<1>5. /\ awaited'[c] => ~cancelled'[c]
      /\ cancelled[c] => cancelled'[c]
      /\ pc'[c] = "idle" => pc[c] = "idle" /\ ~cancelled'[c]
      /\ \/ pc'[c] = pc[c]
         \/ pc[c] \in {"idle", "create"} /\ pc'[c] = "failed"
         \/ pc[c] = "reply" /\ c \in revoking /\ pc'[c] = "acknowledged"
         \/ pc[c] = "reply" /\ pc'[c] = "lost"
         \/ Running(c) /\ pc'[c] = "dead"
  BY <1>2 DEF TypeOK, Inductive, CallKnown, StagesKnown
<1>6. pc[c] \in Stages /\ CallKnown(c)
  BY DEF Inductive, TypeOK
<1>7. Elsewhere(c)
  BY <1>1, <1>4 DEF Elsewhere
<1>8. StagesKnown(c)'
  BY <1>1, <1>5, <1>6 DEF CallKnown, StagesKnown, Removing
<1>9. RotationKnown(c)'
  <2>1. c \notin revoking /\ Removing(c) =>
          pc[c] \in {"delete", "backoff", "reply", "stored", "lost", "dead"}
    BY <1>6 DEF CallKnown, RotationKnown
  <2> QED BY <1>1, <1>5, <1>6, <2>1 DEF CallKnown, RotationKnown, Removing
<1>10. RevocationKnown(c)'
  BY <1>1, <1>5, <1>6 DEF CallKnown, RevocationKnown
<1>11. ReasonKnown(c)'
  BY <1>1, <1>5, <1>6 DEF CallKnown, ReasonKnown
<1>12. /\ pc'[c] = "stored" <=> pc[c] = "stored"
       /\ Running(c)' => Running(c)
       /\ pc[c] \in Halfway /\ c \notin revoking => pc'[c] \in Halfway
  BY <1>5, <1>6 DEF Running, Ended, Halfway
<1> QED BY <1>1, <1>3, <1>7, <1>8, <1>9, <1>10, <1>11, <1>12, InnerStep

\* Microsoft Graph says that it did not remove the secret.
LEMMA RefusedStep ==
  ASSUME TypeOK, Inductive, NEW c \in Calls,
         StumbleOverRemoval(c) \/ \E request \in Removals : RefuseRemoval(c, request)
  PROVE  TypeOK' /\ Inductive'
<1>1. /\ UNCHANGED <<gatewayVars, revoking, issued, live, made, tries, due>>
      /\ UNCHANGED <<store, pc, old, new, awaited, cancelled>>
      /\ Removing(c)
      /\ wire' = wire \/ \E request \in Removals : wire' = wire \ {<<request, c>>}
      /\ \/ answer' = answer
         \/ /\ pc[c] = "delete"
            /\ \E status \in {Missing, Conflict, Stumble} :
                   answer' = [answer EXCEPT ![c] = status]
  BY DEF StumbleOverRemoval, RefuseRemoval, Answer, Removing, Removals, gatewayVars
<1>2. TypeOK'
  BY <1>1 DEF TypeOK, Statuses
<1>3. /\ answer'[c] = answer[c] \/ (pc[c] = "delete" /\ answer'[c] # Gone)
      /\ \A d \in Calls : d # c => answer'[d] = answer[d]
  <2>1. ASSUME NEW status \in {Missing, Conflict, Stumble},
               answer' = [answer EXCEPT ![c] = status]
        PROVE  answer'[c] # Gone /\ \A d \in Calls : d # c => answer'[d] = answer[d]
    BY <2>1 DEF TypeOK, Gone, Missing, Conflict, Stumble
  <2>2. CASE answer' = answer
    BY <2>2
  <2>3. CASE /\ pc[c] = "delete"
             /\ \E status \in {Missing, Conflict, Stumble} :
                    answer' = [answer EXCEPT ![c] = status]
    BY <2>1, <2>3
  <2> QED BY <1>1, <2>2, <2>3
<1>4. /\ Removing(c)' => Removing(c)
      /\ <<"create", c>> \in wire' <=> <<"create", c>> \in wire
      /\ \A d \in Calls : d # c => \A request \in Requests :
             <<request, d>> \in wire' <=> <<request, d>> \in wire
  BY <1>1 DEF Removing, Removals
<1>5. Elsewhere(c)
  BY <1>1, <1>3, <1>4 DEF Elsewhere
<1>6. CallKnown(c)
  BY DEF Inductive
<1>7. StagesKnown(c)'
  BY <1>1, <1>3, <1>4, <1>6 DEF CallKnown, StagesKnown
<1>8. RotationKnown(c)'
  BY <1>1, <1>3, <1>4, <1>6 DEF CallKnown, RotationKnown
<1>9. RevocationKnown(c)'
  BY <1>1, <1>3, <1>4, <1>6 DEF CallKnown, RevocationKnown
<1>10. ReasonKnown(c)'
  BY <1>1, <1>3, <1>6 DEF CallKnown, ReasonKnown
<1>11. /\ pc[c] = "stored" => tries'[c] = tries[c] /\ answer'[c] = answer[c]
       /\ answer'[c] = Gone => answer[c] = Gone
       /\ Running(c)' => Running(c)
  BY <1>1, <1>3 DEF Running
<1> QED BY <1>1, <1>2, <1>4, <1>5, <1>7, <1>8, <1>9, <1>10, <1>11, InnerStep

-----------------------------------------------------------------------------
\* The secrets.

LEMMA ServeCreateStep ==
  ASSUME TypeOK, Inductive, NEW c \in Calls, ServeCreate(c)
  PROVE  TypeOK' /\ Inductive'
<1>1. /\ <<"create", c>> \in wire
      /\ wire' = wire \ {<<"create", c>>}
      /\ issued' = issued + 1 /\ live' = live \union {issued + 1}
      /\ made' = [made EXCEPT ![c] = issued + 1]
      /\ due' = due \ {<<"create", c>>}
      /\ UNCHANGED <<store, pc, old, new, awaited, cancelled, revoking, tries, answer>>
  BY DEF ServeCreate, gatewayVars
<1>2. issued \in Nat /\ issued + 1 \in Nat /\ ~(issued + 1 \in 1..issued)
  BY DEF TypeOK
<1>3. TypeOK'
  <2>1. made' \in [Calls -> 0..(issued + 1)]
    BY <1>1, <1>2 DEF TypeOK
  <2>2. live' \subseteq 1..(issued + 1)
    BY <1>1, <1>2 DEF TypeOK
  <2> QED BY <1>1, <1>2, <2>1, <2>2 DEF TypeOK
<1>4. made'[c] = issued + 1 /\ \A d \in Calls : d # c => made'[d] = made[d]
  BY <1>1 DEF TypeOK
<1>5. \A d \in Calls :
        /\ old[d].key \in Nat /\ old[d].id \in Nat /\ made[d] \in Nat /\ made[d] <= issued
        /\ old[d].key <= issued /\ old[d].id <= issued
  BY DEF TypeOK, PayloadType, Inductive, CallKnown, Stored
<1>6. store.key \in Nat /\ store.key <= issued
  BY DEF TypeOK, PayloadType, Inductive, StoreKnown, Stored
<1>7. c \notin revoking /\ made[c] = 0
  BY <1>1 DEF Inductive, CallKnown, RevocationKnown, MadeKnown
<1>8. CallKnown(c)
  BY DEF Inductive
<1>9. pc[c] # "idle" /\ pc[c] \notin {"delete", "backoff", "reply", "stored", "lost"} /\ ~Removing(c)
  <2>1. pc[c] # "idle"
    BY <1>1, <1>8 DEF CallKnown, StagesKnown
  <2> QED BY <1>7, <1>8, <2>1 DEF CallKnown, RotationKnown
<1>10. Elsewhere(c)
  <2>1. \A d \in Calls : d # c => \A request \in Requests :
             <<request, d>> \in wire' <=> <<request, d>> \in wire
    BY <1>1
  <2> QED BY <1>1, <1>4, <2>1 DEF Elsewhere
<1>11. \A d \in Calls : MadeKnown(d)'
  <2> SUFFICES ASSUME NEW d \in Calls PROVE MadeKnown(d)'
    OBVIOUS
  <2>1. CASE d = c
    BY <1>1, <1>2, <1>4, <1>5, <1>6, <2>1 DEF MadeKnown
  <2>2. CASE d # c
    BY <1>1, <1>4, <2>2 DEF Inductive, CallKnown, MadeKnown
  <2> QED BY <2>1, <2>2
<1>12. \A d \in Calls : CallKnown(d)'
  <2> SUFFICES ASSUME NEW d \in Calls PROVE CallKnown(d)'
    OBVIOUS
  <2>1. answer[d] = Gone => old[d].id \notin live'
    BY <1>1, <1>2, <1>5 DEF Inductive, CallKnown
  <2>2. CASE d = c
    <3>1. Removing(c)' => Removing(c)
      BY <1>1 DEF Removing, Removals
    <3>2. Stored(old[c])'
      BY <1>1, <1>2, <1>5, <1>8 DEF CallKnown, Stored
    <3>3. StagesKnown(c)' /\ RotationKnown(c)' /\ RevocationKnown(c)' /\ ReasonKnown(c)'
      BY <1>1, <1>7, <1>8, <1>9, <3>1 DEF CallKnown, StagesKnown, RotationKnown, RevocationKnown,
                                          ReasonKnown
    <3> QED BY <1>1, <1>11, <2>1, <2>2, <3>2, <3>3 DEF CallKnown
  <2>3. CASE d # c
    BY <1>1, <1>2, <1>10, <1>11, <2>1, <2>3, OtherCall
  <2> QED BY <2>2, <2>3
<1>13. OneMaker'
  BY <1>2, <1>4, <1>5 DEF Inductive, OneMaker
<1>14. OneRemover'
  BY <1>1 DEF Inductive, OneRemover
<1>15. StoreKnown'
  BY <1>1, <1>2, <1>6 DEF Inductive, StoreKnown, Stored
<1>16. ReplacedByOne'
  BY <1>1 DEF Inductive, ReplacedByOne, Overlapped, Running
<1>17. NewestIsLive'
  BY <1>1 DEF NewestIsLive
<1>18. StoredDeadHasCause'
  BY <1>1, <1>4, <1>7, <1>9 DEF Inductive, StoredDeadHasCause, TypeOK
<1>19. LeakHasCause'
  <2> SUFFICES ASSUME NEW k \in live' \ {store.key}
               PROVE  \/ \E d \in Calls : made'[d] = k /\ pc[d] # "stored"
                      \/ \E d \in Calls :
                             /\ pc[d] = "stored" /\ old[d].key = k
                             /\ old[d].id = 0 \/ tries[d] = MaxAttempts \/ answer[d] \in {0, Missing}
                      \/ Overlapped
    BY <1>1 DEF LeakHasCause, Overlapped
  <2>1. CASE k = issued + 1
    BY <1>4, <1>9, <2>1
  <2>2. CASE k \in live
    <3>1. \A d \in Calls : made[d] = k => made'[d] = k
      BY <1>4, <1>7, <2>2 DEF TypeOK
    <3> QED BY <2>2, <3>1 DEF Inductive, LeakHasCause, Overlapped
  <2> QED BY <1>1, <2>1, <2>2
<1> QED
  BY <1>3, <1>12, <1>13, <1>14, <1>15, <1>16, <1>17, <1>18, <1>19 DEF Inductive

LEMMA ServeRemovalStep ==
  ASSUME TypeOK, Inductive, NEW c \in Calls, NEW request \in Removals, ServeRemoval(c, request)
  PROVE  TypeOK' /\ Inductive'
<1> DEFINE k == old[c].id
<1>1. /\ <<request, c>> \in wire
      /\ wire' = wire \ {<<request, c>>}
      /\ live' = live \ {k}
      /\ due' = due \ {<<"delete", c>>}
      /\ UNCHANGED <<store, pc, old, new, awaited, cancelled, revoking, issued, made, tries>>
      /\ \/ answer' = answer
         \/ /\ pc[c] = "delete"
            /\ answer' = [answer EXCEPT ![c] = IF k \in live THEN Gone ELSE Missing]
  BY DEF ServeRemoval, Answer, PrevKeyID, gatewayVars
<1>2. TypeOK'
  BY <1>1 DEF TypeOK, Statuses
<1>3. /\ \A d \in Calls : d # c => answer'[d] = answer[d]
      /\ answer'[c] = answer[c] \/ (pc[c] = "delete" /\ answer'[c] \in {Gone, Missing})
      /\ answer'[c] = Gone => answer[c] = Gone \/ k \in live
  BY <1>1 DEF TypeOK, Gone, Missing
<1>4. /\ Removing(c) /\ CallKnown(c)
      /\ <<"create", c>> \in wire' <=> <<"create", c>> \in wire
      /\ \A d \in Calls : d # c => \A r \in Requests : <<r, d>> \in wire' <=> <<r, d>> \in wire
  BY <1>1 DEF Removing, Removals, Inductive
<1>5. Elsewhere(c)
  BY <1>1, <1>3, <1>4 DEF Elsewhere
<1>6. \A d \in Calls : /\ old[d].id \in Nat /\ old[d].key \in Nat /\ made[d] \in Nat
                       /\ old[d].id \in {0, old[d].key}
  BY DEF TypeOK, PayloadType, Inductive, CallKnown, Stored
<1>7. \A d \in Calls : made[d] # 0 /\ pc[d] # "stored" => made[d] \in live'
  <2> SUFFICES ASSUME NEW d \in Calls, made[d] # 0, pc[d] # "stored" PROVE made[d] \in live'
    OBVIOUS
  <2>1. made[d] \in live /\ old[c].key # made[d]
    BY DEF Inductive, CallKnown, MadeKnown
  <2> QED BY <1>1, <1>6, <2>1
<1>8. \A d \in Calls : MadeKnown(d)'
  <2> SUFFICES ASSUME NEW d \in Calls PROVE MadeKnown(d)'
    OBVIOUS
  <2>1. MadeKnown(d) /\ (<<"create", d>> \in wire' => <<"create", d>> \in wire)
    BY <1>1 DEF Inductive, CallKnown
  <2> QED BY <1>1, <1>7, <2>1 DEF MadeKnown
<1>9. \A d \in Calls : answer'[d] = Gone => old[d].id \notin live'
  BY <1>1, <1>3 DEF Inductive, CallKnown
<1>10. \A d \in Calls : CallKnown(d)'
  <2> SUFFICES ASSUME NEW d \in Calls PROVE CallKnown(d)'
    OBVIOUS
  <2>1. CASE d = c
    <3>1. Removing(c)' => Removing(c)
      BY <1>1 DEF Removing
    <3>2. Stored(old[c])'
      BY <1>1, <1>4 DEF CallKnown, Stored
    <3>3. StagesKnown(c)'
      BY <1>1, <1>3, <1>4, <3>1 DEF CallKnown, StagesKnown
    <3>4. RotationKnown(c)'
      BY <1>1, <1>4, <3>1 DEF CallKnown, RotationKnown
    <3>5. RevocationKnown(c)' /\ ReasonKnown(c)'
      BY <1>1, <1>3, <1>4 DEF CallKnown, RevocationKnown, ReasonKnown
    <3> QED BY <1>1, <1>8, <1>9, <2>1, <3>2, <3>3, <3>4, <3>5 DEF CallKnown
  <2>2. CASE d # c
    BY <1>1, <1>3, <1>5, <1>8, <1>9, <2>2, OtherCall DEF TypeOK
  <2> QED BY <2>1, <2>2
<1>11. OneMaker'
  BY <1>1 DEF Inductive, OneMaker
<1>12. OneRemover'
  <2> SUFFICES ASSUME NEW a \in Calls, NEW b \in Calls, a # b, answer'[a] = Gone,
                      answer'[b] = Gone, old[a].id = old[b].id
               PROVE  FALSE
    BY <1>1 DEF OneRemover
  <2>1. ~(answer[a] = Gone /\ answer[b] = Gone)
    BY DEF Inductive, OneRemover
  <2>2. CASE a = c
    BY <1>3, <2>1, <2>2 DEF Inductive, CallKnown
  <2>3. CASE b = c
    BY <1>3, <2>1, <2>3 DEF Inductive, CallKnown
  <2> QED BY <1>3, <2>1, <2>2, <2>3
<1>13. StoreKnown'
  BY <1>1 DEF Inductive, StoreKnown, Stored
<1>14. ReplacedByOne'
  BY <1>1 DEF Inductive, ReplacedByOne, Overlapped, Running
<1>15. c \notin revoking =>
         /\ made[c] # 0 /\ old[c].key < made[c] /\ made[c] <= issued /\ issued \in Nat
         /\ pc[c] \in {"delete", "backoff", "reply", "stored", "lost", "dead"}
  BY <1>4 DEF CallKnown, RotationKnown, MadeKnown, TypeOK
<1>16. NewestIsLive'
  <2>1. CASE k = issued
    BY <1>1, <1>6, <1>15, <2>1 DEF NewestIsLive
  <2>2. CASE k # issued
    BY <1>1, <2>2 DEF Inductive, NewestIsLive
  <2> QED BY <2>1, <2>2
<1>17. StoredDeadHasCause'
  <2> SUFFICES ASSUME store.key # 0, store.key \notin live'
               PROVE  \/ \E d \in revoking : old[d].id = store.key
                      \/ \E d \in Calls :
                             /\ old[d] = store
                             /\ pc[d] \in {"delete", "backoff", "reply", "lost", "dead"}
                             /\ made[d] \in live'
    BY <1>1 DEF StoredDeadHasCause
  <2>1. CASE store.key \notin live
    <3>1. \A d \in Calls : pc[d] # "stored" /\ made[d] \in live => made[d] \in live'
      BY <1>7 DEF TypeOK
    <3>2. \A d \in Calls : pc[d] \in {"delete", "backoff", "reply", "lost", "dead"} => pc[d] # "stored"
      OBVIOUS
    <3> QED BY <2>1, <3>1, <3>2 DEF Inductive, StoredDeadHasCause
  <2>2. CASE k = store.key /\ c \notin revoking
    <3>1. old[c].key = store.key
      BY <1>6, <2>2
    <3>2. old[c] = store /\ pc[c] # "stored"
      BY <3>1 DEF Inductive, StoreKnown
    <3> QED BY <1>7, <1>15, <2>2, <3>2
  <2> QED BY <1>1, <2>1, <2>2
<1>18. LeakHasCause'
  <2>1. \A d \in Calls : pc[d] = "stored" => answer'[d] = answer[d]
    BY <1>3
  <2> QED BY <1>1, <2>1 DEF Inductive, LeakHasCause
<1> QED
  BY <1>2, <1>10, <1>11, <1>12, <1>13, <1>14, <1>16, <1>17, <1>18 DEF Inductive

-----------------------------------------------------------------------------
\* The gateway.

\* A call starts with the stored payload.
LEMMA StartStep ==
  ASSUME TypeOK, Inductive, TypeOK', NEW c \in Calls, Elsewhere(c),
         pc[c] = "idle", pc'[c] \in {"create", "delete", "reply"}, old'[c] = store,
         answer'[c] = 0, tries'[c] <= MaxAttempts, ~cancelled'[c],
         UNCHANGED <<store, issued, live, made>>,
         pc'[c] = "create" => c \notin revoking' /\ tries'[c] = 0 /\ ~Removing(c)',
         pc'[c] # "create" => c \in revoking' /\ <<"create", c>> \notin wire',
         pc'[c] = "reply" => store.id = 0
  PROVE  Inductive'
<1>1. /\ CallKnown(c) /\ c \notin revoking /\ made[c] = 0 /\ store \in PayloadType
  BY DEF Inductive, CallKnown, StagesKnown, TypeOK
<1>2. \A d \in Calls : d # c =>
        /\ pc'[d] = pc[d] /\ old'[d] = old[d] /\ tries'[d] = tries[d] /\ answer'[d] = answer[d]
        /\ d \in revoking' <=> d \in revoking
  BY DEF Elsewhere
<1>3. \A d \in Calls : MadeKnown(d)'
  <2> SUFFICES ASSUME NEW d \in Calls PROVE MadeKnown(d)'
    OBVIOUS
  <2>1. CASE d = c
    BY <1>1, <2>1 DEF MadeKnown
  <2>2. CASE d # c
    <3>1. MadeKnown(d) /\ (<<"create", d>> \in wire' => <<"create", d>> \in wire)
      BY <2>2 DEF Inductive, CallKnown, Elsewhere, Requests
    <3>2. made[d] # 0 /\ pc[d] # "stored" => \A x \in Calls : old'[x].key # made[d]
      BY <1>2, <3>1 DEF MadeKnown
    <3> QED BY <1>2, <2>2, <3>1, <3>2 DEF MadeKnown
  <2> QED BY <2>1, <2>2
<1>4. \A d \in Calls : CallKnown(d)'
  <2> SUFFICES ASSUME NEW d \in Calls PROVE CallKnown(d)'
    OBVIOUS
  <2>1. CASE d = c
    <3>1. Stored(old[c])'
      BY DEF Inductive, StoreKnown, Stored
    <3>2. StagesKnown(c)' /\ RotationKnown(c)' /\ RevocationKnown(c)' /\ ReasonKnown(c)'
      BY <1>1 DEF StagesKnown, RotationKnown, RevocationKnown, ReasonKnown
    <3> QED BY <1>3, <2>1, <3>1, <3>2 DEF CallKnown, Gone
  <2>2. CASE d # c
    BY <1>3, <2>2, OtherCall DEF Inductive, CallKnown, TypeOK
  <2> QED BY <2>1, <2>2
<1>5. OneMaker'
  BY DEF Inductive, OneMaker
<1>6. OneRemover'
  BY <1>2 DEF Inductive, OneRemover, Gone
<1>7. StoreKnown'
  BY <1>2 DEF Inductive, StoreKnown, Stored
<1>8. ReplacedByOne'
  <2>1. CASE Overlapped
    <3>1. PICK x \in Calls, y \in Calls :
            x # y /\ pc[x] = "stored" /\ pc[y] = "stored" /\ old[x] = old[y]
      BY <2>1 DEF Overlapped
    <3> QED BY <1>2, <3>1 DEF Overlapped, ReplacedByOne
  <2>2. CASE ~Overlapped
    <3>1. ASSUME NEW d \in Calls, Running(d)', old'[d] # store
          PROVE  \E x \in Calls : pc'[x] = "stored" /\ old'[x] = old'[d]
      <4>1. d # c /\ Running(d) /\ old'[d] = old[d]
        BY <1>2, <3>1 DEF Running
      <4>2. PICK x \in Calls : pc[x] = "stored" /\ old[x] = old[d]
        BY <2>2, <3>1, <4>1 DEF Inductive, ReplacedByOne
      <4> QED BY <1>2, <4>1, <4>2
    <3> QED BY <3>1 DEF ReplacedByOne
  <2> QED BY <2>1, <2>2
<1>9. NewestIsLive'
  <2>1. \A d \in revoking : d \in revoking' /\ old'[d] = old[d]
    BY <1>1, <1>2 DEF TypeOK
  <2> QED BY <2>1 DEF Inductive, NewestIsLive
<1>10. StoredDeadHasCause'
  <2>1. \A d \in revoking : d \in revoking' /\ old'[d] = old[d]
    BY <1>1, <1>2 DEF TypeOK
  <2>2. \A d \in Calls : pc[d] \in Halfway => pc'[d] = pc[d] /\ old'[d] = old[d]
    BY <1>2 DEF Halfway
  <2> QED BY <2>1, <2>2 DEF Inductive, StoredDeadHasCause, Halfway
<1>11. LeakHasCause'
  <2> SUFFICES ASSUME NEW k \in live \ {store.key} PROVE LeakHasCause!(k)'
    BY DEF LeakHasCause
  <2>1. \A d \in Calls : pc[d] = "stored" =>
          pc'[d] = "stored" /\ old'[d] = old[d] /\ tries'[d] = tries[d] /\ answer'[d] = answer[d]
    BY <1>2
  <2>2. \A d \in Calls : made[d] = k /\ pc[d] # "stored" => pc'[d] # "stored"
    BY <1>2
  <2> QED BY <2>1, <2>2 DEF Inductive, LeakHasCause
<1> QED
  BY <1>4, <1>5, <1>6, <1>7, <1>8, <1>9, <1>10, <1>11 DEF Inductive

LEMMA TriggerRotateStep ==
  ASSUME TypeOK, Inductive, NEW c \in Calls, TriggerRotate(c)
  PROVE  TypeOK' /\ Inductive'
<1>1. /\ pc[c] = "idle" /\ pc' = [pc EXCEPT ![c] = "create"]
      /\ old' = [old EXCEPT ![c] = store]
      /\ awaited' = [awaited EXCEPT ![c] = TRUE]
      /\ wire' = wire \union {<<"create", c>>}
      /\ due' = due \union {<<"create", c>>}
      /\ UNCHANGED <<store, new, cancelled, revoking, issued, live, made, tries, answer>>
  BY DEF TriggerRotate, Start
<1>2. TypeOK'
  BY <1>1 DEF TypeOK, Stages
<1>3. StagesKnown(c)
  BY DEF Inductive, CallKnown
<1>4. Elsewhere(c)
  <2>1. \A d \in Calls : d # c => \A request \in Requests :
          <<request, d>> \in wire' <=> <<request, d>> \in wire
    BY <1>1
  <2> QED BY <1>1, <2>1 DEF Elsewhere, TypeOK
<1>5. ~Removing(c)' /\ pc'[c] = "create" /\ old'[c] = store
  BY <1>1, <1>3 DEF StagesKnown, Removing, Removals, TypeOK
<1> QED BY <1>1, <1>2, <1>3, <1>4, <1>5, StartStep DEF StagesKnown

LEMMA TriggerRevokeStep ==
  ASSUME TypeOK, Inductive, NEW c \in Calls, TriggerRevoke(c)
  PROVE  TypeOK' /\ Inductive'
<1>1. /\ pc[c] = "idle"
      /\ old' = [old EXCEPT ![c] = store]
      /\ awaited' = [awaited EXCEPT ![c] = TRUE]
      /\ revoking' = revoking \union {c}
      /\ UNCHANGED <<store, new, cancelled, issued, live, made>>
      /\ due' \subseteq due \union {<<"delete", c>>}
      /\ \/ /\ store.id = 0 /\ pc' = [pc EXCEPT ![c] = "reply"]
            /\ UNCHANGED <<wire, tries, answer>>
         \/ pc' = [pc EXCEPT ![c] = "delete"] /\ Attempt(c)
  BY DEF TriggerRevoke, Start
<1>2. StagesKnown(c)
  BY DEF Inductive, CallKnown
<1>3. tries[c] = 0 /\ answer[c] = 0 /\ <<"create", c>> \notin wire /\ ~cancelled[c]
  BY <1>1, <1>2 DEF StagesKnown
<1>4. /\ wire' \subseteq Requests \X Calls
      /\ tries' \in [Calls -> 0..MaxAttempts] /\ answer' \in [Calls -> Statuses]
      /\ answer'[c] = 0
      /\ <<"create", c>> \in wire' <=> <<"create", c>> \in wire
      /\ \A d \in Calls : d # c => tries'[d] = tries[d] /\ answer'[d] = answer[d]
      /\ \A d \in Calls : d # c => \A request \in Requests :
             <<request, d>> \in wire' <=> <<request, d>> \in wire
  BY <1>1, <1>3, AttemptEffect DEF TypeOK, Requests
<1>5. TypeOK'
  <2>1. pc' \in [Calls -> Stages] /\ old' \in [Calls -> PayloadType]
    BY <1>1 DEF TypeOK, Stages
  <2>2. due' \subseteq {"create", "delete"} \X Calls
    BY <1>1 DEF TypeOK
  <2> QED BY <1>1, <1>4, <2>1, <2>2 DEF TypeOK, Requests
<1>6. /\ old'[c] = store /\ pc'[c] \in {"delete", "reply"}
      /\ pc'[c] = "reply" => store.id = 0
      /\ \A d \in Calls : d # c => pc'[d] = pc[d] /\ old'[d] = old[d] /\ awaited'[d] = awaited[d]
  BY <1>1 DEF TypeOK
<1>7. Elsewhere(c)
  BY <1>1, <1>4, <1>6 DEF Elsewhere
<1>8. tries'[c] <= MaxAttempts
  BY <1>4
<1> QED BY <1>1, <1>3, <1>4, <1>5, <1>6, <1>7, <1>8, StartStep

\* The new payload is stored: it has a live secret, and nobody else's.
LEMMA DeliverStep ==
  ASSUME TypeOK, Inductive, NEW c \in Calls, c \notin revoking, Deliver(c), UNCHANGED serviceVars
  PROVE  TypeOK' /\ Inductive'
<1>1. /\ pc[c] = "reply" /\ awaited[c]
      /\ store' = new[c]
      /\ pc' = [pc EXCEPT ![c] = "stored"]
      /\ awaited' = [awaited EXCEPT ![c] = FALSE]
      /\ UNCHANGED <<old, new, cancelled, revoking, issued, live, wire, made, tries, answer, due>>
  BY DEF Deliver, End, serviceVars
<1>2. TypeOK'
  BY <1>1 DEF TypeOK, Stages, Ended
<1>3. /\ CallKnown(c) /\ made[c] # 0 /\ new[c] = Payload(made[c]) /\ ~cancelled[c]
      /\ made[c] \in live /\ store.key # made[c] /\ \A d \in Calls : old[d].key # made[c]
  BY <1>1 DEF Inductive, CallKnown, RotationKnown, MadeKnown, StagesKnown
<1>4. store'.key = made[c] /\ store'.id = made[c] /\ made[c] \in Nat /\ made[c] <= issued
  BY <1>1, <1>3 DEF Payload, TypeOK
<1>5. /\ pc'[c] = "stored" /\ awaited'[c] = FALSE
      /\ \A d \in Calls : d # c => pc'[d] = pc[d] /\ awaited'[d] = awaited[d]
  BY <1>1 DEF TypeOK
<1>6. Elsewhere(c)
  BY <1>1, <1>5 DEF Elsewhere
<1>7. \A d \in Calls : MadeKnown(d)'
  <2> SUFFICES ASSUME NEW d \in Calls PROVE MadeKnown(d)'
    OBVIOUS
  <2>1. MadeKnown(d) /\ (made[d] = made[c] => d = c)
    BY <1>3 DEF Inductive, CallKnown, OneMaker
  <2> QED BY <1>1, <1>4, <1>5, <2>1 DEF MadeKnown
<1>8. \A d \in Calls : CallKnown(d)'
  <2> SUFFICES ASSUME NEW d \in Calls PROVE CallKnown(d)'
    OBVIOUS
  <2>1. CASE d = c
    <3>1. StagesKnown(c)' /\ RotationKnown(c)' /\ RevocationKnown(c)' /\ ReasonKnown(c)'
      BY <1>1, <1>3, <1>5 DEF StagesKnown, RotationKnown, RevocationKnown, ReasonKnown, CallKnown
    <3> QED BY <1>1, <1>3, <1>7, <2>1, <3>1 DEF CallKnown, Stored
  <2>2. CASE d # c
    BY <1>1, <1>6, <1>7, <2>2, OtherCall DEF Inductive, CallKnown, TypeOK
  <2> QED BY <2>1, <2>2
<1>9. OneMaker' /\ OneRemover'
  BY <1>1 DEF Inductive, OneMaker, OneRemover
<1>10. StoreKnown'
  BY <1>1, <1>3, <1>4 DEF StoreKnown, Stored
<1>11. \A d \in Calls : pc[d] = "stored" => pc'[d] = "stored" /\ d # c
  BY <1>1, <1>5
<1>12. Overlapped => Overlapped'
  <2> SUFFICES ASSUME Overlapped PROVE Overlapped'
    OBVIOUS
  <2>1. PICK x \in Calls, y \in Calls :
          x # y /\ pc[x] = "stored" /\ pc[y] = "stored" /\ old[x] = old[y]
    BY DEF Overlapped
  <2> QED BY <1>1, <1>11, <2>1 DEF Overlapped
<1>13. Running(c)
  BY <1>1 DEF Running, Ended
<1>14. old[c] # store => Overlapped'
  <2> SUFFICES ASSUME old[c] # store PROVE Overlapped'
    OBVIOUS
  <2>1. CASE Overlapped
    BY <1>12, <2>1
  <2>2. CASE ~Overlapped
    <3>1. PICK d \in Calls : pc[d] = "stored" /\ old[d] = old[c]
      BY <1>13, <2>2 DEF Inductive, ReplacedByOne
    <3> QED BY <1>1, <1>5, <1>11, <3>1 DEF Overlapped
  <2> QED BY <2>1, <2>2
<1>15. ReplacedByOne'
  <2>1. CASE Overlapped \/ old[c] # store
    BY <1>12, <1>14, <2>1 DEF ReplacedByOne
  <2>2. CASE ~Overlapped /\ old[c] = store
    <3>1. ASSUME NEW d \in Calls, Running(d)'
          PROVE  \E x \in Calls : pc'[x] = "stored" /\ old[x] = old[d]
      <4>1. d # c /\ Running(d)
        BY <1>5, <3>1 DEF Running, Ended
      <4>2. CASE old[d] = store
        BY <1>5, <2>2, <4>2
      <4>3. CASE old[d] # store
        BY <1>11, <2>2, <4>1, <4>3 DEF Inductive, ReplacedByOne
      <4> QED BY <4>2, <4>3
    <3> QED BY <1>1, <3>1 DEF ReplacedByOne
  <2> QED BY <2>1, <2>2
<1>16. NewestIsLive'
  BY <1>1 DEF Inductive, NewestIsLive
<1>17. StoredDeadHasCause'
  BY <1>1, <1>3, <1>4 DEF StoredDeadHasCause
<1>18. LeakHasCause'
  <2> SUFFICES ASSUME NEW k \in live, k # made[c]
               PROVE  \/ \E d \in Calls : made[d] = k /\ pc'[d] # "stored"
                      \/ \E d \in Calls :
                             /\ pc'[d] = "stored" /\ old[d].key = k
                             /\ old[d].id = 0 \/ tries[d] = MaxAttempts \/ answer[d] \in {0, Missing}
                      \/ Overlapped'
    BY <1>1, <1>4 DEF LeakHasCause, Overlapped
  <2>1. CASE k # store.key
    <3>1. CASE \E d \in Calls : made[d] = k /\ pc[d] # "stored"
      BY <1>5, <3>1
    <3>2. CASE Overlapped
      BY <1>12, <3>2
    <3> QED BY <1>11, <2>1, <3>1, <3>2 DEF Inductive, LeakHasCause, Overlapped
  <2>2. CASE k = store.key /\ old[c] = store
    <3>1. old[c].id \in {0, k}
      BY <1>3, <2>2 DEF CallKnown, Stored
    <3>2. answer[c] # Gone \/ old[c].id = 0
      BY <1>3, <3>1 DEF CallKnown
    <3>3. old[c].id = 0 \/ tries[c] = MaxAttempts \/ answer[c] \in {0, Missing}
      BY <1>1, <1>3, <3>2 DEF CallKnown, ReasonKnown
    <3> QED BY <1>5, <2>2, <3>3
  <2>3. CASE old[c] # store
    BY <1>14, <2>3
  <2> QED BY <2>1, <2>2, <2>3
<1> QED
  BY <1>2, <1>8, <1>9, <1>10, <1>15, <1>16, <1>17, <1>18 DEF Inductive

-----------------------------------------------------------------------------

LEMMA Preserved == TypeOK /\ Inductive /\ [Next]_vars => TypeOK' /\ Inductive'
<1> SUFFICES ASSUME TypeOK, Inductive, [Next]_vars PROVE TypeOK' /\ Inductive'
  OBVIOUS
<1>1. CASE UNCHANGED vars
  <2>1. TypeOK' /\ (\A c \in Calls : CallKnown(c))'
    BY <1>1 DEF vars, gatewayVars, serviceVars, TypeOK, Inductive, CallKnown, Stored, StagesKnown,
                RotationKnown, RevocationKnown, MadeKnown, ReasonKnown, Removing
  <2>2. OneMaker' /\ OneRemover' /\ StoreKnown' /\ ReplacedByOne'
    BY <1>1 DEF vars, gatewayVars, serviceVars, Inductive, OneMaker, OneRemover, StoreKnown, Stored,
                ReplacedByOne, Overlapped, Running
  <2>3. NewestIsLive' /\ StoredDeadHasCause' /\ LeakHasCause'
    BY <1>1 DEF vars, gatewayVars, serviceVars, Inductive, NewestIsLive, StoredDeadHasCause, LeakHasCause
  <2> QED BY <2>1, <2>2, <2>3 DEF Inductive
<1>2. ASSUME NEW c \in Calls, TriggerRotate(c) \/ TriggerRevoke(c) PROVE TypeOK' /\ Inductive'
  BY <1>2, TriggerRotateStep, TriggerRevokeStep
<1>3. ASSUME NEW c \in Calls, Progress(c) PROVE TypeOK' /\ Inductive'
  <2>1. CASE CreateSucceeds(c)
    BY <2>1, CreateSucceedsStep
  <2>2. CASE CreateFails(c)
    BY <2>2, QuietStep DEF CreateFails
  <2>3. CASE Removed(c) \/ RemovalFails(c) \/ BackOff(c)
    BY <2>3, AnsweredStep
  <2>4. CASE Retry(c)
    BY <2>4, RetryStep
  <2>5. CASE c \notin revoking /\ Deliver(c) /\ UNCHANGED serviceVars
    BY <2>5, DeliverStep
  <2>6. CASE ((c \in revoking /\ Acknowledge(c)) \/ Drop(c)) /\ UNCHANGED serviceVars
    BY <2>6, QuietStep
  <2> QED BY <1>3, <2>1, <2>2, <2>3, <2>4, <2>5, <2>6 DEF Progress, Return
<1>4. ASSUME NEW c \in Calls, ServeCreate(c) PROVE TypeOK' /\ Inductive'
  BY <1>4, ServeCreateStep
<1>5. ASSUME NEW c \in Calls, NEW request \in Removals, ServeRemoval(c, request)
      PROVE  TypeOK' /\ Inductive'
  BY <1>5, ServeRemovalStep
<1>6. ASSUME NEW c \in Calls,
             StumbleOverRemoval(c) \/ \E request \in Removals : RefuseRemoval(c, request)
      PROVE  TypeOK' /\ Inductive'
  BY <1>6, RefusedStep
<1>7. ASSUME NEW c \in Calls, UNCHANGED serviceVars,
             Refuse(c) \/ GiveUp(c) \/ NoticeLeft(c) \/ Die(c)
      PROVE  TypeOK' /\ Inductive'
  BY <1>7, QuietStep
<1> QED BY <1>1, <1>2, <1>3, <1>4, <1>5, <1>6, <1>7 DEF Next

LEMMA Invariant == Spec => [](TypeOK /\ Inductive)
  BY InitGood, Preserved, PTL DEF Spec

-----------------------------------------------------------------------------

\* Every variable keeps its type, and no more than MaxAttempts removals are attempted.
THEOREM TypeCorrect == Spec => []TypeOK
  BY Invariant, PTL

\* A Revoke that returns no error has removed the secret it was sent with its key id,
\* whatever attempts of removePassword were refused, repeated, or served late.
THEOREM AcknowledgedAlwaysGone == Spec => []AcknowledgedIsGone
<1>1. TypeOK /\ Inductive => AcknowledgedIsGone
  <2> SUFFICES ASSUME TypeOK, Inductive, NEW c \in revoking,
                      pc[c] \in {"reply", "acknowledged", "lost"}, old[c].id # 0
               PROVE  old[c].key \notin live
    BY DEF AcknowledgedIsGone
  <2>1. c \in Calls /\ CallKnown(c)
    BY DEF TypeOK, Inductive
  <2>2. old[c].id \notin live
    BY <2>1 DEF CallKnown, RevocationKnown
  <2>3. old[c].key = old[c].id
    BY <2>1 DEF CallKnown, Stored
  <2> QED BY <2>2, <2>3
<1> QED BY <1>1, Invariant, PTL

\* Of the Revokes of one secret at most one returns no error, however often the gateway
\* calls: removePassword takes a secret that is not there for an error.
THEOREM AlwaysRemovedForOne == Spec => []RemovedForOne
<1>1. TypeOK /\ Inductive => RemovedForOne
  BY DEF TypeOK, Inductive, CallKnown, RevocationKnown, OneRemover, RemovedForOne
<1> QED BY <1>1, Invariant, PTL

\* A Rotate never removes the newest secret, however late its removal is served.
THEOREM NewestAlwaysLive == Spec => []NewestIsLive
<1>1. Inductive => NewestIsLive
  BY DEF Inductive
<1> QED BY <1>1, Invariant, PTL

\* A stored secret stops working by a revocation, or while the rotation that replaces
\* it has a working one to deliver.
THEOREM StoredDeadAlwaysHasCause == Spec => []StoredDeadHasCause
<1>1. Inductive => StoredDeadHasCause
  BY DEF Inductive
<1> QED BY <1>1, Invariant, PTL

\* A secret that works and is not stored was not delivered, or survived for one of the
\* reasons removePassword has: no key id, attempts used up, a final answer or none; or
\* two rotations of one payload overlapped.
THEOREM LeakAlwaysHasCause == Spec => []LeakHasCause
<1>1. Inductive => LeakHasCause
  BY DEF Inductive
<1> QED BY <1>1, Invariant, PTL

-----------------------------------------------------------------------------
\* Rotation.

\* A call that may still remove its secret owes it, until it is removed.
Owing(c) == Removing(c) \/ (pc[c] \in {"delete", "backoff"} /\ ~cancelled[c])

Owed ==
    \A c \in Calls :
        /\ <<"create", c>> \in wire => <<"create", c>> \in due
        /\ Owing(c) => <<"delete", c>> \in due \/ old[c].id \notin live

LEMMA InitOwed == Init => Owed
  BY DEF Init, GatewayInit, Owed, Owing, Removing

\* An attempt sends nothing new for a call that was left.
LEMMA AttemptOwes ==
  ASSUME TypeOK, NEW c \in Calls, Attempt(c), tries[c] < MaxAttempts
  PROVE  /\ \A d \in Calls : <<"create", d>> \in wire' => <<"create", d>> \in wire
         /\ \A d \in Calls : d # c => (Removing(d)' <=> Removing(d))
         /\ cancelled[c] /\ Removing(c)' => Removing(c)
<1>1. wire' = {r \in wire : r # <<"delete", c>>}
                \union {<<"late", c>> : r \in {<<"delete", c>>} \intersect wire}
                \union (IF cancelled[c] THEN {} ELSE {<<"delete", c>>})
  BY DEF Attempt
<1>2. \A d \in Calls : <<"create", d>> \in wire' => <<"create", d>> \in wire
  BY <1>1
<1>3. \A d \in Calls : d # c => (Removing(d)' <=> Removing(d))
  BY <1>1 DEF Removing, Removals
<1>4. cancelled[c] /\ Removing(c)' => Removing(c)
  BY <1>1 DEF Removing, Removals
<1> QED BY <1>2, <1>3, <1>4

LEMMA OwedStep == TypeOK /\ Inductive /\ Owed /\ [Next]_vars => Owed'
<1> SUFFICES ASSUME TypeOK, Inductive, Owed, [Next]_vars PROVE Owed'
  OBVIOUS
\* Steps that send nothing.
<1>q. ASSUME UNCHANGED <<revoking, live, old, due>>, wire' \subseteq wire,
             \A d \in Calls : /\ cancelled[d] => cancelled'[d]
                              /\ pc'[d] \in {"delete", "backoff"} => pc[d] \in {"delete", "backoff"}
      PROVE  Owed'
  BY <1>q DEF Owed, Owing, Removing
<1>1. ASSUME NEW c \in Calls, TriggerRotate(c) PROVE Owed'
  <2>1. /\ pc[c] = "idle" /\ pc' = [pc EXCEPT ![c] = "create"]
        /\ old' = [old EXCEPT ![c] = store]
        /\ wire' = wire \union {<<"create", c>>}
        /\ due' = due \union {<<"create", c>>}
        /\ UNCHANGED <<cancelled, revoking, live>>
    BY <1>1 DEF TriggerRotate, Start
  <2>2. \A d \in Calls : Removing(d)' <=> Removing(d)
    BY <2>1 DEF Removing, Removals
  <2>3. ~Owing(c)'
    BY <2>1, <2>2 DEF Owing, TypeOK, Inductive, CallKnown, StagesKnown
  <2>4. \A d \in Calls : d # c => pc'[d] = pc[d] /\ old'[d] = old[d]
    BY <2>1 DEF TypeOK
  <2>5. ASSUME NEW d \in Calls, d # c
        PROVE  /\ <<"create", d>> \in wire' => <<"create", d>> \in due'
               /\ Owing(d)' => <<"delete", d>> \in due' \/ old'[d].id \notin live'
    BY <2>1, <2>2, <2>4, <2>5 DEF Owed, Owing
  <2>6. <<"create", c>> \in due'
    BY <2>1
  <2> QED BY <2>3, <2>5, <2>6 DEF Owed
<1>2. ASSUME NEW c \in Calls, TriggerRevoke(c) PROVE Owed'
  <2>1. /\ pc[c] = "idle"
        /\ \A d \in Calls : d # c => pc'[d] = pc[d] /\ old'[d] = old[d]
        /\ UNCHANGED <<cancelled, live>> /\ due \subseteq due'
        /\ \/ wire' = wire /\ pc'[c] = "reply"
           \/ Attempt(c) /\ <<"delete", c>> \in due'
    BY <1>2 DEF TriggerRevoke, Start, TypeOK
  <2>2. tries[c] < MaxAttempts
    <3>1. tries[c] = 0
      BY <2>1 DEF Inductive, CallKnown, StagesKnown
    <3> QED BY <3>1
  <2>3. /\ \A d \in Calls : <<"create", d>> \in wire' => <<"create", d>> \in wire
        /\ \A d \in Calls : d # c => (Removing(d)' <=> Removing(d))
    BY <2>1, <2>2, AttemptOwes DEF Removing
  <2>4. Owing(c)' => <<"delete", c>> \in due'
    <3>1. ~Removing(c)
      BY <2>1 DEF Inductive, CallKnown, StagesKnown
    <3> QED BY <2>1, <3>1 DEF Owing, Removing
  <2>5. ASSUME NEW d \in Calls, d # c, Owing(d)'
        PROVE  <<"delete", d>> \in due' \/ old'[d].id \notin live'
    BY <2>1, <2>3, <2>5 DEF Owed, Owing
  <2>6. \A d \in Calls : <<"create", d>> \in wire' => <<"create", d>> \in due'
    BY <2>1, <2>3 DEF Owed
  <2> QED BY <2>4, <2>5, <2>6 DEF Owed
<1>3. ASSUME NEW c \in Calls, CreateSucceeds(c) PROVE Owed'
  <2>0. pc[c] = "create" /\ c \notin revoking /\ tries[c] = 0 /\ tries[c] < MaxAttempts
    <3>1. pc[c] = "create"
      BY <1>3 DEF CreateSucceeds
    <3>2. c \notin revoking /\ tries[c] = 0
      BY <3>1 DEF Inductive, CallKnown, StagesKnown
    <3> QED BY <3>1, <3>2
  <2>1. /\ UNCHANGED <<old, cancelled, revoking, live>>
        /\ \A d \in Calls : d # c => pc'[d] = pc[d]
        /\ \/ pc'[c] = "reply" /\ UNCHANGED <<wire, due>>
           \/ /\ pc'[c] = "delete" /\ Attempt(c)
              /\ due' = IF cancelled[c] THEN due ELSE due \union {<<"delete", c>>}
    BY <1>3 DEF CreateSucceeds, GoOn, TypeOK
  <2>2. ~Removing(c)
    BY <2>0 DEF Inductive, CallKnown, RotationKnown
  <2>3. CASE pc'[c] = "reply" /\ UNCHANGED <<wire, due>>
    BY <1>q, <2>0, <2>1, <2>3
  <2>4. CASE /\ pc'[c] = "delete" /\ Attempt(c)
             /\ due' = IF cancelled[c] THEN due ELSE due \union {<<"delete", c>>}
    <3>1. /\ \A d \in Calls : <<"create", d>> \in wire' => <<"create", d>> \in wire
          /\ \A d \in Calls : d # c => (Removing(d)' <=> Removing(d))
          /\ cancelled[c] /\ Removing(c)' => Removing(c)
      BY <2>0, <2>4, AttemptOwes
    <3>2. due \subseteq due' /\ (~cancelled[c] => <<"delete", c>> \in due')
      BY <2>4
    <3> QED BY <2>0, <2>1, <2>2, <3>1, <3>2 DEF Owed, Owing
  <2> QED BY <2>1, <2>3, <2>4
<1>4. ASSUME NEW c \in Calls, Retry(c) PROVE Owed'
  <2>1. /\ pc[c] = "backoff" /\ tries[c] < MaxAttempts /\ Attempt(c)
        /\ UNCHANGED <<old, cancelled, revoking, live, due>>
        /\ \A d \in Calls : d # c => pc'[d] = pc[d]
    BY <1>4 DEF Retry, GoOn, Inductive, CallKnown, StagesKnown, TypeOK
  <2>2. /\ \A d \in Calls : <<"create", d>> \in wire' => <<"create", d>> \in wire
        /\ \A d \in Calls : d # c => (Removing(d)' <=> Removing(d))
        /\ cancelled[c] /\ Removing(c)' => Removing(c)
    BY <2>1, AttemptOwes
  <2>3. Owing(c)' => Owing(c)
    BY <2>1, <2>2 DEF Owing
  <2> QED BY <2>1, <2>2, <2>3 DEF Owed, Owing
<1>5. ASSUME NEW c \in Calls, Removed(c) \/ RemovalFails(c) \/ BackOff(c) PROVE Owed'
  <2>1. /\ UNCHANGED <<revoking, live, old, due, wire, cancelled>>
        /\ pc[c] \in {"delete", "backoff"}
        /\ \A d \in Calls : d # c => pc'[d] = pc[d]
    BY <1>5 DEF Removed, RemovalFails, BackOff, WithoutRemoval, GoOn, Fail, End, serviceVars, TypeOK
  <2> QED BY <1>q, <2>1
<1>6. ASSUME NEW c \in Calls, UNCHANGED serviceVars,
             \/ CreateFails(c) \/ Deliver(c) \/ Acknowledge(c) \/ Drop(c)
             \/ Refuse(c) \/ GiveUp(c) \/ NoticeLeft(c) \/ Die(c)
      PROVE  Owed'
  <2>1. /\ UNCHANGED <<revoking, live, old, due, wire>>
        /\ \A d \in Calls : /\ cancelled[d] => cancelled'[d]
                            /\ pc'[d] \in {"delete", "backoff"} => pc[d] \in {"delete", "backoff"}
    BY <1>6 DEF serviceVars, CreateFails, Fail, Deliver, Acknowledge, Drop, Refuse, GiveUp,
                NoticeLeft, Die, End, TypeOK
  <2> QED BY <1>q, <2>1
<1>7. ASSUME NEW c \in Calls, ServeCreate(c) PROVE Owed'
  <2>1. /\ wire' = wire \ {<<"create", c>>} /\ due' = due \ {<<"create", c>>}
        /\ live' = live \union {issued + 1}
        /\ UNCHANGED <<pc, old, cancelled, revoking>>
    BY <1>7 DEF ServeCreate, gatewayVars
  <2>2. \A d \in Calls : Removing(d)' <=> Removing(d)
    BY <2>1 DEF Removing, Removals
  <2>3. \A d \in Calls : old[d].id # issued + 1
    BY DEF TypeOK, PayloadType, Inductive, CallKnown, Stored
  <2> QED BY <2>1, <2>2, <2>3 DEF Owed, Owing
<1>8. ASSUME NEW c \in Calls, NEW request \in Removals, ServeRemoval(c, request) PROVE Owed'
  <2>1. /\ wire' = wire \ {<<request, c>>} /\ due' = due \ {<<"delete", c>>}
        /\ live' = live \ {old[c].id}
        /\ UNCHANGED <<pc, old, cancelled, revoking>>
    BY <1>8 DEF ServeRemoval, PrevKeyID, gatewayVars
  <2>2. \A d \in Calls : Owing(d)' => Owing(d)
    BY <2>1 DEF Owing, Removing
  <2>3. \A d \in Calls : <<"create", d>> \in wire' => <<"create", d>> \in wire
    BY <2>1
  <2> QED BY <2>1, <2>2, <2>3 DEF Owed
<1>9. ASSUME NEW c \in Calls,
             StumbleOverRemoval(c) \/ \E request \in Removals : RefuseRemoval(c, request)
      PROVE  Owed'
  <2>1. UNCHANGED <<revoking, live, old, due, pc, cancelled>> /\ wire' \subseteq wire
    BY <1>9 DEF StumbleOverRemoval, RefuseRemoval, gatewayVars
  <2> QED BY <1>q, <2>1
<1>10. CASE UNCHANGED vars
  BY <1>q, <1>10 DEF vars, gatewayVars, serviceVars
<1> QED
  BY <1>1, <1>2, <1>3, <1>4, <1>5, <1>6, <1>7, <1>8, <1>9, <1>10 DEF Next, Progress, Return, CreateFails

\* To Rotation a pause is a part of the delete, any other stage is itself.

LEMMA StageMoves ==
  ASSUME TypeOK, NEW c \in Calls, NEW stage, stage # "backoff", pc' = [pc EXCEPT ![c] = stage]
  PROVE  [d \in Calls |-> IF pc[d] = "backoff" THEN "delete" ELSE pc[d]]'
           = [[d \in Calls |-> IF pc[d] = "backoff" THEN "delete" ELSE pc[d]] EXCEPT ![c] = stage]
  BY DEF TypeOK

LEMMA PlainInit == Init => Plain!Init
<1> SUFFICES ASSUME Init PROVE Plain!Init
  OBVIOUS
<1>1. /\ store \in [id : {0} \union Plain!Handles(issued), key : {issued}]
      /\ Plain!Whole(store)
  BY DEF Init, Plain!Handles, Plain!Whole, MicrosoftGraph, Profile
<1>2. Plain!GatewayInit(Plain!Blank)
  BY DEF Init, GatewayInit, Plain!GatewayInit, Plain!Blank, Plain!Payload, Blank, Payload
<1> QED BY <1>1, <1>2 DEF Init, Plain!Init

\* What the gateway does is the same step there.
LEMMA PlainGateway ==
  ASSUME TypeOK, Inductive, NEW c \in Calls, UNCHANGED serviceVars
  PROVE  /\ UNCHANGED Plain!serviceVars
         /\ CreateFails(c) => Plain!CreateFails(c)
         /\ Refuse(c) => Plain!Refuse(c)
         /\ Deliver(c) => Plain!Deliver(c)
         /\ Acknowledge(c) => Plain!Acknowledge(c)
         /\ Drop(c) => Plain!Drop(c)
         /\ Die(c) => Plain!Die(c)
         /\ GiveUp(c) => Plain!GiveUp(c)
         /\ NoticeLeft(c) => Plain!NoticeLeft(c)
<1>1. UNCHANGED Plain!serviceVars
  BY DEF serviceVars, Plain!serviceVars
<1>2. ASSUME NEW stage \in Ended, End(c, stage) PROVE Plain!End(c, stage)
  <2>1. pc' = [pc EXCEPT ![c] = stage] /\ stage # "backoff"
    BY <1>2 DEF End, Ended
  <2> QED BY <1>2, <2>1, StageMoves DEF End, Plain!End
<1>3. Running(c) => Plain!Running(c)
  BY DEF Running, Ended, Plain!Running, Plain!Ended
<1>4. CreateFails(c) => Plain!CreateFails(c)
  BY <1>1, <1>2 DEF CreateFails, Fail, Plain!CreateFails, Plain!Fail, Ended
<1>5. Refuse(c) => Plain!Refuse(c)
  BY <1>2 DEF Refuse, Plain!Refuse, Ended
<1>6. Deliver(c) => Plain!Deliver(c)
  BY <1>2 DEF Deliver, Plain!Deliver, Ended
<1>7. Drop(c) => Plain!Drop(c)
  BY <1>2 DEF Drop, Plain!Drop, Ended
<1>8. Die(c) => Plain!Die(c)
  BY <1>2, <1>3 DEF Die, Plain!Die, Ended
<1>9. GiveUp(c) => Plain!GiveUp(c)
  BY DEF GiveUp, Plain!GiveUp
<1>10. NoticeLeft(c) => Plain!NoticeLeft(c)
  BY <1>3 DEF NoticeLeft, Plain!NoticeLeft
<1>11. Acknowledge(c) => Plain!Acknowledge(c)
  BY <1>2 DEF Acknowledge, Plain!Acknowledge, Ended
<1> QED BY <1>1, <1>4, <1>5, <1>6, <1>7, <1>8, <1>9, <1>10, <1>11

LEMMA PlainTrigger ==
  ASSUME TypeOK, Inductive, NEW c \in Calls, TriggerRotate(c)
  PROVE  Plain!Trigger(c)
<1>1. Plain!FirstStage(store) = "create"
  BY DEF Plain!FirstStage, MicrosoftGraph, Profile
<1>2. pc[c] = "idle" /\ ~cancelled[c] /\ pc' = [pc EXCEPT ![c] = "create"]
  BY DEF TriggerRotate, Start, Inductive, CallKnown, StagesKnown
<1>3. Plain!Start(c, Plain!FirstStage(store))
  BY <1>1, <1>2, StageMoves DEF TriggerRotate, Start, Plain!Start
<1>4. Plain!Send(c, Plain!FirstStage(store))
  BY <1>1, <1>2 DEF TriggerRotate, Plain!Send, Plain!Requests
<1>5. UNCHANGED <<issued, live, made, revoking>>
  BY DEF TriggerRotate
<1> QED BY <1>3, <1>4, <1>5 DEF Plain!Trigger

\* A revocation that has something to remove owes it from the start.
LEMMA PlainTriggerRevoke ==
  ASSUME TypeOK, Inductive, NEW c \in Calls, TriggerRevoke(c)
  PROVE  Plain!TriggerRevoke(c)
<1> DEFINE first == IF store.id # 0 THEN "delete" ELSE "reply"
<1>1. Plain!RevokeStage(store) = first
  BY DEF Plain!RevokeStage, MicrosoftGraph, Profile
<1>2. /\ pc[c] = "idle" /\ ~cancelled[c] /\ pc' = [pc EXCEPT ![c] = first]
      /\ due' = IF first = "delete" THEN due \union {<<"delete", c>>} ELSE due
  BY DEF TriggerRevoke, Start, Inductive, CallKnown, StagesKnown
<1>3. Plain!Start(c, Plain!RevokeStage(store))
  BY <1>1, <1>2, StageMoves DEF TriggerRevoke, Start, Plain!Start
<1>4. Plain!Send(c, Plain!RevokeStage(store))
  BY <1>1, <1>2 DEF Plain!Send, Plain!Requests
<1>5. UNCHANGED <<issued, live, made>> /\ revoking' = revoking \union {c}
  BY DEF TriggerRevoke
<1> QED BY <1>3, <1>4, <1>5 DEF Plain!TriggerRevoke

LEMMA PlainCreateSucceeds ==
  ASSUME TypeOK, Inductive, NEW c \in Calls, CreateSucceeds(c)
  PROVE  Plain!CreateSucceeds(c)
<1> DEFINE after == IF old[c].id = 0 THEN "reply" ELSE "delete"
<1>1. /\ pc[c] = "create" /\ made[c] # 0
      /\ pc' = [pc EXCEPT ![c] = after]
      /\ new' = [new EXCEPT ![c] = Payload(made[c])]
      /\ due' = IF after = "delete" /\ ~cancelled[c] THEN due \union {<<"delete", c>>} ELSE due
      /\ UNCHANGED <<store, old, awaited, cancelled, issued, live, made, revoking>>
  BY DEF CreateSucceeds, GoOn
<1>2. Plain!AfterCreate(c) = after
  BY DEF Plain!AfterCreate, MicrosoftGraph, Profile
<1>3. PICK body \in Plain!Bodies(made[c]) : body = [id |-> made[c], key |-> made[c]]
  BY DEF Plain!Bodies, Plain!Payload, Plain!Handles, MicrosoftGraph, Profile
<1>4. Plain!Accepts(c, body)
  BY <1>1, <1>3 DEF Plain!Accepts, MicrosoftGraph, Profile, GraphCreated
<1>5. Plain!GoOn(c, Plain!AfterCreate(c), body)
  BY <1>1, <1>2, <1>3, StageMoves DEF Plain!GoOn, Payload
<1>6. Plain!Send(c, Plain!AfterCreate(c))
  BY <1>1, <1>2 DEF Plain!Send, Plain!Requests
<1> QED BY <1>1, <1>4, <1>5, <1>6 DEF Plain!CreateSucceeds

LEMMA PlainDeleteReturns ==
  ASSUME TypeOK, Inductive, NEW c \in Calls, c \notin revoking, Removed(c) \/ RemovalFails(c)
  PROVE  Plain!DeleteReturns(c)
<1>1. /\ pc[c] \in {"delete", "backoff"}
      /\ pc' = [pc EXCEPT ![c] = "reply"]
      /\ new' = [new EXCEPT ![c] = new[c]]
      /\ UNCHANGED <<store, old, awaited, cancelled, issued, live, made, due, revoking>>
  BY DEF Removed, RemovalFails, WithoutRemoval, GoOn, serviceVars
<1>2. Plain!AfterDelete = "reply"
  BY DEF Plain!AfterDelete, MicrosoftGraph, Profile
<1>3. Plain!GoOn(c, "reply", new[c])
  BY <1>1, StageMoves DEF Plain!GoOn
<1>4. Plain!Send(c, "reply")
  BY <1>1 DEF Plain!Send, Plain!Requests
<1> QED BY <1>1, <1>2, <1>3, <1>4 DEF Plain!DeleteReturns

\* A revocation goes on only when the secret is removed.
LEMMA PlainRevokeReturns ==
  ASSUME TypeOK, Inductive, NEW c \in Calls, c \in revoking, Removed(c) \/ RemovalFails(c)
  PROVE  Plain!RevokeReturns(c)
<1>1. /\ pc[c] \in {"delete", "backoff"}
      /\ UNCHANGED <<store, old, cancelled, issued, live, made, due, revoking>>
  BY DEF Removed, RemovalFails, WithoutRemoval, GoOn, Fail, serviceVars
<1>2. UNCHANGED Plain!serviceVars
  BY <1>1 DEF Plain!serviceVars
<1>3. CASE Removed(c)
  <2>1. old[c].id \notin live
    BY <1>3 DEF Removed, Succeeds, Inductive, CallKnown, TypeOK, Statuses, Gone, Missing, Conflict,
       Stumble
  <2>2. Plain!GoOn(c, "reply", new[c])
    BY <1>3, StageMoves DEF Removed, GoOn, Plain!GoOn
  <2> QED BY <1>1, <1>2, <2>1, <2>2 DEF Plain!RevokeReturns
<1>4. CASE RemovalFails(c)
  <2>1. Fail(c)
    BY <1>4 DEF RemovalFails, WithoutRemoval
  <2>2. Plain!Fail(c)
    BY <2>1, StageMoves DEF Fail, End, Plain!Fail, Plain!End
  <2>3. MicrosoftGraph.revoke = "strict"
    BY DEF MicrosoftGraph, Profile
  <2> QED BY <1>1, <1>2, <2>2, <2>3 DEF Plain!RevokeReturns
<1> QED BY <1>3, <1>4

LEMMA PlainServe ==
  ASSUME TypeOK, Inductive, Owed, NEW c \in Calls
  PROVE  /\ ServeCreate(c) => Plain!ServeCreate(c)
         /\ \A request \in Removals : ServeRemoval(c, request) =>
                Plain!ServeDelete(c) \/ UNCHANGED Plain!vars
<1>1. ASSUME ServeCreate(c) PROVE Plain!ServeCreate(c)
  <2>1. <<"create", c>> \in due
    BY <1>1 DEF ServeCreate, Owed
  <2>2. [d \in Calls |-> IF made[d] = 0 THEN 0 ELSE 200]'
          = [[d \in Calls |-> IF made[d] = 0 THEN 0 ELSE 200] EXCEPT ![c] = 200]
    <3>1. made'[c] # 0 /\ \A d \in Calls : d # c => made'[d] = made[d]
      BY <1>1 DEF ServeCreate, TypeOK
    <3> QED BY <3>1
  <2>3. UNCHANGED Plain!gatewayVars
    BY <1>1 DEF ServeCreate, gatewayVars, Plain!gatewayVars
  <2> QED BY <1>1, <2>1, <2>2, <2>3 DEF ServeCreate, Plain!ServeCreate, Plain!SuccessStatuses
<1>2. ASSUME NEW request \in Removals, ServeRemoval(c, request)
      PROVE  Plain!ServeDelete(c) \/ UNCHANGED Plain!vars
  <2>1. /\ <<request, c>> \in wire /\ due' = due \ {<<"delete", c>>} /\ live' = live \ {old[c].id}
        /\ UNCHANGED <<store, pc, old, new, awaited, cancelled, issued, made, revoking>>
    BY <1>2 DEF ServeRemoval, PrevKeyID, gatewayVars
  <2>2. <<"delete", c>> \in due \/ old[c].id \notin live
    BY <1>2, <2>1 DEF Owed, Owing, Removing
  <2>3. CASE <<"delete", c>> \in due
    BY <2>1, <2>3 DEF Plain!ServeDelete, Plain!gatewayVars
  <2>4. CASE <<"delete", c>> \notin due /\ old[c].id \notin live
    <3>1. due' = due /\ live' = live
      BY <2>1, <2>4
    <3> QED BY <2>1, <3>1 DEF Plain!vars, Plain!gatewayVars, Plain!serviceVars
  <2> QED BY <2>2, <2>3, <2>4
<1> QED BY <1>1, <1>2

LEMMA PlainStep ==
  ASSUME TypeOK, Inductive, Owed, [Next]_vars
  PROVE  [Plain!Next]_(Plain!vars)
<1>s. ASSUME UNCHANGED <<store, issued, live, due, made, old, new, awaited, cancelled, revoking>>,
             [d \in Calls |-> IF pc[d] = "backoff" THEN "delete" ELSE pc[d]]'
               = [d \in Calls |-> IF pc[d] = "backoff" THEN "delete" ELSE pc[d]]
      PROVE  UNCHANGED Plain!vars
  BY <1>s DEF Plain!vars, Plain!gatewayVars, Plain!serviceVars
<1>1. ASSUME NEW c \in Calls, TriggerRotate(c) PROVE Plain!Next
  BY <1>1, PlainTrigger DEF Plain!Next
<1>2. ASSUME NEW c \in Calls, TriggerRevoke(c) PROVE Plain!Next
  BY <1>2, PlainTriggerRevoke DEF Plain!Next
<1>3. ASSUME NEW c \in Calls, Progress(c) PROVE Plain!Next \/ UNCHANGED Plain!vars
  <2>1. CASE CreateSucceeds(c)
    BY <2>1, PlainCreateSucceeds DEF Plain!Next, Plain!Progress
  <2>2. CASE CreateFails(c)
    BY <2>2, PlainGateway DEF CreateFails, Plain!Next, Plain!Progress
  <2>3. CASE Removed(c) \/ RemovalFails(c)
    BY <2>3, PlainDeleteReturns, PlainRevokeReturns DEF Plain!Next, Plain!Progress
  <2>4. CASE BackOff(c) \/ Retry(c)
    <3>1. UNCHANGED <<store, issued, live, due, made, old, awaited, cancelled, revoking>>
      BY <2>4 DEF BackOff, Retry, GoOn, serviceVars
    <3>2. new' = new
      BY <2>4 DEF BackOff, Retry, GoOn, TypeOK
    <3>3. [d \in Calls |-> IF pc[d] = "backoff" THEN "delete" ELSE pc[d]]'
            = [d \in Calls |-> IF pc[d] = "backoff" THEN "delete" ELSE pc[d]]
      BY <2>4 DEF BackOff, Retry, GoOn, TypeOK
    <3> QED BY <1>s, <3>1, <3>2, <3>3
  <2>5. CASE Return(c) /\ UNCHANGED serviceVars
    BY <2>5, PlainGateway DEF Return, Plain!Next, Plain!Progress, Plain!Return
  <2> QED BY <1>3, <2>1, <2>2, <2>3, <2>4, <2>5 DEF Progress
<1>4. ASSUME NEW c \in Calls, ServeCreate(c) PROVE Plain!Next
  BY <1>4, PlainServe DEF Plain!Next
<1>5. ASSUME NEW c \in Calls, NEW request \in Removals, ServeRemoval(c, request)
      PROVE  Plain!Next \/ UNCHANGED Plain!vars
  BY <1>5, PlainServe DEF Plain!Next
<1>6. ASSUME NEW c \in Calls,
             StumbleOverRemoval(c) \/ \E request \in Removals : RefuseRemoval(c, request)
      PROVE  UNCHANGED Plain!vars
  <2>1. UNCHANGED <<store, pc, old, new, awaited, cancelled, issued, live, made, due, revoking>>
    BY <1>6 DEF StumbleOverRemoval, RefuseRemoval, gatewayVars
  <2> QED BY <1>s, <2>1
<1>7. ASSUME NEW c \in Calls, UNCHANGED serviceVars,
             Refuse(c) \/ GiveUp(c) \/ NoticeLeft(c) \/ Die(c)
      PROVE  Plain!Next
  BY <1>7, PlainGateway DEF Plain!Next
<1>8. CASE UNCHANGED vars
  BY <1>s, <1>8 DEF vars, gatewayVars, serviceVars
<1> QED BY <1>1, <1>2, <1>3, <1>4, <1>5, <1>6, <1>7, <1>8 DEF Next

\* With its Revoke, this is one of Rotation's create-before-delete targets, whatever
\* becomes of the attempts: what is proved there holds here.
THEOREM ImplementsRotationAlways == Spec => ImplementsRotation
<1>1. Spec => []Owed
  BY InitOwed, OwedStep, Invariant, PTL DEF Spec
<1>2. TypeOK /\ Inductive /\ Owed /\ [Next]_vars => [Plain!Next]_(Plain!vars)
  BY PlainStep
<1> QED BY <1>1, <1>2, PlainInit, Invariant, PTL DEF Spec, ImplementsRotation, Plain!Spec

-----------------------------------------------------------------------------
\* The pool of credentials whose published one may be revoked.

Revoked == {old[d].id : d \in revoking} \ {0}

LEMMA PoolInit == Init => Pool!RevocableInit
  BY DEF Init, Pool!RevocableInit, Pool!PoolInit

\* A revocation names what is in the store when it is sent; no other call adds a name.
LEMMA PoolTrigger ==
  ASSUME TypeOK, Inductive, NEW c \in Calls, TriggerRotate(c) \/ TriggerRevoke(c)
  PROVE  [Pool!RevocableNext]_(Pool!revocableVars)
<1>1. /\ UNCHANGED <<store, issued, live>> /\ c \notin revoking /\ store.id \in {0, store.key}
      /\ old'[c] = store
      /\ \A d \in Calls : d # c => old'[d] = old[d]
  BY DEF TriggerRotate, TriggerRevoke, Start, Inductive, CallKnown, StagesKnown, StoreKnown, Stored,
         TypeOK
<1>2. CASE TriggerRotate(c)
  <2>1. revoking' = revoking
    BY <1>2 DEF TriggerRotate
  <2>2. Revoked' = Revoked
    BY <1>1, <2>1 DEF Revoked, TypeOK
  <2> QED BY <1>1, <2>2 DEF Pool!revocableVars, Pool!poolVars, Revoked
<1>3. CASE TriggerRevoke(c)
  <2>1. revoking' = revoking \union {c}
    BY <1>3 DEF TriggerRevoke
  <2>2. Revoked' = (Revoked \union {store.id}) \ {0}
    <3>1. \A d \in revoking : d # c /\ old'[d] = old[d]
      BY <1>1 DEF TypeOK
    <3> QED BY <1>1, <2>1, <3>1 DEF Revoked
  <2>3. CASE store.id = 0
    <3>1. Revoked' = Revoked
      BY <2>2, <2>3 DEF Revoked
    <3> QED BY <1>1, <3>1 DEF Pool!revocableVars, Pool!poolVars, Revoked
  <2>4. CASE store.id # 0
    <3>1. Revoked' = Revoked \union {store.key}
      BY <1>1, <2>2, <2>4 DEF Revoked
    <3>2. Pool!Order
      BY <1>1, <3>1 DEF Pool!Order, Pool!poolVars, Revoked
    <3> QED BY <3>2 DEF Pool!RevocableNext
  <2> QED BY <2>3, <2>4
<1> QED BY <1>2, <1>3

\* A removal hits what was to be revoked, or what its rotation has superseded.
LEMMA PoolRemoval ==
  ASSUME TypeOK, Inductive, NEW c \in Calls, NEW request \in Removals, ServeRemoval(c, request)
  PROVE  [Pool!RevocableNext]_(Pool!revocableVars)
<1>1. /\ live' = live \ {old[c].id} /\ Removing(c)
      /\ UNCHANGED <<store, old, issued, revoking>> /\ UNCHANGED Revoked
  BY DEF ServeRemoval, PrevKeyID, gatewayVars, Removing, Revoked
<1>2. CASE old[c].id \notin live
  BY <1>1, <1>2 DEF Pool!revocableVars, Pool!poolVars, Revoked
<1>3. CASE old[c].id \in live /\ c \in revoking
  <2>1. old[c].id # 0
    BY <1>3 DEF TypeOK
  <2>2. old[c].id \in Revoked
    BY <1>3, <2>1 DEF Revoked
  <2>3. Pool!Revoke(old[c].id)
    BY <1>1, <2>2 DEF Pool!Revoke, Revoked
  <2> QED BY <1>3, <2>3 DEF Pool!RevocableNext
<1>4. CASE old[c].id \in live /\ c \notin revoking
  <2>1. /\ made[c] # 0 /\ old[c].key < made[c] /\ old[c].id \in {0, old[c].key}
    BY <1>1, <1>4 DEF Inductive, CallKnown, RotationKnown, MadeKnown, Stored
  <2>2. old[c].id < issued
    BY <1>4, <2>1 DEF TypeOK, PayloadType
  <2>3. Pool!Retire(old[c].id)
    BY <1>1, <2>2 DEF Pool!Retire
  <2> QED BY <1>1, <1>4, <2>3 DEF Pool!RevocableNext, Pool!PoolNext, Revoked
<1> QED BY <1>2, <1>3, <1>4

\* What is delivered works.
LEMMA PoolDeliver ==
  ASSUME TypeOK, Inductive, NEW c \in Calls, c \notin revoking, Deliver(c), UNCHANGED serviceVars
  PROVE  [Pool!RevocableNext]_(Pool!revocableVars)
<1>1. /\ store' = new[c] /\ pc[c] = "reply"
      /\ UNCHANGED <<old, issued, live, revoking>> /\ UNCHANGED Revoked
  BY DEF Deliver, serviceVars, Revoked
<1>2. store'.key \in live
  <2>1. RotationKnown(c) /\ MadeKnown(c)
    BY DEF Inductive, CallKnown
  <2>2. made[c] \in live /\ new[c] = Payload(made[c])
    BY <1>1, <2>1 DEF RotationKnown, MadeKnown
  <2> QED BY <1>1, <2>2 DEF Payload
<1>3. Pool!Publish(store'.key)
  BY <1>1, <1>2 DEF Pool!Publish
<1> QED BY <1>1, <1>2, <1>3 DEF Pool!RevocableNext, Pool!PoolNext, Revoked

LEMMA PoolStep ==
  ASSUME TypeOK, Inductive, [Next]_vars
  PROVE  [Pool!RevocableNext]_(Pool!revocableVars)
<1>s. ASSUME UNCHANGED <<store, old, issued, live, revoking>>
      PROVE  UNCHANGED Pool!revocableVars
  BY <1>s DEF Pool!revocableVars, Pool!poolVars
<1>1. ASSUME NEW c \in Calls, ServeCreate(c) PROVE Pool!RevocableNext
  <2>1. Pool!Issue /\ UNCHANGED Revoked
    BY <1>1 DEF ServeCreate, gatewayVars, Pool!Issue, Revoked
  <2> QED BY <2>1 DEF Pool!RevocableNext, Pool!PoolNext, Revoked
<1>2. ASSUME NEW c \in Calls, Progress(c) PROVE [Pool!RevocableNext]_(Pool!revocableVars)
  <2>1. CASE c \notin revoking /\ Deliver(c) /\ UNCHANGED serviceVars
    BY <2>1, PoolDeliver
  <2>2. CASE CreateSucceeds(c) \/ CreateFails(c) \/ Removed(c) \/ RemovalFails(c) \/ BackOff(c)
               \/ Retry(c) \/ ((Acknowledge(c) \/ Drop(c)) /\ UNCHANGED serviceVars)
    BY <1>s, <2>2 DEF CreateSucceeds, CreateFails, Removed, RemovalFails, WithoutRemoval, BackOff,
       Retry, Acknowledge, Drop, GoOn, Fail, serviceVars
  <2> QED BY <1>2, <2>1, <2>2 DEF Progress, Return
<1>3. ASSUME NEW c \in Calls,
             \/ StumbleOverRemoval(c) \/ \E request \in Removals : RefuseRemoval(c, request)
             \/ (Refuse(c) \/ GiveUp(c) \/ NoticeLeft(c) \/ Die(c)) /\ UNCHANGED serviceVars
      PROVE  UNCHANGED Pool!revocableVars
  BY <1>s, <1>3 DEF StumbleOverRemoval, RefuseRemoval, Refuse, GiveUp, NoticeLeft, Die, gatewayVars,
     serviceVars
<1>4. CASE UNCHANGED vars
  BY <1>s, <1>4 DEF vars, gatewayVars, serviceVars
<1> QED BY <1>1, <1>2, <1>3, <1>4, PoolTrigger, PoolRemoval DEF Next

\* With revocations under way, too, a Rotate removes only a secret that is superseded and a
\* Revoke only one that was stored when it was sent, however late, and a reply stores one
\* that works.
THEOREM Refinement == Spec => RefinesPool
<1>1. TypeOK /\ Inductive /\ [Next]_vars => [Pool!RevocableNext]_(Pool!revocableVars)
  BY PoolStep
<1> QED BY <1>1, PoolInit, Invariant, PTL DEF Spec, RefinesPool, Pool!RevocableSpec

-----------------------------------------------------------------------------
\* Why the retries end.

\* Steps that leave a call's stage and its attempts alone leave its count alone.
LEMMA SameCount ==
  ASSUME NEW c \in Calls, pc'[c] = pc[c], tries'[c] = tries[c]
  PROVE  StepsLeft(c)' = StepsLeft(c)
BY DEF StepsLeft

\* A call counts down to its end, which is zero.
LEMMA CountType ==
  ASSUME TypeOK, Inductive, NEW c \in Calls
  PROVE  /\ StepsLeft(c) \in Nat
         /\ Running(c) => StepsLeft(c) > 0
         /\ pc[c] \in Ended => StepsLeft(c) = 0
<1>1. /\ pc[c] \in Stages /\ tries[c] \in 0..MaxAttempts
      /\ pc[c] = "backoff" => tries[c] < MaxAttempts
  BY DEF TypeOK, Inductive, CallKnown, StagesKnown
<1> QED BY <1>1 DEF StepsLeft, Stages, Ended, Running

LEMMA CountDown ==
  ASSUME TypeOK, Inductive, NEW c \in Calls, Progress(c)
  PROVE  /\ StepsLeft(c)' \in Nat /\ StepsLeft(c)' < StepsLeft(c)
         /\ \A d \in Calls \ {c} : StepsLeft(d)' = StepsLeft(d)
<1>0. /\ pc \in [Calls -> Stages] /\ tries \in [Calls -> 0..MaxAttempts]
      /\ pc[c] = "create" => tries[c] = 0
      /\ pc[c] = "backoff" => tries[c] < MaxAttempts
  BY DEF TypeOK, Inductive, CallKnown, StagesKnown
<1>1. CASE CreateSucceeds(c)
  <2>1. /\ pc[c] = "create"
        /\ \/ pc' = [pc EXCEPT ![c] = "reply"] /\ tries' = tries
           \/ pc' = [pc EXCEPT ![c] = "delete"] /\ tries' = [tries EXCEPT ![c] = @ + 1]
    BY <1>1 DEF CreateSucceeds, GoOn, Attempt
  <2> QED BY <1>0, <2>1, SameCount DEF StepsLeft
<1>2. CASE Retry(c)
  <2>1. /\ pc[c] = "backoff" /\ pc' = [pc EXCEPT ![c] = "delete"]
        /\ tries' = [tries EXCEPT ![c] = @ + 1]
    BY <1>2 DEF Retry, GoOn, Attempt
  <2> QED BY <1>0, <2>1, SameCount DEF StepsLeft
<1>3. CASE BackOff(c)
  <2>1. pc[c] = "delete" /\ pc' = [pc EXCEPT ![c] = "backoff"] /\ tries' = tries
    BY <1>3 DEF BackOff, GoOn, serviceVars
  <2> QED BY <1>0, <2>1, SameCount DEF StepsLeft
<1>4. CASE \/ CreateFails(c) \/ Removed(c) \/ RemovalFails(c)
           \/ Return(c) /\ UNCHANGED serviceVars
  <2>1. /\ pc[c] \in {"create", "delete", "backoff", "reply"} /\ tries' = tries
        /\ \E stage \in {"reply"} \union Ended :
               /\ pc' = [pc EXCEPT ![c] = stage]
               /\ pc[c] = "reply" => stage # "reply"
    BY <1>4 DEF CreateFails, Removed, RemovalFails, WithoutRemoval, Return, Deliver, Acknowledge,
       Drop, GoOn, Fail, End, Ended, serviceVars
  <2> QED BY <1>0, <2>1, SameCount DEF StepsLeft, Ended
<1> QED BY <1>1, <1>2, <1>3, <1>4 DEF Progress

LEMMA CountStep ==
  ASSUME TypeOK, Inductive, [Next]_vars
  PROVE  \A c \in Calls : StepsLeft(c)' <= StepsLeft(c)
<1>0. /\ pc \in [Calls -> Stages] /\ tries \in [Calls -> 0..MaxAttempts]
      /\ \A d \in Calls : pc[d] = "idle" => tries[d] = 0
      /\ \A d \in Calls : StepsLeft(d) \in Nat
  BY CountType DEF TypeOK, Inductive, CallKnown, StagesKnown
<1>1. ASSUME NEW c \in Calls, Progress(c) PROVE \A d \in Calls : StepsLeft(d)' <= StepsLeft(d)
  <2>1. /\ StepsLeft(c)' \in Nat /\ StepsLeft(c)' < StepsLeft(c)
        /\ \A d \in Calls \ {c} : StepsLeft(d)' = StepsLeft(d)
    BY <1>1, CountDown
  <2> QED BY <1>0, <2>1
<1>2. ASSUME NEW c \in Calls, TriggerRotate(c) \/ TriggerRevoke(c)
      PROVE  \A d \in Calls : StepsLeft(d)' <= StepsLeft(d)
  <2>1. /\ pc[c] = "idle"
        /\ \/ pc' = [pc EXCEPT ![c] = "create"] /\ tries' = tries
           \/ pc' = [pc EXCEPT ![c] = "reply"] /\ tries' = tries
           \/ pc' = [pc EXCEPT ![c] = "delete"] /\ tries' = [tries EXCEPT ![c] = @ + 1]
    BY <1>2 DEF TriggerRotate, TriggerRevoke, Start, Attempt
  <2>2. StepsLeft(c)' <= StepsLeft(c)
    BY <1>0, <2>1 DEF StepsLeft
  <2> QED BY <1>0, <2>1, <2>2, SameCount
<1>3. ASSUME NEW c \in Calls,
             (Refuse(c) \/ GiveUp(c) \/ NoticeLeft(c) \/ Die(c)) /\ UNCHANGED serviceVars
      PROVE  \A d \in Calls : StepsLeft(d)' <= StepsLeft(d)
  <2>1. /\ tries' = tries
        /\ \/ pc' = pc
           \/ \E stage \in Ended : pc' = [pc EXCEPT ![c] = stage]
    BY <1>3 DEF Refuse, GiveUp, NoticeLeft, Die, End, Ended, serviceVars
  <2>2. StepsLeft(c)' = StepsLeft(c) \/ StepsLeft(c)' = 0
    BY <1>0, <2>1 DEF StepsLeft, Ended
  <2> QED BY <1>0, <2>1, <2>2, SameCount
<1>4. ASSUME UNCHANGED <<pc, tries>> PROVE \A d \in Calls : StepsLeft(d)' <= StepsLeft(d)
  BY <1>0, <1>4, SameCount
<1>5. ASSUME NEW c \in Calls,
             \/ ServeCreate(c) \/ StumbleOverRemoval(c)
             \/ \E request \in Removals : ServeRemoval(c, request) \/ RefuseRemoval(c, request)
      PROVE  UNCHANGED <<pc, tries>>
  BY <1>5 DEF ServeCreate, StumbleOverRemoval, ServeRemoval, RefuseRemoval, gatewayVars
<1>6. CASE UNCHANGED vars
  BY <1>4, <1>6 DEF vars, gatewayVars, serviceVars
<1> QED BY <1>1, <1>2, <1>3, <1>4, <1>5, <1>6 DEF Next

\* For any number of attempts, and whatever Graph answers and the gateway does, a call
\* takes no more steps than a pause and an attempt for each attempt it is allowed.
THEOREM RetriesAlwaysRunOut == Spec => RetriesRunOut
<1>1. ASSUME TypeOK, Inductive, [Next]_vars
      PROVE  \A c \in Calls : /\ StepsLeft(c)' <= StepsLeft(c)
                              /\ Progress(c) => StepsLeft(c)' < StepsLeft(c)
  BY <1>1, CountStep, CountDown
<1>2. TypeOK /\ Inductive /\ [Next]_vars
        => [\A c \in Calls : /\ StepsLeft(c)' <= StepsLeft(c)
                             /\ Progress(c) => StepsLeft(c)' < StepsLeft(c)]_vars
  BY <1>1
<1> QED BY <1>2, Invariant, PTL DEF Spec, RetriesRunOut

=============================================================================
