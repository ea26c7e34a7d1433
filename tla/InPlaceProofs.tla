--------------------------- MODULE InPlaceProofs ---------------------------
(***************************************************************************)
(* Proofs of the safety properties of InPlace for every set of calls and   *)
(* every set of targets that replace a credential where it is.             *)
(***************************************************************************)
EXTENDS InPlace, TLAPS

USE InPlaceAssumption, GatewayAssumption

-----------------------------------------------------------------------------
\* Facts about the building blocks of the actions.

\* Sending adds at most the one request of the stage to those under way.
LEMMA SendEffect ==
    ASSUME TypeOK, NEW c \in Calls, NEW stage \in Stages, Send(c, stage)
    PROVE  /\ wire' \subseteq Requests \X Calls
           /\ \A d \in Calls \ {c}, r \in Requests : <<r, d>> \in wire' <=> <<r, d>> \in wire
           /\ \A r \in Requests : <<r, c>> \in wire' => r = stage \/ <<r, c>> \in wire
BY DEF Send, TypeOK, Requests

\* The stages that follow another one are stages.
LEMMA StagesType ==
    /\ FirstStage \in {"prepare", "replace"}
    /\ \A c \in Calls, body \in PayloadType : AfterReplace(c, body) \in {"clean", "reply"}
BY DEF FirstStage, AfterReplace

\* What an id says of the credential.
LEMMA IdType ==
    ASSUME profile \in KindType
    PROVE  \A k \in Nat : /\ IdOf(k) \in Nat
                         /\ \/ profile.id = "none" /\ IdOf(k) = 0
                            \/ profile.id = "fresh" /\ IdOf(k) = k
                            \/ profile.id = "kept" /\ IdOf(k) = 1
BY DEF IdOf, KindType

LEMMA ProfileType == TypeOK => profile \in KindType
BY DEF TypeOK

\* Answers are payloads, made of parts of the credential and its id.
LEMMA BodiesType ==
    ASSUME TypeOK, NEW c \in Calls, NEW body \in Bodies(c)
    PROVE  /\ body \in PayloadType
           /\ body.id \in {0, IdOf(made[c])} /\ body.key \in {0, made[c]}
           /\ profile.whole => body = Payload(made[c])
<1>1. made[c] \in Nat /\ IdOf(made[c]) \in Nat
  BY IdType, ProfileType DEF TypeOK
<1>2. CASE profile.whole
  BY <1>1, <1>2 DEF Bodies, Payload, PayloadType
<1>3. CASE ~profile.whole
  BY <1>1, <1>3 DEF Bodies, PayloadType
<1>4. QED
  BY <1>2, <1>3

\* An answer changes nothing but the call's own stage and payload.
LEMMA AnswerEffect ==
    ASSUME TypeOK, NEW c \in Calls, ReplaceSucceeds(c)
    PROVE  /\ UNCHANGED <<profile, store, old, awaited, current, issued, made>>
           /\ pc[c] = "replace" /\ pc'[c] \in {"clean", "reply"}
           /\ \A d \in Calls \ {c} : pc'[d] = pc[d] /\ new'[d] = new[d]
<1>1. PICK body \in Bodies(c) : GoOn(c, AfterReplace(c, body), body)
  BY DEF ReplaceSucceeds
<1>2. AfterReplace(c, body) \in {"clean", "reply"}
  BY BodiesType, StagesType
<1>3. QED
  BY <1>1, <1>2 DEF ReplaceSucceeds, GoOn, TypeOK

-----------------------------------------------------------------------------

LEMMA TypeInit == Init => TypeOK
<1> SUFFICES ASSUME Init PROVE TypeOK
  OBVIOUS
<1>1. IdOf(1) \in Nat
  BY IdType DEF Init
<1>2. QED
  BY <1>1 DEF Init, GatewayInit, TypeOK, Payload, Blank, PayloadType, Stages

LEMMA TypeStep == TypeOK /\ [Next]_vars => TypeOK'
<1> SUFFICES ASSUME TypeOK, [Next]_vars
             PROVE  TypeOK'
  OBVIOUS
<1> USE DEF TypeOK, Stages, Requests, Ended
<1>1. ASSUME NEW c \in Calls, ServeReplace(c) PROVE TypeOK'
  BY <1>1 DEF ServeReplace, gatewayVars
<1>2. ASSUME NEW c \in Calls, ServeClean(c) PROVE TypeOK'
  BY <1>2 DEF ServeClean, gatewayVars
<1>3. ASSUME NEW c \in Calls, Trigger(c) PROVE TypeOK'
  BY <1>3, StagesType, SendEffect DEF Trigger, Start
<1>4. ASSUME NEW c \in Calls, Prepared(c) PROVE TypeOK'
  BY <1>4, SendEffect DEF Prepared, GoOn
<1>5. ASSUME NEW c \in Calls, ReplaceSucceeds(c) PROVE TypeOK'
  <2>1. PICK body \in Bodies(c) : /\ GoOn(c, AfterReplace(c, body), body)
                                  /\ Send(c, AfterReplace(c, body))
    BY <1>5 DEF ReplaceSucceeds
  <2>2. body \in PayloadType /\ AfterReplace(c, body) \in {"clean", "reply"}
    BY BodiesType, StagesType
  <2>3. QED
    BY <1>5, <2>1, <2>2, SendEffect DEF ReplaceSucceeds, GoOn
<1>6. ASSUME NEW c \in Calls, ReplaceFails(c) PROVE TypeOK'
  BY <1>6 DEF ReplaceFails, Fail, End, serviceVars
<1>7. ASSUME NEW c \in Calls, CleanReturns(c) PROVE TypeOK'
  BY <1>7 DEF CleanReturns, GoOn, serviceVars
<1>8. ASSUME NEW c \in Calls, Refuse(c), UNCHANGED serviceVars PROVE TypeOK'
  BY <1>8 DEF Refuse, End, serviceVars
<1>9. ASSUME NEW c \in Calls, GiveUp(c), UNCHANGED serviceVars PROVE TypeOK'
  BY <1>9 DEF GiveUp, serviceVars
<1>10. ASSUME NEW c \in Calls, NoticeLeft(c), UNCHANGED serviceVars PROVE TypeOK'
  BY <1>10 DEF NoticeLeft, serviceVars
<1>11. ASSUME NEW c \in Calls, Deliver(c), UNCHANGED serviceVars PROVE TypeOK'
  BY <1>11 DEF Deliver, End, serviceVars
<1>12. ASSUME NEW c \in Calls, Drop(c), UNCHANGED serviceVars PROVE TypeOK'
  BY <1>12 DEF Drop, End, serviceVars
<1>13. ASSUME NEW c \in Calls, Die(c), UNCHANGED serviceVars PROVE TypeOK'
  BY <1>13 DEF Die, End, serviceVars
<1>14. CASE UNCHANGED vars
  BY <1>14 DEF vars, gatewayVars, serviceVars
<1>15. QED
  BY <1>1, <1>2, <1>3, <1>4, <1>5, <1>6, <1>7, <1>8, <1>9, <1>10, <1>11,
     <1>12, <1>13, <1>14 DEF Next

\* Every variable keeps its type.
THEOREM TypeCorrect == Spec => []TypeOK
BY TypeInit, TypeStep, PTL DEF Spec

-----------------------------------------------------------------------------

\* The invariant is inductive: each step re-establishes every part of it.
LEMMA InductiveInit == Init => Inductive
<1> SUFFICES ASSUME Init PROVE Inductive
  OBVIOUS
<1>0. profile \in KindType
  BY DEF Init
<1>1. /\ IdOf(1) \in Nat
      /\ \/ profile.id = "none" /\ IdOf(1) = 0
         \/ profile.id = "fresh" /\ IdOf(1) = 1
         \/ profile.id = "kept" /\ IdOf(1) = 1
  BY <1>0, IdType
<1>2. store.key = 1 /\ Matches(store)
  BY <1>1 DEF Init, Matches, IdKnown, Payload
<1>3. ASSUME NEW c \in Calls PROVE Bookkeeping(c) /\ Unshared(c) /\ Replaced(c)
  BY DEF Init, GatewayInit, Bookkeeping, Matches, IdKnown, Unshared, Replaced, Blank
<1>4. QED
  BY <1>2, <1>3 DEF Init, GatewayInit, Inductive, AlwaysInForce, OneMaker, Origin, StoreOrigin

\* A call that goes on, or ends without leaving anything in the store, and forgets no
\* answer.
LEMMA MovesStep ==
    ASSUME TypeOK, Inductive, UNCHANGED <<profile, store, old, current, issued, made>>,
           NEW c \in Calls, pc[c] # "stored", pc'[c] # "stored",
           MayHaveRead(c) => MayHaveRead(c)' /\ new'[c] = new[c],
           \A d \in Calls \ {c} : /\ pc'[d] = pc[d] /\ new'[d] = new[d]
                                  /\ awaited'[d] = awaited[d]
                                  /\ \A r \in Requests : <<r, d>> \in wire' <=> <<r, d>> \in wire,
           Bookkeeping(c)'
    PROVE  Inductive'
<1>0. \A k : IdOf(k)' = IdOf(k) /\ Payload(k)' = Payload(k)
  BY DEF IdOf, Payload
<1>1. Emptied => Emptied'
  BY DEF Emptied, MayHaveRead
<1>2. AlwaysInForce' /\ Matches(store)'
  BY <1>1 DEF Inductive, AlwaysInForce, Matches, IdKnown
<1>3. ASSUME NEW d \in Calls, d # c PROVE Bookkeeping(d)'
  BY <1>0, <1>3 DEF Inductive, Bookkeeping, Matches, IdKnown, Answered, MayHaveRead, Requests
<1>4. ASSUME NEW d \in Calls PROVE Unshared(d)' /\ Replaced(d)'
  BY DEF Inductive, Unshared, Replaced
<1>5. OneMaker' /\ Origin'
  BY DEF Inductive, OneMaker, Origin
<1>6. StoreOrigin'
  BY DEF Inductive, StoreOrigin
<1>7. QED
  BY <1>2, <1>3, <1>4, <1>5, <1>6 DEF Inductive

\* A call that ends without leaving anything in the store.
LEMMA LeaveStep ==
    ASSUME TypeOK, Inductive, NEW c \in Calls, NEW outcome \in {"failed", "dead", "lost"},
           End(c, outcome), pc[c] # "stored",
           outcome = "failed" => ~MayHaveRead(c),
           outcome = "lost" => pc[c] = "reply",
           UNCHANGED <<store, old, new, serviceVars>>
    PROVE  Inductive'
<1>0. /\ UNCHANGED <<store, old, new, profile, current, issued, wire, made>>
      /\ pc'[c] = outcome /\ ~awaited'[c]
      /\ \A d \in Calls \ {c} : pc'[d] = pc[d] /\ awaited'[d] = awaited[d]
      /\ \A k : IdOf(k)' = IdOf(k) /\ Payload(k)' = Payload(k)
  BY DEF End, TypeOK, serviceVars, IdOf, Payload
<1>1. Bookkeeping(c)'
  BY <1>0 DEF Inductive, Bookkeeping, Matches, IdKnown, Answered, MayHaveRead
<1>2. QED
  BY <1>0, <1>1, MovesStep DEF MayHaveRead

LEMMA InductiveStep == TypeOK /\ Inductive /\ [Next]_vars => Inductive'
<1> SUFFICES ASSUME TypeOK, Inductive, [Next]_vars
             PROVE  Inductive'
  OBVIOUS
<1>0. /\ issued \in Nat \ {0}
      /\ store \in PayloadType
      /\ \A d \in Calls : /\ old[d] \in PayloadType
                           /\ new[d] \in PayloadType
                           /\ made[d] \in Nat
  BY DEF TypeOK
<1>a. \A k \in Nat : /\ IdOf(k) \in Nat
                     /\ \/ profile.id = "none" /\ IdOf(k) = 0
                        \/ profile.id = "fresh" /\ IdOf(k) = k
                        \/ profile.id = "kept" /\ IdOf(k) = 1
  BY IdType, ProfileType
\* No credential has a number beyond issued.
<1>b. /\ store.key \in 0..issued
      /\ \A d \in Calls : old[d].key \in 0..issued /\ made[d] \in 0..issued
  <2>1. Matches(store) /\ \A d \in Calls : Matches(old[d]) /\ made[d] \in {0} \union 2..issued
    BY DEF Inductive, Bookkeeping
  <2>2. QED
    BY <1>0, <2>1 DEF Matches, PayloadType
<1>1. ASSUME NEW c \in Calls, ServeReplace(c) PROVE Inductive'
  <2>0. /\ UNCHANGED <<profile, store, pc, old, new, awaited, cancelled>>
        /\ <<"replace", c>> \in wire
        /\ wire' = wire \ {<<"replace", c>>}
        /\ issued' = issued + 1 /\ current' = issued + 1
        /\ made'[c] = issued + 1
        /\ \A d \in Calls \ {c} : made'[d] = made[d]
        /\ \A k : IdOf(k)' = IdOf(k) /\ Payload(k)' = Payload(k)
    BY <1>1 DEF ServeReplace, gatewayVars, TypeOK, IdOf, Payload
  <2>a. /\ made[c] = 0 /\ <<"clean", c>> \notin wire
        /\ pc[c] \notin {"idle", "prepare", "clean", "reply", "stored", "lost"}
    BY <2>0 DEF Inductive, Bookkeeping, Answered
  <2>1. AlwaysInForce' /\ Matches(store)'
    BY <1>0, <2>0 DEF AlwaysInForce, Inductive, Matches, IdKnown, PayloadType
  <2>2. ASSUME NEW d \in Calls PROVE Bookkeeping(d)'
    <3>0. Matches(old[d])'
      <4>1. Matches(old[d]) /\ old[d].id \in Nat /\ old[d].key \in Nat
        BY <1>0 DEF Inductive, Bookkeeping, PayloadType
      <4>2. QED
        BY <1>0, <2>0, <4>1 DEF Matches, IdKnown
    <3>1. CASE d = c
      BY <1>0, <1>b, <2>0, <2>a, <3>0, <3>1
         DEF Inductive, Bookkeeping, Matches, IdKnown, PayloadType
    <3>2. CASE d # c
      BY <1>0, <1>b, <2>0, <3>0, <3>2
         DEF Inductive, Bookkeeping, Answered, MayHaveRead
    <3>3. QED
      BY <3>1, <3>2
  <2>3. ASSUME NEW d \in Calls PROVE Unshared(d)' /\ Replaced(d)'
    <3>1. Unshared(d) /\ Replaced(d)
      BY DEF Inductive
    <3>2. profile.id = "fresh" => /\ store.id # issued + 1
                                  /\ \A e \in Calls : old[e].id # issued + 1
      <4>1. /\ Matches(store) /\ store.id \in Nat
            /\ \A e \in Calls : Matches(old[e]) /\ old[e].id \in Nat
        BY <1>0 DEF Inductive, Bookkeeping, PayloadType
      <4>2. QED
        BY <1>0, <4>1 DEF Matches, IdKnown
    <3>3. QED
      BY <1>0, <1>b, <2>0, <2>a, <3>1, <3>2 DEF Unshared, Replaced
  <2>4. OneMaker'
    <3>1. OneMaker
      BY DEF Inductive
    <3>2. QED
      BY <1>0, <1>b, <2>0, <3>1 DEF OneMaker
  <2>5. Origin'
    <3>1. Origin
      BY DEF Inductive
    <3>2. ASSUME NEW k \in 2..(issued + 1) PROVE \E d \in Calls : made'[d] = k
      <4>1. CASE k = issued + 1
        BY <2>0, <4>1
      <4>2. CASE k # issued + 1
        <5>1. PICK d \in Calls : made[d] = k
          BY <1>0, <3>1, <4>2 DEF Origin
        <5>2. d # c
          BY <2>a, <5>1
        <5>3. QED
          BY <2>0, <5>1, <5>2
      <4>3. QED
        BY <4>1, <4>2
    <3>3. QED
      BY <2>0, <3>2 DEF Origin
  <2>6. StoreOrigin'
    BY <2>0 DEF Inductive, StoreOrigin
  <2>7. QED
    BY <2>1, <2>2, <2>3, <2>4, <2>5, <2>6 DEF Inductive
<1>2. ASSUME NEW c \in Calls, ServeClean(c) PROVE Inductive'
  <2>0. /\ UNCHANGED <<profile, store, pc, old, new, awaited, cancelled, issued, made>>
        /\ <<"clean", c>> \in wire
        /\ wire' = wire \ {<<"clean", c>>}
        /\ current' = current \/ (current' = 0 /\ IdOf(current) = old[c].id)
        /\ \A k : IdOf(k)' = IdOf(k) /\ Payload(k)' = Payload(k)
    BY <1>2 DEF ServeClean, gatewayVars, IdOf, Payload
  <2>a. Emptied' <=> Emptied
    BY <2>0 DEF Emptied, MayHaveRead
  <2>1. AlwaysInForce'
    <3>1. CASE current' = current
      BY <2>0, <2>a, <3>1 DEF Inductive, AlwaysInForce
    <3>2. CASE current' = 0 /\ IdOf(current) = old[c].id /\ current = issued
      <4>0. Bookkeeping(c) /\ made[c] \in 0..issued
        BY <1>b DEF Inductive
      <4>1. /\ made[c] # 0 /\ made[c] <= issued /\ old[c].id # 0
            /\ profile.id = "fresh" => old[c].id < made[c]
            /\ \/ old[c].id # IdOf(made[c])
               \/ ~profile.whole /\ new[c].id = 0 /\ MayHaveRead(c)
        BY <1>0, <2>0, <4>0 DEF Bookkeeping
      <4>2. profile.id = "kept" /\ old[c].id = 1 /\ IdOf(made[c]) = 1
        BY <1>0, <1>a, <3>2, <4>1 DEF PayloadType
      <4>3. Emptied
        BY <4>1, <4>2 DEF Emptied
      <4>4. QED
        BY <2>a, <3>2, <4>3 DEF AlwaysInForce
    <3>3. CASE current' = 0 /\ current # issued
      BY <2>0, <2>a, <3>3 DEF Inductive, AlwaysInForce
    <3>4. QED
      BY <2>0, <3>1, <3>2, <3>3
  <2>2. Matches(store)' /\ \A d \in Calls : Bookkeeping(d)'
    BY <2>0 DEF Inductive, Matches, IdKnown, Bookkeeping, Answered, MayHaveRead
  <2>3. \A d \in Calls : Unshared(d)' /\ Replaced(d)'
    BY <2>0 DEF Inductive, Unshared, Replaced
  <2>4. OneMaker' /\ Origin' /\ StoreOrigin'
    BY <2>0 DEF Inductive, OneMaker, Origin, StoreOrigin
  <2>5. QED
    BY <2>1, <2>2, <2>3, <2>4 DEF Inductive
<1>3. ASSUME NEW c \in Calls, Trigger(c) PROVE Inductive'
  <2>a. Send(c, FirstStage) /\ FirstStage \in Stages
    BY <1>3, StagesType DEF Trigger, Stages, Requests
  <2>0. /\ UNCHANGED <<profile, store, new, cancelled, current, issued, made>>
        /\ pc[c] = "idle" /\ pc'[c] \in {"prepare", "replace"} /\ pc'[c] = FirstStage
        /\ old'[c] = store
        /\ \A d \in Calls \ {c} : pc'[d] = pc[d] /\ old'[d] = old[d] /\ awaited'[d] = awaited[d]
        /\ \A d \in Calls \ {c}, r \in Requests : <<r, d>> \in wire' <=> <<r, d>> \in wire
        /\ \A r \in Requests : <<r, c>> \in wire' => r = pc'[c] \/ <<r, c>> \in wire
        /\ \A k : IdOf(k)' = IdOf(k) /\ Payload(k)' = Payload(k)
    BY <1>3, <2>a, SendEffect, StagesType DEF Trigger, Start, TypeOK, IdOf, Payload
  <2>b. made[c] = 0 /\ <<"replace", c>> \notin wire /\ <<"clean", c>> \notin wire
    BY <2>0 DEF Inductive, Bookkeeping
  <2>1. AlwaysInForce' /\ Matches(store)'
    <3>1. Emptied => Emptied'
      BY <2>0, <2>b DEF Emptied, MayHaveRead
    <3>2. QED
      BY <2>0, <3>1 DEF Inductive, AlwaysInForce, Matches, IdKnown
  <2>2. ASSUME NEW d \in Calls PROVE Bookkeeping(d)'
    <3>1. CASE d = c
      BY <2>0, <2>1, <2>b, <3>1 DEF Bookkeeping, Matches, IdKnown, Requests
    <3>2. CASE d # c
      BY <2>0, <3>2 DEF Inductive, Bookkeeping, Matches, IdKnown, Answered, MayHaveRead,
         Requests
    <3>3. QED
      BY <3>1, <3>2
  <2>3. ASSUME NEW d \in Calls PROVE Unshared(d)' /\ Replaced(d)'
    <3>1. Unshared(d) /\ Replaced(d)
      BY DEF Inductive
    <3>2. QED
      BY <2>0, <2>b, <3>1 DEF Unshared, Replaced
  <2>4. OneMaker' /\ Origin'
    BY <2>0 DEF Inductive, OneMaker, Origin
  <2>5. StoreOrigin'
    BY <2>0 DEF Inductive, StoreOrigin
  <2>6. QED
    BY <2>1, <2>2, <2>3, <2>4, <2>5 DEF Inductive
<1>4. ASSUME NEW c \in Calls, Prepared(c) PROVE Inductive'
  <2>a. Send(c, "replace") /\ "replace" \in Stages
    BY <1>4 DEF Prepared, Stages, Requests
  <2>0. /\ UNCHANGED <<profile, store, old, awaited, current, issued, made>>
        /\ pc[c] = "prepare" /\ pc'[c] = "replace"
        /\ \A d \in Calls \ {c} : pc'[d] = pc[d] /\ new'[d] = new[d]
        /\ \A d \in Calls \ {c}, r \in Requests : <<r, d>> \in wire' <=> <<r, d>> \in wire
        /\ \A r \in Requests : <<r, c>> \in wire' => r = "replace" \/ <<r, c>> \in wire
        /\ \A k : IdOf(k)' = IdOf(k)
    BY <1>4, <2>a, SendEffect DEF Prepared, GoOn, TypeOK, IdOf
  <2>1. Bookkeeping(c)'
    BY <2>0 DEF Inductive, Bookkeeping, Matches, IdKnown, Requests
  <2>2. QED
    BY <2>0, <2>1, MovesStep DEF MayHaveRead
<1>5. ASSUME NEW c \in Calls, ReplaceSucceeds(c) PROVE Inductive'
  <2>a. PICK body \in Bodies(c) : /\ GoOn(c, AfterReplace(c, body), body)
                                  /\ Send(c, AfterReplace(c, body))
    BY <1>5 DEF ReplaceSucceeds
  <2>b. /\ body \in PayloadType
        /\ body.id \in {0, IdOf(made[c])} /\ body.key \in {0, made[c]}
        /\ profile.whole => body = Payload(made[c])
        /\ AfterReplace(c, body) \in {"clean", "reply"} /\ AfterReplace(c, body) \in Stages
        /\ AfterReplace(c, body) = "clean" => old[c].id # 0 /\ old[c].id # body.id
    BY BodiesType, StagesType DEF AfterReplace, Stages, Requests
  <2>0. /\ UNCHANGED <<profile, store, old, awaited, current, issued, made>>
        /\ pc[c] = "replace" /\ pc'[c] = AfterReplace(c, body) /\ made[c] # 0
        /\ new'[c] = body
        /\ \A d \in Calls \ {c} : pc'[d] = pc[d] /\ new'[d] = new[d]
        /\ \A d \in Calls \ {c}, r \in Requests : <<r, d>> \in wire' <=> <<r, d>> \in wire
        /\ \A r \in Requests : <<r, c>> \in wire' => r = AfterReplace(c, body) \/ <<r, c>> \in wire
        /\ \A k : IdOf(k)' = IdOf(k) /\ Payload(k)' = Payload(k)
    BY <1>5, <2>a, <2>b, SendEffect DEF ReplaceSucceeds, GoOn, TypeOK, IdOf, Payload
  <2>1. Bookkeeping(c)'
    <3>1. Bookkeeping(c) /\ ~MayHaveRead(c)
      BY <2>0 DEF Inductive, MayHaveRead
    <3>2. Answered(c)'
      BY <2>0, <2>b DEF Answered
    <3>3. ASSUME <<"clean", c>> \in wire'
          PROVE  /\ old[c].id # 0
                 /\ \/ old[c].id # IdOf(made[c])
                    \/ ~profile.whole /\ body.id = 0
      <4>1. CASE <<"clean", c>> \in wire
        BY <3>1, <4>1 DEF Bookkeeping
      <4>2. CASE AfterReplace(c, body) = "clean"
        BY <2>b, <4>2 DEF Payload
      <4>3. QED
        BY <2>0, <3>3, <4>1, <4>2 DEF Requests
    <3>4. MayHaveRead(c)'
      BY <2>0, <2>b DEF MayHaveRead
    <3>5. <<"replace", c>> \notin wire'
      BY <2>0, <2>b, <3>1 DEF Bookkeeping, Requests
    <3>6. QED
      BY <2>0, <2>b, <3>1, <3>2, <3>3, <3>4, <3>5 DEF Bookkeeping, Matches, IdKnown
  <2>2. QED
    BY <2>0, <2>1, <2>b, MovesStep DEF MayHaveRead
<1>6. ASSUME NEW c \in Calls, ReplaceFails(c) PROVE Inductive'
  BY <1>6, LeaveStep DEF ReplaceFails, Fail, MayHaveRead
<1>7. ASSUME NEW c \in Calls, CleanReturns(c) PROVE Inductive'
  <2>0. /\ UNCHANGED <<profile, store, old, new, awaited, current, issued, wire, made>>
        /\ pc[c] = "clean" /\ pc'[c] = "reply"
        /\ \A d \in Calls \ {c} : pc'[d] = pc[d]
        /\ \A k : IdOf(k)' = IdOf(k) /\ Payload(k)' = Payload(k)
    BY <1>7 DEF CleanReturns, GoOn, TypeOK, IdOf, Payload, serviceVars
  <2>1. Bookkeeping(c)'
    BY <2>0 DEF Inductive, Bookkeeping, Matches, IdKnown, Answered, MayHaveRead
  <2>2. QED
    BY <2>0, <2>1, MovesStep DEF MayHaveRead
<1>8. ASSUME NEW c \in Calls, Refuse(c), UNCHANGED serviceVars PROVE Inductive'
  BY <1>8, LeaveStep DEF Refuse, MayHaveRead
<1>9. ASSUME NEW c \in Calls, GiveUp(c), UNCHANGED serviceVars PROVE Inductive'
  <2>0. /\ UNCHANGED <<profile, store, pc, old, new, current, issued, wire, made>>
        /\ \A d \in Calls : awaited'[d] => awaited[d]
        /\ \A k : IdOf(k)' = IdOf(k) /\ Payload(k)' = Payload(k)
    BY <1>9 DEF GiveUp, TypeOK, IdOf, Payload, serviceVars
  <2>1. AlwaysInForce' /\ Matches(store)'
    BY <2>0 DEF Inductive, AlwaysInForce, Emptied, MayHaveRead, Matches, IdKnown
  <2>2. \A d \in Calls : Bookkeeping(d)'
    BY <2>0 DEF Inductive, Bookkeeping, Matches, IdKnown, Answered, MayHaveRead
  <2>3. QED
    BY <2>0, <2>1, <2>2 DEF Inductive, Unshared, Replaced, OneMaker, Origin, StoreOrigin
<1>10. ASSUME NEW c \in Calls, Deliver(c), UNCHANGED serviceVars PROVE Inductive'
  <2>0. /\ UNCHANGED <<profile, old, new, current, issued, wire, made>>
        /\ pc[c] = "reply" /\ pc'[c] = "stored"
        /\ store' = new[c] /\ ~awaited'[c]
        /\ \A d \in Calls \ {c} : pc'[d] = pc[d] /\ awaited'[d] = awaited[d]
        /\ \A k : IdOf(k)' = IdOf(k) /\ Payload(k)' = Payload(k)
    BY <1>10 DEF Deliver, End, TypeOK, IdOf, Payload, serviceVars
  <2>a. /\ Bookkeeping(c) /\ Answered(c)
        /\ new[c].key \in {0, made[c]} /\ new[c].id \in {0, IdOf(made[c])}
        /\ made[c] # 0 /\ made[c] <= issued
    BY <1>b, <2>0 DEF Inductive, Bookkeeping, Answered
  <2>1. AlwaysInForce' /\ Matches(store)'
    <3>1. Emptied => Emptied'
      BY <2>0 DEF Emptied, MayHaveRead
    <3>2. Matches(store)'
      BY <1>0, <1>a, <2>0, <2>a DEF Matches, IdKnown, PayloadType
    <3>3. QED
      BY <2>0, <3>1, <3>2 DEF Inductive, AlwaysInForce
  <2>2. ASSUME NEW d \in Calls PROVE Bookkeeping(d)'
    <3>1. CASE d = c
      BY <2>0, <2>a, <3>1 DEF Bookkeeping, Matches, IdKnown, Answered, MayHaveRead
    <3>2. CASE d # c
      BY <2>0, <3>2 DEF Inductive, Bookkeeping, Matches, IdKnown, Answered, MayHaveRead
    <3>3. QED
      BY <3>1, <3>2
  <2>3. ASSUME NEW d \in Calls PROVE Unshared(d)'
    <3>1. Unshared(d) /\ Unshared(c) /\ OneMaker
      BY DEF Inductive
    <3>2. CASE d = c
      BY <2>0, <2>a, <3>1, <3>2 DEF Unshared
    <3>3. CASE d # c /\ made[d] # 0
      <4>1. made[d] # made[c]
        BY <2>a, <3>1, <3>3 DEF OneMaker
      <4>2. profile.id = "fresh" => new[c].id \in {0, made[c]}
        BY <1>0, <1>a, <2>a
      <4>3. QED
        BY <2>0, <2>a, <3>1, <3>3, <4>1, <4>2 DEF Unshared
    <3>4. CASE made[d] = 0
      BY <2>0, <3>4 DEF Unshared
    <3>5. QED
      BY <3>2, <3>3, <3>4
  <2>4. ASSUME NEW d \in Calls PROVE Replaced(d)'
    <3>1. old[d].key # made[c]
      BY <2>0, <2>a DEF Inductive, Unshared
    <3>2. QED
      BY <2>0, <2>a, <3>1 DEF Replaced
  <2>5. OneMaker' /\ Origin'
    BY <2>0 DEF Inductive, OneMaker, Origin
  <2>6. StoreOrigin'
    BY <2>0 DEF StoreOrigin
  <2>7. QED
    BY <2>1, <2>2, <2>3, <2>4, <2>5, <2>6 DEF Inductive
<1>11. ASSUME NEW c \in Calls, Drop(c), UNCHANGED serviceVars PROVE Inductive'
  BY <1>11, LeaveStep DEF Drop
<1>12. ASSUME NEW c \in Calls, Die(c), UNCHANGED serviceVars PROVE Inductive'
  BY <1>12, LeaveStep DEF Die, Running, Ended
<1>13. CASE UNCHANGED <<store, pc, old, new, awaited, serviceVars>>
  <2>1. AlwaysInForce' /\ Matches(store)'
    BY <1>13 DEF serviceVars, Inductive, AlwaysInForce, Emptied, MayHaveRead, Matches, IdKnown
  <2>2. \A d \in Calls : Bookkeeping(d)'
    BY <1>13 DEF serviceVars, IdOf, Payload, Inductive, Bookkeeping, Matches, IdKnown,
       Answered, MayHaveRead
  <2>3. QED
    BY <1>13, <2>1, <2>2 DEF serviceVars, Inductive, Unshared, Replaced, OneMaker, Origin,
       StoreOrigin
<1>14. QED
  BY <1>1, <1>2, <1>3, <1>4, <1>5, <1>6, <1>7, <1>8, <1>9, <1>10, <1>11,
     <1>12, <1>13 DEF Next, NoticeLeft, vars, gatewayVars

\* The invariant holds in every reachable state.
THEOREM InductiveInvariant == Spec => []Inductive
<1>1. Spec => []TypeOK
  BY TypeCorrect
<1>2. QED
  BY <1>1, InductiveInit, InductiveStep, PTL DEF Spec

-----------------------------------------------------------------------------

\* Rotate never deletes the credential in force: its delete names the id of what
\* it replaced, and only when the answer gave the new credential another one.  The
\* exception is an answer without the id of a token that kept it.
THEOREM InForceAlways == Spec => []AlwaysInForce
<1>1. Inductive => AlwaysInForce
  BY DEF Inductive
<1>2. QED
  BY <1>1, InductiveInvariant, PTL

\* With calls that overlap, a dead stored credential means that a call failed to
\* deliver what it put in force or that two calls crossed, if there is one in force.
THEOREM StaleOnlyByOverlap == Spec => []StaleMeansOverlap
<1>1. TypeOK /\ Inductive => StaleMeansOverlap
  <2> SUFFICES ASSUME TypeOK, Inductive, store.key # current, current # 0
               PROVE  \E c \in Calls :
                         /\ made[c] = current
                         /\ \/ pc[c] # "stored" \/ new[c].key = 0
                            \/ \E d \in Calls : /\ pc[d] = "stored" /\ new[d] = store
                                                /\ made[d] < made[c] /\ old[c].key # made[d]
    BY DEF StaleMeansOverlap
  <2>0. /\ current = issued /\ issued \in Nat \ {0}
        /\ \A d \in Calls : Bookkeeping(d) /\ Unshared(d) /\ Replaced(d)
        /\ OneMaker /\ StoreOrigin
    BY DEF Inductive, AlwaysInForce, TypeOK
  <2>1. CASE current = 1
    <3>1. PICK d \in Calls : pc[d] = "stored" /\ new[d] = store
      BY <2>0, <2>1 DEF StoreOrigin
    <3>2. made[d] \in 2..issued
      BY <2>0, <3>1 DEF Bookkeeping, Answered
    <3>3. QED
      BY <2>0, <2>1, <3>2
  <2>2. CASE current # 1
    <3>1. PICK c \in Calls : made[c] = current
      BY <2>0, <2>2 DEF Inductive, Origin
    <3>2. CASE pc[c] = "stored" /\ new[c].key # 0
      <4>1. new[c].key = made[c]
        BY <2>0, <3>2 DEF Bookkeeping, Answered
      <4>2. PICK d \in Calls : pc[d] = "stored" /\ new[d] = store
        BY <2>0, <3>2 DEF StoreOrigin
      <4>3. /\ made[d] \in 2..issued
            /\ new[d].key \in {0, made[d]}
        BY <2>0, <4>2 DEF Bookkeeping, Answered
      <4>4. made[d] < made[c]
        <5>1. d # c
          BY <3>1, <4>1, <4>2
        <5>2. QED
          BY <2>0, <3>1, <4>3, <5>1 DEF OneMaker
      <4>5. old[c].key # made[d]
        <5>1. CASE new[d].key = made[d]
          BY <2>0, <3>2, <4>2, <4>3, <5>1 DEF Replaced
        <5>2. CASE new[d].key # made[d]
          BY <2>0, <4>3, <5>2 DEF Unshared
        <5>3. QED
          BY <5>1, <5>2
      <4>6. QED
        BY <3>1, <4>2, <4>4, <4>5
    <3>3. CASE ~(pc[c] = "stored" /\ new[c].key # 0)
      BY <3>1, <3>3
    <3>4. QED
      BY <3>2, <3>3
  <2>3. QED
    BY <2>1, <2>2
<1>2. QED
  BY <1>1, TypeCorrect, InductiveInvariant, PTL

-----------------------------------------------------------------------------
\* A service that checks what is replaced.

LEMMA ConditionalInit == Init => ConditionalInductive
BY DEF Init, GatewayInit, ConditionalInductive, Accounted, Payload

\* Where ids change nothing empties the slot.
LEMMA FreshStays == Inductive /\ profile.id = "fresh" => current = issued
BY DEF Inductive, AlwaysInForce, Emptied

LEMMA ConditionalStep ==
    TypeOK /\ Inductive /\ ConditionalInductive /\ [Next]_vars => ConditionalInductive'
<1> DEFINE Goal == /\ \A d \in Calls : made'[d] # 0 /\ pc'[d] # "stored" => made'[d] = issued'
                   /\ Accounted'
<1> SUFFICES ASSUME TypeOK, Inductive, ConditionalInductive, [Next]_vars, profile'.conditional
             PROVE  Goal
  BY DEF ConditionalInductive
<1>a. profile' = profile
  BY DEF Next, vars, gatewayVars, serviceVars, ServeReplace, ServeClean, Trigger, Prepared,
     ReplaceSucceeds, ReplaceFails, CleanReturns
<1>b. /\ \A d \in Calls : made[d] # 0 /\ pc[d] # "stored" => made[d] = issued
      /\ Accounted
  BY <1>a DEF ConditionalInductive
<1>e. profile.id = "fresh"
  BY <1>a, ProfileType DEF KindType
<1>d. Inductive'
  BY InductiveStep
<1>0. /\ current = issued /\ issued \in Nat /\ current' = issued'
      /\ \A d \in Calls : made[d] \in Nat
  <2>1. current = issued
    BY <1>e, FreshStays
  <2>2. current' = issued'
    BY <1>a, <1>d, <1>e DEF Inductive, AlwaysInForce, Emptied
  <2>3. QED
    BY <2>1, <2>2 DEF TypeOK
\* Steps after which the same answers are delivered and the same credential is in force.
<1>c. ASSUME UNCHANGED <<store, made, issued>>,
             \A d \in Calls : pc'[d] = "stored" <=> pc[d] = "stored",
             \A d \in Calls : pc[d] = "stored" => new'[d] = new[d]
      PROVE  Goal
  BY <1>0, <1>b, <1>c DEF Accounted
<1>1. ASSUME NEW c \in Calls, ServeReplace(c)
      PROVE  Goal
  <2>1. /\ UNCHANGED <<store, pc>>
        /\ current' = issued + 1 /\ issued' = issued + 1 /\ made'[c] = issued + 1
        /\ \A d \in Calls \ {c} : made'[d] = made[d]
        /\ old[c].id = IdOf(current)
    BY <1>1, <1>a DEF ServeReplace, Applies, gatewayVars, TypeOK
  <2>2. made[c] = 0 /\ pc[c] # "stored"
    BY <1>1 DEF ServeReplace, Inductive, Bookkeeping, Answered
  <2>3. old[c].id = issued
    BY <1>0, <1>e, <2>1 DEF IdOf
  \* The service did what the call asked for, so nobody else's credential is pending.
  <2>4. \A d \in Calls : made[d] # 0 => pc[d] = "stored"
    BY <1>b, <1>e, <2>3 DEF Inductive, Unshared
  <2>5. QED
    BY <2>1, <2>2, <2>4 DEF Accounted
<1>2. ASSUME NEW c \in Calls, Deliver(c), UNCHANGED serviceVars
      PROVE  Goal
  <2>1. /\ UNCHANGED <<current, issued, made, new>>
        /\ \A d \in Calls \ {c} : pc'[d] = pc[d]
        /\ pc[c] = "reply" /\ pc'[c] = "stored" /\ store' = new[c]
    BY <1>2 DEF Deliver, End, TypeOK, serviceVars
  <2>2. made[c] = current /\ new[c].key \in {0, made[c]}
    BY <1>0, <1>b, <2>1 DEF Inductive, Bookkeeping, Answered
  <2>3. QED
    BY <1>b, <2>1, <2>2 DEF Accounted
<1>3. ASSUME NEW c \in Calls,
             ServeClean(c) \/ Trigger(c) \/ Prepared(c) \/ CleanReturns(c)
      PROVE  Goal
  <2>1. UNCHANGED <<store, made, issued>>
    BY <1>3 DEF ServeClean, Trigger, Prepared, CleanReturns, Start, GoOn, gatewayVars,
       serviceVars
  <2>2. \A d \in Calls : /\ pc'[d] = "stored" <=> pc[d] = "stored"
                         /\ pc[d] = "stored" => new'[d] = new[d]
    BY <1>3, StagesType DEF ServeClean, Trigger, Prepared, CleanReturns, Start, GoOn,
       gatewayVars, TypeOK
  <2>3. QED
    BY <1>c, <2>1, <2>2
<1>4. ASSUME NEW c \in Calls, ReplaceSucceeds(c)
      PROVE  Goal
  BY <1>4, <1>c, AnswerEffect
<1>5. ASSUME NEW c \in Calls,
             \/ ReplaceFails(c)
             \/ /\ Refuse(c) \/ GiveUp(c) \/ NoticeLeft(c) \/ Drop(c) \/ Die(c)
                /\ UNCHANGED serviceVars
      PROVE  Goal
  <2>1. UNCHANGED <<store, new, made, issued>>
    BY <1>5 DEF ReplaceFails, Fail, Refuse, GiveUp, NoticeLeft, Drop, Die, serviceVars
  <2>2. \A d \in Calls : pc'[d] = "stored" <=> pc[d] = "stored"
    BY <1>5 DEF ReplaceFails, Fail, Refuse, GiveUp, NoticeLeft, Drop, Die, End, Running,
       Ended, TypeOK
  <2>3. QED
    BY <1>c, <2>1, <2>2
<1>6. CASE UNCHANGED vars
  BY <1>6, <1>c DEF vars, gatewayVars, serviceVars
<1>7. QED
  BY <1>1, <1>2, <1>3, <1>4, <1>5, <1>6 DEF Next

LEMMA ConditionalInvariant == Spec => []ConditionalInductive
<1>1. Spec => []TypeOK /\ []Inductive
  BY TypeCorrect, InductiveInvariant
<1>2. QED
  BY <1>1, ConditionalInit, ConditionalStep, PTL DEF Spec

-----------------------------------------------------------------------------
\* A gateway that waits for one call at a time.

LEMMA SerialInit == Init => SerialInductive
BY DEF Init, GatewayInit, SerialInductive

LEMMA SerialStep == TypeOK /\ Inductive /\ SerialInductive /\ [Next]_vars => SerialInductive'
<1> DEFINE Awaits == /\ \A c, d \in Calls : awaited[c] /\ awaited[d] => c = d
                     /\ \A c \in Calls : awaited[c] =>
                         /\ Running(c) /\ old[c] = store
                         /\ made[c] # 0 =>
                             \A d \in Calls : pc[d] = "stored" => made[d] < made[c]
           Latest == \A c \in Calls : pc[c] = "stored" =>
                         \E d \in Calls : pc[d] = "stored" /\ new[d] = store /\ made[c] <= made[d]
<1> SUFFICES ASSUME TypeOK, Inductive, SerialInductive, [Next]_vars, Serial
             PROVE  Awaits' /\ Latest'
  BY DEF SerialInductive
<1>0. Awaits /\ Latest
  BY DEF SerialInductive
\* Steps after which the same answers are delivered, and nobody new is awaited.
<1>a. ASSUME UNCHANGED <<store, made>>,
             \A d \in Calls : awaited'[d] => awaited[d] /\ Running(d)' /\ old'[d] = old[d],
             \A d \in Calls : pc'[d] = "stored" <=> pc[d] = "stored",
             \A d \in Calls : pc[d] = "stored" => new'[d] = new[d]
      PROVE  Awaits' /\ Latest'
  <2>1. Awaits'
    BY <1>0, <1>a
  <2>2. Latest'
    BY <1>0, <1>a
  <2>3. QED
    BY <2>1, <2>2
<1>1. ASSUME NEW c \in Calls, Trigger(c)
      PROVE  Awaits' /\ Latest'
  <2>1. /\ UNCHANGED <<store, made, new>>
        /\ \A d \in Calls : awaited'[d] => d = c
        /\ old'[c] = store /\ made[c] = 0 /\ Running(c)'
        /\ \A d \in Calls : pc'[d] = "stored" <=> pc[d] = "stored"
    BY <1>1, StagesType DEF Trigger, Start, Running, Ended, TypeOK, Inductive, Bookkeeping
  <2>2. QED
    BY <1>0, <2>1
<1>2. ASSUME NEW c \in Calls, ServeReplace(c)
      PROVE  Awaits' /\ Latest'
  <2>1. /\ UNCHANGED <<store, pc, old, new, awaited>>
        /\ made'[c] = issued + 1
        /\ \A d \in Calls \ {c} : made'[d] = made[d]
        /\ \A d \in Calls : Running(d)' <=> Running(d)
        /\ issued \in Nat
    BY <1>2 DEF ServeReplace, gatewayVars, Running, TypeOK
  <2>2. pc[c] # "stored"
    BY <1>2 DEF ServeReplace, Inductive, Bookkeeping, Answered
  <2>3. \A d \in Calls : made[d] \in 0..issued
    <3>1. \A d \in Calls : made[d] \in {0} \union 2..issued
      BY DEF Inductive, Bookkeeping
    <3>2. QED
      BY <2>1, <3>1
  <2>4. Awaits'
    BY <1>0, <2>1, <2>2, <2>3
  <2>5. Latest'
    BY <1>0, <2>1, <2>2
  <2>6. QED
    BY <2>4, <2>5
<1>3. ASSUME NEW c \in Calls, Deliver(c), UNCHANGED serviceVars
      PROVE  Awaits' /\ Latest'
  <2>1. /\ UNCHANGED <<made, new>>
        /\ pc[c] = "reply" /\ pc'[c] = "stored" /\ store' = new[c]
        /\ \A d \in Calls : ~awaited'[d]
        /\ \A d \in Calls \ {c} : pc'[d] = pc[d]
    BY <1>0, <1>3 DEF Deliver, End, serviceVars, TypeOK
  <2>2. made[c] # 0 /\ \A d \in Calls : made[d] \in Nat
    BY <2>1 DEF Inductive, Bookkeeping, Answered, TypeOK
  <2>3. \A d \in Calls : pc[d] = "stored" => made[d] < made[c]
    BY <1>0, <1>3, <2>2 DEF Deliver
  <2>4. QED
    BY <2>1, <2>2, <2>3
<1>4. ASSUME NEW c \in Calls, ServeClean(c) \/ Prepared(c) \/ CleanReturns(c)
      PROVE  Awaits' /\ Latest'
  <2>1. UNCHANGED <<store, made, awaited, old>>
    BY <1>4 DEF ServeClean, Prepared, CleanReturns, GoOn, gatewayVars, serviceVars
  <2>2. \A d \in Calls : pc'[d] = pc[d] \/ pc'[d] \in {"replace", "reply"}
    BY <1>4 DEF ServeClean, Prepared, CleanReturns, GoOn, gatewayVars, TypeOK
  <2>3. \A d \in Calls : /\ pc'[d] = "stored" <=> pc[d] = "stored"
                         /\ pc[d] = "stored" => new'[d] = new[d]
    BY <1>4 DEF ServeClean, Prepared, CleanReturns, GoOn, gatewayVars, TypeOK
  <2>4. QED
    BY <1>0, <1>a, <2>1, <2>2, <2>3 DEF Running, Ended
<1>5. ASSUME NEW c \in Calls, ReplaceSucceeds(c)
      PROVE  Awaits' /\ Latest'
  <2>1. \A d \in Calls : Running(d) => Running(d)'
    BY <1>5, AnswerEffect DEF Running, Ended
  <2>2. QED
    BY <1>0, <1>5, <1>a, <2>1, AnswerEffect
<1>6. ASSUME NEW c \in Calls,
             \/ ReplaceFails(c)
             \/ /\ Refuse(c) \/ GiveUp(c) \/ NoticeLeft(c) \/ Drop(c) \/ Die(c)
                /\ UNCHANGED serviceVars
      PROVE  Awaits' /\ Latest'
  <2>1. UNCHANGED <<store, made, old, new>>
    BY <1>6 DEF ReplaceFails, Fail, Refuse, GiveUp, NoticeLeft, Drop, Die, serviceVars
  <2>2. \A d \in Calls : /\ awaited'[d] => awaited[d] /\ pc'[d] = pc[d]
                         /\ pc'[d] = "stored" <=> pc[d] = "stored"
    BY <1>6 DEF ReplaceFails, Fail, Refuse, GiveUp, NoticeLeft, Drop, Die, End, Running,
       Ended, TypeOK
  <2>3. QED
    BY <1>0, <1>a, <2>1, <2>2 DEF Running
<1>7. CASE UNCHANGED vars
  BY <1>0, <1>7 DEF vars, gatewayVars, serviceVars, Running
<1>8. QED
  BY <1>1, <1>2, <1>3, <1>4, <1>5, <1>6, <1>7 DEF Next

LEMMA SerialInvariant == Spec => []SerialInductive
<1>1. Spec => []TypeOK /\ []Inductive
  BY TypeCorrect, InductiveInvariant
<1>2. QED
  BY <1>1, SerialInit, SerialStep, PTL DEF Spec

-----------------------------------------------------------------------------

\* With one awaited call at a time, or a service that checks what is replaced, the
\* stored credential is dead only if a call failed to deliver what it got, or its
\* answer did not hold it, or none is in force.
THEOREM StaleOnlyUndelivered == Spec => []StaleHasCause
<1>1. TypeOK /\ Inductive /\ ConditionalInductive /\ SerialInductive => StaleHasCause
  <2> SUFFICES ASSUME TypeOK, Inductive, ConditionalInductive, SerialInductive,
                      Serial \/ profile.conditional
               PROVE  Accounted
    BY DEF StaleHasCause
  <2>1. CASE profile.conditional
    BY <2>1 DEF ConditionalInductive
  <2>2. CASE Serial
    <3> SUFFICES ASSUME store.key # current, current # 0
                 PROVE  \E c \in Calls :
                            made[c] = current /\ (pc[c] # "stored" \/ new[c].key = 0)
      BY DEF Accounted
    <3>0. /\ current = issued /\ issued \in Nat \ {0}
          /\ \A d \in Calls : Bookkeeping(d)
          /\ OneMaker /\ StoreOrigin
      BY DEF Inductive, AlwaysInForce, TypeOK
    \* What is stored is the latest answer, so no stored call made what is in force.
    <3>1. CASE current = 1
      <4>1. PICK d \in Calls : pc[d] = "stored"
        BY <3>0, <3>1 DEF StoreOrigin
      <4>2. made[d] \in 2..issued
        BY <3>0, <4>1 DEF Bookkeeping, Answered
      <4>3. QED
        BY <3>0, <3>1, <4>2
    <3>2. CASE current # 1
      <4>1. PICK c \in Calls : made[c] = current
        BY <3>0, <3>2 DEF Inductive, Origin
      <4>2. CASE pc[c] = "stored"
        <5>1. PICK d \in Calls : pc[d] = "stored" /\ new[d] = store /\ made[c] <= made[d]
          BY <2>2, <4>2 DEF SerialInductive
        <5>2. made[d] \in 2..issued
          BY <3>0, <5>1 DEF Bookkeeping, Answered
        <5>3. d = c
          BY <3>0, <4>1, <5>1, <5>2 DEF OneMaker
        <5>4. new[c].key \in {0, made[c]}
          BY <3>0, <4>2 DEF Bookkeeping, Answered
        <5>5. QED
          BY <4>1, <5>1, <5>3, <5>4
      <4>3. QED
        BY <4>1, <4>2
    <3>3. QED
      BY <3>1, <3>2
  <2>3. QED
    BY <2>1, <2>2
<1>2. QED
  BY <1>1, TypeCorrect, InductiveInvariant, ConditionalInvariant, SerialInvariant, PTL

\* A call that is stored got its answer from the service after every stored one.
LEMMA DeliveryOrder ==
    ASSUME TypeOK, Inductive, ConditionalInductive, SerialInductive,
           Serial \/ profile.conditional, NEW c \in Calls, Deliver(c),
           NEW d \in Calls, pc[d] = "stored"
    PROVE  made[d] < made[c]
<1>1. /\ pc[c] = "reply" /\ awaited[c]
      /\ Bookkeeping(c) /\ Bookkeeping(d) /\ OneMaker
      /\ issued \in Nat
  BY DEF Deliver, Inductive, TypeOK
<1>2. made[c] \in 2..issued /\ made[d] \in 2..issued /\ c # d
  BY <1>1 DEF Bookkeeping, Answered
<1>3. CASE Serial
  BY <1>1, <1>2, <1>3 DEF SerialInductive
<1>4. CASE profile.conditional
  <2>1. made[c] = issued
    BY <1>1, <1>2, <1>4 DEF ConditionalInductive
  <2>2. QED
    BY <1>1, <1>2, <2>1 DEF OneMaker
<1>5. QED
  BY <1>3, <1>4

\* Nothing but a delivery makes a call stored.
LEMMA OnlyDeliveryStores ==
    ASSUME TypeOK, [Next]_vars, NEW c \in Calls, pc[c] # "stored", pc'[c] = "stored"
    PROVE  Deliver(c)
<1>1. ASSUME NEW d \in Calls, ReplaceSucceeds(d) PROVE FALSE
  BY <1>1, AnswerEffect
<1>2. ASSUME NEW d \in Calls,
             \/ ServeReplace(d) \/ ServeClean(d) \/ Trigger(d) \/ Prepared(d)
             \/ ReplaceFails(d) \/ CleanReturns(d)
      PROVE  FALSE
  BY <1>2, StagesType DEF ServeReplace, ServeClean, Trigger, Prepared, ReplaceFails,
     CleanReturns, Start, GoOn, Fail, End, gatewayVars, TypeOK
<1>3. ASSUME NEW d \in Calls, Refuse(d) \/ GiveUp(d) \/ NoticeLeft(d) \/ Drop(d) \/ Die(d)
      PROVE  FALSE
  BY <1>3 DEF Refuse, GiveUp, NoticeLeft, Drop, Die, End, TypeOK
<1>4. ASSUME NEW d \in Calls, Deliver(d) PROVE Deliver(c)
  BY <1>4 DEF Deliver, End, TypeOK
<1>5. CASE UNCHANGED vars
  BY <1>5 DEF vars, gatewayVars
<1>6. QED
  BY <1>1, <1>2, <1>3, <1>4, <1>5 DEF Next

\* Under the same conditions answers are stored in the order of the replacements, so
\* none overwrites that of a later replacement.
THEOREM StoreOnlyForward == Spec => StoreMovesForward
<1>1. TypeOK /\ Inductive /\ ConditionalInductive /\ SerialInductive /\ [Next]_vars
        => [Serial \/ profile.conditional =>
               \A c \in Calls : pc[c] # "stored" /\ pc'[c] = "stored" =>
                   \A d \in Calls : pc[d] = "stored" => made[d] < made[c]]_vars
  BY DeliveryOrder, OnlyDeliveryStores
<1>2. QED
  BY <1>1, TypeCorrect, InductiveInvariant, ConditionalInvariant, SerialInvariant, PTL
     DEF Spec, StoreMovesForward

-----------------------------------------------------------------------------
\* The slot.

LEMMA SlotStarts == Init => Slot!SlotInit
<1> SUFFICES ASSUME Init PROVE Slot!SlotInit
  OBVIOUS
<1>1. profile.conditional \in BOOLEAN /\ profile.whole \in BOOLEAN
  BY DEF Init, KindType
<1>2. current = 1 /\ issued = 1 /\ store.key = 1
  BY DEF Init, Payload
<1>3. {made[c] : c \in {d \in Calls : pc[d] # "stored"}} \ {0} = {}
  BY DEF Init
<1>4. QED
  BY <1>1, <1>2, <1>3 DEF Slot!SlotInit

\* Serving a replacement replaces, a delivery publishes, a clean-up may empty the slot,
\* and nothing else is seen.
LEMMA SlotStep ==
    /\ TypeOK /\ Inductive /\ ConditionalInductive /\ SerialInductive
    /\ Inductive' /\ [Next]_vars
    => [Slot!SlotNext]_(Slot!slotVars)
<1> DEFINE U == {made[c] : c \in {d \in Calls : pc[d] # "stored"}} \ {0}
<1> SUFFICES ASSUME TypeOK, Inductive, ConditionalInductive, SerialInductive, Inductive',
                    [Next]_vars
             PROVE  Slot!SlotNext \/ UNCHANGED Slot!slotVars
  OBVIOUS
<1>0. /\ issued \in Nat \ {0}
      /\ \A d \in Calls : made[d] \in Nat /\ made[d] <= issued
      /\ profile.conditional => profile.id = "fresh" /\ current = issued
  <2>1. issued \in Nat \ {0} /\ \A d \in Calls : made[d] \in {0} \union 2..issued
    BY DEF Inductive, Bookkeeping, TypeOK
  <2>2. profile.conditional => profile.id = "fresh"
    BY ProfileType DEF KindType
  <2>3. QED
    BY <2>1, <2>2, FreshStays
\* Steps after which the same calls hold the same credentials.
<1>a. ASSUME UNCHANGED <<made>>, \A d \in Calls : pc'[d] = "stored" <=> pc[d] = "stored"
      PROVE  U' = U
  <2>1. {d \in Calls : pc[d] # "stored"}' = {d \in Calls : pc[d] # "stored"}
    BY <1>a
  <2>2. QED
    BY <1>a, <2>1
<1>b. ASSUME UNCHANGED <<profile, store, current, issued>>, U' = U
      PROVE  UNCHANGED Slot!slotVars
  BY <1>b DEF Slot!slotVars
<1>1. ASSUME NEW c \in Calls, ServeReplace(c) PROVE Slot!Replace
  <2>1. /\ UNCHANGED <<profile, store, pc>>
        /\ issued' = issued + 1 /\ current' = issued' /\ made'[c] = issued'
        /\ \A d \in Calls \ {c} : made'[d] = made[d]
        /\ profile.conditional => old[c].id = IdOf(current)
    BY <1>1 DEF ServeReplace, Applies, gatewayVars, TypeOK
  <2>2. made[c] = 0 /\ pc[c] # "stored"
    BY <1>1 DEF ServeReplace, Inductive, Bookkeeping, Answered
  <2>3. ASSUME profile.conditional PROVE current \notin U
    \* The service did what the call asked for, so nobody holds what is in force.
    <3>1. old[c].id = current
      BY <1>0, <2>1, <2>3 DEF IdOf
    <3>2. \A d \in Calls : made[d] = current /\ made[d] # 0 => pc[d] = "stored"
      BY <1>0, <2>3, <3>1 DEF Inductive, Unshared
    <3>3. QED
      BY <3>2
  <2>4. U' = U \union {issued'}
    BY <1>0, <2>1, <2>2
  <2>5. QED
    BY <2>1, <2>3, <2>4 DEF Slot!Replace
<1>2. ASSUME NEW c \in Calls, Deliver(c), UNCHANGED serviceVars
      PROVE  \E k \in U : Slot!Publish(k)
  <2>1. /\ UNCHANGED <<profile, current, issued, made>>
        /\ \A d \in Calls \ {c} : pc'[d] = pc[d]
        /\ pc[c] = "reply" /\ pc'[c] = "stored" /\ store' = new[c]
    BY <1>2 DEF Deliver, End, TypeOK, serviceVars
  <2>a. Answered(c) /\ made[c] \in 2..issued
    BY <2>1 DEF Inductive, Bookkeeping, Answered
  <2>2. /\ made[c] # 0 /\ new[c].key \in {0, made[c]}
        /\ profile.whole => new[c].key = made[c]
    BY <2>a DEF Answered, Payload
  <2>3. profile.conditional => made[c] = current
    BY <1>0, <2>1, <2>2 DEF ConditionalInductive
  <2>4. ASSUME Serial, NEW j \in (1..issued) \ U PROVE j < made[c]
    <3>1. CASE j = 1
      BY <1>0, <2>a, <3>1
    <3>2. CASE j # 1
      <4>1. PICK d \in Calls : made[d] = j
        BY <1>0, <2>4, <3>2 DEF Inductive, Origin
      <4>2. pc[d] = "stored"
        BY <2>4, <4>1
      <4>3. QED
        BY <1>2, <2>4, <4>1, <4>2, DeliveryOrder
    <3>3. QED
      BY <3>1, <3>2
  <2>5. \A d \in Calls \ {c} : made[d] # made[c]
    BY <2>2 DEF Inductive, OneMaker
  <2>6. U' = U \ {made[c]}
    BY <2>1, <2>5
  <2>7. PICK k \in Nat : k = made[c]
    BY <1>0
  <2>8. k \in U /\ Slot!Publish(k)
    BY <2>1, <2>2, <2>3, <2>4, <2>6, <2>7 DEF Slot!Publish
  <2>9. QED
    BY <2>8
<1>3. ASSUME NEW c \in Calls, ServeClean(c)
      PROVE  Slot!Empty \/ UNCHANGED Slot!slotVars
  <2>1. UNCHANGED <<profile, store, issued>> /\ current' \in {0, current} /\ U' = U
    BY <1>3, <1>a DEF ServeClean, gatewayVars
  <2>2. CASE current' = current
    BY <1>b, <2>1, <2>2
  <2>3. CASE current' = 0 /\ current # 0
    <3>1. ~profile.whole
      BY <1>0, <2>1, <2>3 DEF Inductive, AlwaysInForce, Emptied
    <3>2. QED
      BY <2>1, <2>3, <3>1 DEF Slot!Empty
  <2>4. QED
    BY <2>1, <2>2, <2>3
<1>4. ASSUME NEW c \in Calls, Trigger(c) \/ Prepared(c) \/ CleanReturns(c)
      PROVE  UNCHANGED Slot!slotVars
  <2>1. UNCHANGED <<profile, store, made, current, issued>>
    BY <1>4 DEF Trigger, Prepared, CleanReturns, Start, GoOn, serviceVars
  <2>2. \A d \in Calls : pc'[d] = "stored" <=> pc[d] = "stored"
    BY <1>4, StagesType DEF Trigger, Prepared, CleanReturns, Start, GoOn, TypeOK
  <2>3. QED
    BY <1>a, <1>b, <2>1, <2>2
<1>5. ASSUME NEW c \in Calls, ReplaceSucceeds(c)
      PROVE  UNCHANGED Slot!slotVars
  <2>1. \A d \in Calls : pc'[d] = "stored" <=> pc[d] = "stored"
    BY <1>5, AnswerEffect
  <2>2. QED
    BY <1>5, <1>a, <1>b, <2>1, AnswerEffect
<1>6. ASSUME NEW c \in Calls,
             \/ ReplaceFails(c)
             \/ /\ Refuse(c) \/ GiveUp(c) \/ NoticeLeft(c) \/ Drop(c) \/ Die(c)
                /\ UNCHANGED serviceVars
      PROVE  UNCHANGED Slot!slotVars
  <2>1. UNCHANGED <<profile, store, made, current, issued>>
    BY <1>6 DEF ReplaceFails, Fail, Refuse, GiveUp, NoticeLeft, Drop, Die, serviceVars
  <2>2. \A d \in Calls : pc'[d] = "stored" <=> pc[d] = "stored"
    BY <1>6 DEF ReplaceFails, Fail, Refuse, GiveUp, NoticeLeft, Drop, Die, End, Running,
       Ended, TypeOK
  <2>3. QED
    BY <1>a, <1>b, <2>1, <2>2
<1>7. CASE UNCHANGED vars
  BY <1>7, <1>a, <1>b DEF vars, gatewayVars, serviceVars
<1>8. ASSUME NEW c \in Calls,
             ServeReplace(c) \/ ServeClean(c) \/ (Deliver(c) /\ UNCHANGED serviceVars)
      PROVE  Slot!SlotNext \/ UNCHANGED Slot!slotVars
  <2>1. CASE ServeReplace(c)
    BY <1>1, <2>1 DEF Slot!SlotNext
  <2>2. CASE Deliver(c) /\ UNCHANGED serviceVars
    BY <1>2, <2>2, Zenon DEF Slot!SlotNext
  <2>3. CASE ServeClean(c)
    BY <1>3, <2>3 DEF Slot!SlotNext
  <2>4. QED
    BY <1>8, <2>1, <2>2, <2>3
<1>9. QED
  BY <1>4, <1>5, <1>6, <1>7, <1>8 DEF Next

\* A secret that is rotated in place is a slot: the credential in force is replaced and
\* the answer that brings it is stored at most once; only where answers may lack the id
\* does a clean-up empty it; with a service that checks what it replaces, the
\* next replacement waits for that, and with one awaited call at a time the store
\* moves forward.
THEOREM Refinement == Spec => RefinesSlot
<1>1. Spec => []TypeOK /\ []Inductive /\ []ConditionalInductive /\ []SerialInductive
  BY TypeCorrect, InductiveInvariant, ConditionalInvariant, SerialInvariant
<1>2. QED
  BY <1>1, SlotStarts, SlotStep, PTL DEF Spec, RefinesSlot, Slot!SlotSpec

=============================================================================
