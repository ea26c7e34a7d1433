--------------------------- MODULE RotationProofs ---------------------------
(***************************************************************************)
(* Proofs of the safety properties of Rotation for every set of calls and  *)
(* every set of targets, however many there are.                           *)
(***************************************************************************)
EXTENDS Rotation, TLAPS

USE RotationAssumption

-----------------------------------------------------------------------------
\* Facts about the building blocks of the actions.

\* Sending adds at most the one request of the stage to those under way.
LEMMA SendEffect ==
    ASSUME TypeOK, NEW c \in Calls, NEW stage \in Stages, Send(c, stage)
    PROVE  /\ wire' \subseteq Requests \X Calls
           /\ \A d \in Calls \ {c}, r \in Requests : <<r, d>> \in wire' <=> <<r, d>> \in wire
           /\ \A r \in Requests : <<r, c>> \in wire' => r = stage \/ <<r, c>> \in wire
           /\ wire \subseteq wire'
BY DEF Send, TypeOK, Requests

\* The stages that follow another one are stages.
LEMMA StagesType ==
    /\ \A payload : FirstStage(payload) \in Requests
    /\ \A payload : RevokeStage(payload) \in {"delete", "reply"}
    /\ \A c \in Calls : AfterCreate(c) \in {"delete", "reply"}
    /\ AfterDelete \in {"create", "reply"}
BY DEF FirstStage, RevokeStage, AfterCreate, AfterDelete, Requests

\* A credential just issued comes back as it is, without its handle, or not at all.
LEMMA BodyType ==
    ASSUME TypeOK, NEW k \in Nat, NEW body \in Bodies(k)
    PROVE  /\ body \in PayloadType
           /\ WellFormed(body)
           /\ body.id \in {0, k}
           /\ body.key \in {0, k}
           /\ body.key = 0 /\ k # 0 => Blanks
<1>1. profile.id \in {"always", "itself", "maybe", "never"}
  BY DEF TypeOK, ProfileType
<1>2. Handles(k) \subseteq {0, k}
  BY <1>1 DEF Handles
<1>3. QED
  BY <1>2 DEF Bodies, PayloadType, Payload, WellFormed

\* A revocation that was sent stays so.
LEMMA OrderedKept ==
    ASSUME UNCHANGED profile, revoking \subseteq revoking',
           \A d \in revoking : old'[d] = old[d]
    PROVE  Ordered \subseteq Ordered'
BY DEF Ordered

-----------------------------------------------------------------------------

LEMMA TypeInit == Init => TypeOK
<1> SUFFICES ASSUME Init PROVE TypeOK
  OBVIOUS
<1>1. store \in PayloadType
  <2>1. profile.id \in {"always", "itself", "maybe", "never"}
    BY DEF Init, ProfileType
  <2>2. Handles(issued) \subseteq Nat
    BY <2>1 DEF Init, Handles
  <2>3. QED
    BY <2>2 DEF Init, PayloadType
<1>2. QED
  BY <1>1 DEF Init, GatewayInit, TypeOK, Payload, Blank, PayloadType, Stages

LEMMA TypeStep == TypeOK /\ [Next]_vars => TypeOK'
<1> SUFFICES ASSUME TypeOK, [Next]_vars
             PROVE  TypeOK'
  OBVIOUS
<1> USE DEF TypeOK, Stages, Requests, Ended
<1>1. ASSUME NEW c \in Calls, Trigger(c) PROVE TypeOK'
  BY <1>1, StagesType, SendEffect DEF Trigger, Start
<1>2. ASSUME NEW c \in Calls, Refuse(c), UNCHANGED serviceVars PROVE TypeOK'
  BY <1>2 DEF Refuse, End, serviceVars
<1>3. ASSUME NEW c \in Calls, GiveUp(c), UNCHANGED serviceVars PROVE TypeOK'
  BY <1>3 DEF GiveUp, serviceVars
<1>4. ASSUME NEW c \in Calls, ServeCreate(c) PROVE TypeOK'
  BY <1>4 DEF ServeCreate, gatewayVars
<1>5. ASSUME NEW c \in Calls, RefuseCreate(c) PROVE TypeOK'
  BY <1>5 DEF RefuseCreate, gatewayVars
<1>6. ASSUME NEW c \in Calls, ServeDelete(c) PROVE TypeOK'
  BY <1>6 DEF ServeDelete, gatewayVars
<1>7. ASSUME NEW c \in Calls, NoticeLeft(c), UNCHANGED serviceVars PROVE TypeOK'
  BY <1>7 DEF NoticeLeft, serviceVars
<1>8. ASSUME NEW c \in Calls, CreateSucceeds(c) PROVE TypeOK'
  <2>1. new' \in [Calls -> PayloadType]
    BY <1>8, BodyType DEF CreateSucceeds, GoOn
  <2>2. QED
    BY <1>8, <2>1, StagesType, SendEffect DEF CreateSucceeds, GoOn
<1>9. ASSUME NEW c \in Calls, CreateFails(c) PROVE TypeOK'
  BY <1>9 DEF CreateFails, Fail, End, serviceVars
<1>10. ASSUME NEW c \in Calls, DeleteReturns(c) PROVE TypeOK'
  BY <1>10, StagesType, SendEffect DEF DeleteReturns, GoOn
<1>11. ASSUME NEW c \in Calls, Deliver(c), UNCHANGED serviceVars PROVE TypeOK'
  BY <1>11 DEF Deliver, End, serviceVars
<1>12. ASSUME NEW c \in Calls, Drop(c), UNCHANGED serviceVars PROVE TypeOK'
  BY <1>12 DEF Drop, End, serviceVars
<1>13. ASSUME NEW c \in Calls, Die(c), UNCHANGED serviceVars PROVE TypeOK'
  BY <1>13 DEF Die, End, serviceVars
<1>14. ASSUME NEW c \in Calls, TriggerRevoke(c) PROVE TypeOK'
  BY <1>14, StagesType, SendEffect DEF TriggerRevoke, Start
<1>15. ASSUME NEW c \in Calls, RevokeReturns(c) PROVE TypeOK'
  BY <1>15 DEF RevokeReturns, GoOn, Fail, End, serviceVars
<1>16. ASSUME NEW c \in Calls, Acknowledge(c), UNCHANGED serviceVars PROVE TypeOK'
  BY <1>16 DEF Acknowledge, End, serviceVars
<1>17. CASE UNCHANGED vars
  BY <1>17 DEF vars, gatewayVars, serviceVars
<1>18. QED
  BY <1>1, <1>2, <1>3, <1>4, <1>5, <1>6, <1>7, <1>8, <1>9, <1>10, <1>11,
     <1>12, <1>13, <1>14, <1>15, <1>16, <1>17 DEF Next, Progress, Return

\* Every variable keeps its type.
THEOREM TypeCorrect == Spec => []TypeOK
BY TypeInit, TypeStep, PTL DEF Spec

-----------------------------------------------------------------------------

\* The invariant is inductive: each step re-establishes every part of it.
LEMMA InductiveInit == Init => Inductive
<1> SUFFICES ASSUME Init PROVE Inductive
  OBVIOUS
<1>1. WellFormed(store) /\ store.key = issued /\ store.id \in {0, issued}
  <2>1. profile.id \in {"always", "itself", "maybe", "never"}
    BY DEF Init, ProfileType
  <2>2. Handles(issued) \subseteq {0, issued}
    BY <2>1 DEF Init, Handles
  <2>3. QED
    BY <2>2 DEF Init, WellFormed
<1>2. QED
  BY <1>1 DEF Init, GatewayInit, Inductive, StoreIssued, WellFormed, Bookkeeping, Unshared, Replaced, Names,
       OneMaker, NewestIsLive, StoredDeadHasCause, Payload, Blank, SuccessStatuses

\* How a call may move on while the store, the payloads and the service stay as they
\* are: it fails before it has created anything, its answer gets lost, it dies, or it
\* is a revocation.
Moves(d) ==
    \/ pc'[d] = pc[d]
    \/ pc[d] \in {"idle", "create"} /\ pc'[d] = "failed"
    \/ pc[d] = "reply" /\ pc'[d] = "lost"
    \/ Running(d) /\ pc'[d] = "dead"
    \/ d \in revoking /\ pc[d] = "delete" /\ pc'[d] \in {"reply", "failed"}
    \/ d \in revoking /\ pc[d] = "reply" /\ pc'[d] = "acknowledged"

LEMMA MovesKeep ==
    ASSUME TypeOK, Inductive, UNCHANGED <<serviceVars, store, old, new>>,
           \A d \in Calls : Moves(d),
           \A d \in Calls : pc'[d] = "idle" => awaited'[d] = awaited[d] /\ cancelled'[d] = cancelled[d]
    PROVE  Inductive'
<1>0. /\ UNCHANGED <<profile, revoking, issued, live, wire, made, answer, store, old, new>>
      /\ \A d \in Calls : Moves(d)
  BY DEF serviceVars
<1>1. Ordered' = Ordered
  BY <1>0 DEF Ordered
<1>2. ASSUME NEW d \in Calls PROVE Bookkeeping(d)'
  <2>1. Bookkeeping(d) /\ Moves(d)
    BY <1>0 DEF Inductive
  <2>2. pc'[d] = "idle" => pc[d] = "idle" /\ awaited'[d] = awaited[d] /\ cancelled'[d] = cancelled[d]
    BY <2>1 DEF Moves
  <2>3. QED
    BY <1>0, <2>1, <2>2 DEF Moves, Bookkeeping, WellFormed, Running, Ended
<1>3. ASSUME NEW d \in Calls PROVE Unshared(d)' /\ Replaced(d)'
  <2>1. Unshared(d) /\ Replaced(d) /\ (pc'[d] = "stored" <=> pc[d] = "stored")
    BY <1>0 DEF Inductive, Moves, Running, Ended
  <2>2. QED
    BY <1>0, <2>1 DEF Unshared, Replaced, Names
<1>4. OneMaker' /\ NewestIsLive'
  BY <1>0, <1>1 DEF Inductive, OneMaker, NewestIsLive
<1>5. StoredDeadHasCause'
  <2>1. SUFFICES ASSUME store.key # 0, store.key \notin live, store.key \notin Ordered
                 PROVE  \E d \in Calls :
                           /\ old[d] = store
                           /\ \/ pc'[d] \in {"delete", "reply", "lost", "dead"} /\ made[d] \in live
                              \/ profile.order = "delete_first" /\ pc'[d] \notin {"idle", "stored"}
    BY <1>0, <1>1 DEF StoredDeadHasCause
  <2>2. PICK d \in Calls :
              /\ old[d] = store
              /\ \/ pc[d] \in {"delete", "reply", "lost", "dead"} /\ made[d] \in live
                 \/ profile.order = "delete_first" /\ pc[d] \notin {"idle", "stored"}
    BY <2>1 DEF Inductive, StoredDeadHasCause
  <2>3. d \in revoking => made[d] \notin live
    <3>1. d \in revoking => made[d] = 0
      BY DEF Inductive, Bookkeeping
    <3>2. 0 \notin live
      BY DEF TypeOK
    <3>3. QED
      BY <3>1, <3>2
  <2>4. QED
    BY <1>0, <2>2, <2>3 DEF Moves, Running, Ended
<1>6. QED
  BY <1>0, <1>2, <1>3, <1>4, <1>5 DEF Inductive, StoreIssued, WellFormed

LEMMA InductiveStep == TypeOK /\ Inductive /\ [Next]_vars => Inductive'
<1> SUFFICES ASSUME TypeOK, Inductive, [Next]_vars
             PROVE  Inductive'
  OBVIOUS
<1>0. /\ issued \in Nat
      /\ live \subseteq 1..issued
      /\ store \in [id : Nat, key : Nat]
      /\ \A d \in Calls : /\ old[d] \in [id : Nat, key : Nat]
                           /\ new[d] \in [id : Nat, key : Nat]
                           /\ made[d] \in Nat
      /\ profile.order \in {"create_first", "delete_first"}
  BY DEF TypeOK, PayloadType, ProfileType
<1>1. ASSUME NEW c \in Calls, Trigger(c) PROVE Inductive'
  <2>a. Send(c, FirstStage(store)) /\ FirstStage(store) \in Stages
    BY <1>1, StagesType DEF Trigger, Stages
  <2>0. /\ UNCHANGED <<profile, revoking, store, issued, live, new, made, answer, cancelled>>
        /\ pc[c] = "idle" /\ pc'[c] \in Requests
        /\ profile.order = "create_first" => pc'[c] = "create"
        /\ \A d \in Calls \ {c} : pc'[d] = pc[d] /\ old'[d] = old[d] /\ awaited'[d] = awaited[d]
        /\ old'[c] = store
        /\ \A d \in Calls \ {c}, r \in Requests : <<r, d>> \in wire' <=> <<r, d>> \in wire
        /\ \A r \in Requests : <<r, c>> \in wire' => r = pc'[c] \/ <<r, c>> \in wire
    BY <1>1, <2>a, SendEffect, StagesType DEF Trigger, Start, TypeOK, FirstStage
  <2>o. Ordered \subseteq Ordered'
    <3>1. c \notin revoking /\ revoking \subseteq Calls
      BY <2>0 DEF Inductive, StoreIssued, Bookkeeping, TypeOK
    <3>2. QED
      BY <2>0, <3>1, OrderedKept
  <2>1. StoreIssued'
    BY <1>0, <2>0 DEF Inductive, StoreIssued, WellFormed
  <2>2. ASSUME NEW d \in Calls PROVE Bookkeeping(d)'
    <3>1. CASE d = c
      BY <1>0, <2>0, <3>1 DEF Inductive, StoreIssued, Bookkeeping, WellFormed, Blank, Payload, Requests, SuccessStatuses
    <3>2. CASE d # c
      BY <1>0, <2>0, <3>2 DEF Inductive, StoreIssued, Bookkeeping, WellFormed, Blank, Payload, Requests, SuccessStatuses
    <3>3. QED
      BY <3>1, <3>2
  <2>3. ASSUME NEW d \in Calls PROVE Unshared(d)'
    <3>1. Bookkeeping(c) /\ Bookkeeping(d) /\ Unshared(d)
      BY DEF Inductive
    <3>2. CASE d = c
      BY <2>0, <3>1, <3>2 DEF Bookkeeping, Unshared
    <3>3. CASE d # c
      BY <2>0, <3>1, <3>3 DEF Unshared, Names, Requests
    <3>4. QED
      BY <3>2, <3>3
  <2>4. ASSUME NEW d \in Calls PROVE Replaced(d)'
    <3>1. Bookkeeping(c) /\ Replaced(d)
      BY DEF Inductive
    <3>2. CASE d = c
      BY <2>0, <3>1, <3>2 DEF Replaced, Requests
    <3>3. CASE d # c
      BY <2>0, <3>1, <3>3 DEF Replaced, Names
    <3>4. QED
      BY <3>2, <3>3
  <2>5. OneMaker'
    BY <1>0, <2>0 DEF Inductive, StoreIssued, Bookkeeping, OneMaker
  <2>6. NewestIsLive'
    BY <1>0, <2>0, <2>o DEF Inductive, StoreIssued, Bookkeeping, WellFormed, NewestIsLive
  <2>7. StoredDeadHasCause'
    BY <1>0, <2>0, <2>o DEF Inductive, StoreIssued, Bookkeeping, WellFormed, Unshared, Replaced, StoredDeadHasCause
  <2>8. QED
    BY <2>1, <2>2, <2>3, <2>4, <2>5, <2>6, <2>7 DEF Inductive
<1>2. ASSUME NEW c \in Calls, Refuse(c), UNCHANGED serviceVars PROVE Inductive'
  BY <1>2, MovesKeep DEF Refuse, End, Moves, TypeOK
<1>3. ASSUME NEW c \in Calls, GiveUp(c), UNCHANGED serviceVars PROVE Inductive'
  BY <1>3, MovesKeep DEF GiveUp, Moves, TypeOK, Inductive, Bookkeeping
<1>4. ASSUME NEW c \in Calls, ServeCreate(c) PROVE Inductive'
  <2>0. /\ UNCHANGED <<profile, revoking, store, pc, old, new, awaited, cancelled>>
        /\ <<"create", c>> \in wire
        /\ \A d \in Calls, r \in Requests :
              <<r, d>> \in wire' <=> <<r, d>> \in wire /\ ~(r = "create" /\ d = c)
        /\ issued' = issued + 1
        /\ live' = live \union {issued + 1}
        /\ made'[c] = issued + 1
        /\ \A d \in Calls \ {c} : made'[d] = made[d] /\ answer'[d] = answer[d]
    BY <1>4 DEF ServeCreate, gatewayVars, TypeOK
  <2>o. Ordered \subseteq Ordered'
    BY <2>0, OrderedKept DEF Inductive, Bookkeeping
  <2>1. StoreIssued'
    BY <1>0, <2>0 DEF Inductive, StoreIssued, WellFormed
  <2>2. ASSUME NEW d \in Calls PROVE Bookkeeping(d)'
    <3>1. CASE d = c
      BY <1>0, <2>0, <3>1 DEF Inductive, StoreIssued, Bookkeeping, WellFormed, Blank, Payload, Requests, SuccessStatuses
    <3>2. CASE d # c
      BY <1>0, <2>0, <3>2 DEF Inductive, StoreIssued, Bookkeeping, WellFormed, Blank, Payload, Requests, SuccessStatuses
    <3>3. QED
      BY <3>1, <3>2
  <2>3. ASSUME NEW d \in Calls PROVE Unshared(d)'
    <3>1. Bookkeeping(d) /\ Unshared(d) /\ store.key <= issued /\ store.id <= issued
      BY DEF Inductive, StoreIssued
    <3>2. \A e \in Calls : old[e].key <= issued /\ old[e].id <= issued
      BY DEF Inductive, Bookkeeping
    <3>3. CASE d = c
      BY <1>0, <2>0, <3>1, <3>2, <3>3 DEF Unshared, Names
    <3>4. CASE d # c
      BY <2>0, <3>1, <3>4 DEF Unshared, Names
    <3>5. QED
      BY <3>3, <3>4
  <2>4. ASSUME NEW d \in Calls PROVE Replaced(d)'
    BY <1>0, <2>0 DEF Inductive, StoreIssued, Bookkeeping, Replaced, Unshared, Names
  <2>5. OneMaker'
    <3>1. \A d \in Calls : made[d] <= issued
      BY DEF Inductive, Bookkeeping
    <3>2. SUFFICES ASSUME NEW d \in Calls, NEW e \in Calls, made'[d] # 0, made'[d] = made'[e]
                   PROVE  d = e
      BY DEF OneMaker
    <3>3. CASE d # c /\ e # c
      BY <2>0, <3>2, <3>3 DEF Inductive, OneMaker
    <3>4. CASE (d = c /\ e # c) \/ (d # c /\ e = c)
      BY <1>0, <2>0, <3>1, <3>2, <3>4
    <3>5. QED
      BY <3>3, <3>4
  <2>6. NewestIsLive'
    BY <1>0, <2>0, <2>o DEF Inductive, StoreIssued, Bookkeeping, WellFormed, NewestIsLive
  <2>7. StoredDeadHasCause'
    BY <1>0, <2>0, <2>o DEF Inductive, StoreIssued, Bookkeeping, WellFormed, Unshared, Replaced, StoredDeadHasCause
  <2>8. QED
    BY <2>1, <2>2, <2>3, <2>4, <2>5, <2>6, <2>7 DEF Inductive
<1>5. ASSUME NEW c \in Calls, RefuseCreate(c) PROVE Inductive'
  <2>0. /\ UNCHANGED <<profile, revoking, store, issued, live, pc, old, new, made, awaited, cancelled>>
        /\ \A d \in Calls, r \in Requests : <<r, d>> \in wire' => <<r, d>> \in wire
        /\ <<"create", c>> \in wire
        /\ \A d \in Calls : answer'[d] \in SuccessStatuses => answer[d] \in SuccessStatuses
        /\ \A d \in Calls \ {c} : answer'[d] = answer[d]
    BY <1>5 DEF RefuseCreate, gatewayVars, TypeOK, ErrorStatus, SuccessStatuses
  <2>o. Ordered' = Ordered
    BY <2>0 DEF Ordered
  <2>1. ASSUME NEW d \in Calls PROVE Bookkeeping(d)'
    <3>1. Bookkeeping(d)
      BY DEF Inductive
    <3>2. CASE d = c
      BY <2>0, <3>1, <3>2 DEF Bookkeeping, WellFormed, Requests
    <3>3. CASE d # c
      BY <2>0, <3>1, <3>3 DEF Bookkeeping, WellFormed, Requests
    <3>4. QED
      BY <3>2, <3>3
  <2>2. ASSUME NEW d \in Calls PROVE Unshared(d)' /\ Replaced(d)'
    BY <2>0 DEF Inductive, Unshared, Replaced, Names
  <2>3. OneMaker' /\ NewestIsLive' /\ StoredDeadHasCause'
    BY <2>0, <2>o DEF Inductive, OneMaker, NewestIsLive, StoredDeadHasCause
  <2>4. QED
    BY <2>0, <2>1, <2>2, <2>3 DEF Inductive, StoreIssued, WellFormed
<1>6. ASSUME NEW c \in Calls, ServeDelete(c) PROVE Inductive'
  <2>0. /\ UNCHANGED <<profile, revoking, store, issued, pc, old, new, made, answer, awaited, cancelled>>
        /\ <<"delete", c>> \in wire
        /\ \A d \in Calls, r \in Requests :
              <<r, d>> \in wire' <=> <<r, d>> \in wire /\ ~(r = "delete" /\ d = c)
        /\ live' = live \ {old[c].id}
    BY <1>6 DEF ServeDelete, gatewayVars, TypeOK
  <2>a. c \in revoking => old[c].id \in {0} \union Ordered
    BY <2>0 DEF Inductive, StoreIssued, Bookkeeping, Ordered
  <2>o. Ordered \subseteq Ordered'
    BY <2>0, OrderedKept DEF Inductive, Bookkeeping
  <2>1. StoreIssued'
    BY <1>0, <2>0 DEF Inductive, StoreIssued, WellFormed
  <2>2. ASSUME NEW d \in Calls PROVE Bookkeeping(d)'
    <3>1. CASE d = c
      BY <1>0, <2>0, <3>1 DEF Inductive, StoreIssued, Bookkeeping, WellFormed, Blank, Payload, Requests, SuccessStatuses
    <3>2. CASE d # c
      BY <1>0, <2>0, <3>2 DEF Inductive, StoreIssued, Bookkeeping, WellFormed, Blank, Payload, Requests, SuccessStatuses
    <3>3. QED
      BY <3>1, <3>2
  <2>3. ASSUME NEW d \in Calls PROVE Unshared(d)'
    <3>1. Unshared(d)
      BY DEF Inductive
    <3>2. QED
      BY <1>0, <2>0, <3>1 DEF Unshared, Names
  <2>4. ASSUME NEW d \in Calls PROVE Replaced(d)'
    BY <1>0, <2>0 DEF Inductive, StoreIssued, Bookkeeping, Replaced, Unshared, Names
  <2>5. OneMaker'
    BY <1>0, <2>0 DEF Inductive, StoreIssued, Bookkeeping, OneMaker
  <2>6. NewestIsLive'
    <3>1. CASE c \in revoking
      BY <1>0, <2>0, <2>o, <2>a, <3>1 DEF Inductive, NewestIsLive
    <3>2. CASE c \notin revoking
      <4>1. profile.order = "create_first" => old[c].id < made[c] /\ made[c] <= issued
        BY <2>0, <3>2 DEF Inductive, Bookkeeping
      <4>2. QED
        BY <1>0, <2>0, <2>o, <4>1 DEF Inductive, NewestIsLive
    <3>3. QED
      BY <3>1, <3>2
  <2>7. StoredDeadHasCause'
    <3>1. \A d \in Calls : made[d] # 0 /\ pc[d] # "stored" => made[d] \in live'
      BY <2>0, <2>3 DEF Unshared
    <3>2. SUFFICES ASSUME store.key # 0, store.key \notin live', store.key \notin Ordered
                   PROVE  \E d \in Calls :
                             /\ old[d] = store
                             /\ \/ pc[d] \in {"delete", "reply", "lost", "dead"} /\ made[d] \in live'
                                \/ profile.order = "delete_first" /\ pc[d] \notin {"idle", "stored"}
      BY <2>0, <2>o DEF StoredDeadHasCause
    <3>3. CASE store.key \notin live
      <4>1. PICK d \in Calls :
                  /\ old[d] = store
                  /\ \/ pc[d] \in {"delete", "reply", "lost", "dead"} /\ made[d] \in live
                     \/ profile.order = "delete_first" /\ pc[d] \notin {"idle", "stored"}
        BY <3>2, <3>3 DEF Inductive, StoredDeadHasCause
      <4>2. made[d] \in live => made[d] # 0
        BY <1>0
      <4>3. QED
        BY <3>1, <4>1, <4>2
    <3>4. CASE store.key \in live
      <4>1. old[c].id = store.key /\ c \notin revoking
        BY <1>0, <2>0, <2>a, <3>2, <3>4
      <4>2. old[c] = store /\ pc[c] # "stored"
        BY <3>2, <4>1 DEF Inductive, Replaced, Names
      <4>3. pc[c] # "idle"
        BY <2>0 DEF Inductive, StoreIssued, Bookkeeping, Requests
      <4>4. CASE profile.order = "create_first"
        <5>1. made[c] # 0 /\ pc[c] \in {"delete", "reply", "stored", "lost", "dead"}
          BY <2>0, <4>1, <4>4 DEF Inductive, Bookkeeping
        <5>2. QED
          BY <3>1, <4>2, <5>1
      <4>5. CASE profile.order = "delete_first"
        BY <4>2, <4>3, <4>5
      <4>6. QED
        BY <1>0, <4>4, <4>5
    <3>5. QED
      BY <3>3, <3>4
  <2>8. QED
    BY <2>1, <2>2, <2>3, <2>4, <2>5, <2>6, <2>7 DEF Inductive
<1>7. ASSUME NEW c \in Calls, NoticeLeft(c), UNCHANGED serviceVars PROVE Inductive'
  BY <1>7, MovesKeep DEF NoticeLeft, Running, Moves, TypeOK
<1>8. ASSUME NEW c \in Calls, CreateSucceeds(c) PROVE Inductive'
  <2>a. /\ Send(c, AfterCreate(c)) /\ AfterCreate(c) \in Stages
        /\ pc' = [pc EXCEPT ![c] = AfterCreate(c)]
        /\ UNCHANGED <<profile, revoking, store, issued, live, old, made, answer, awaited, cancelled>>
        /\ pc[c] = "create" /\ answer[c] \in SuccessStatuses
    BY <1>8, StagesType DEF CreateSucceeds, GoOn, Accepts, Stages, Requests, TypeOK, ProfileType
  <2>b. made[c] # 0
    BY <2>a DEF Inductive, Bookkeeping
  <2>c. PICK body \in Bodies(made[c]) :
          new' = [new EXCEPT ![c] = body] /\ (profile.checks => body.key # 0)
    BY <1>8 DEF CreateSucceeds, GoOn, Accepts
  <2>d. /\ new'[c] = body
        /\ WellFormed(body) /\ body.id \in {0, made[c]} /\ body.key \in {0, made[c]}
        /\ body.key = 0 => Blanks /\ ~profile.checks
        /\ \A d \in Calls \ {c} : new'[d] = new[d]
    BY <1>0, <2>b, <2>c, BodyType DEF TypeOK
  <2>e. /\ pc'[c] \in {"delete", "reply"}
        /\ profile.order = "delete_first" => pc'[c] = "reply"
    BY <2>a DEF AfterCreate, TypeOK
  <2>0. /\ UNCHANGED <<profile, revoking, store, issued, live, old, made, answer, awaited, cancelled>>
        /\ pc[c] = "create" /\ made[c] # 0
        /\ pc'[c] \in {"delete", "reply"}
        /\ profile.order = "delete_first" => pc'[c] = "reply"
        /\ \A d \in Calls \ {c} : pc'[d] = pc[d] /\ new'[d] = new[d]
        /\ WellFormed(new'[c]) /\ new'[c].id \in {0, made[c]} /\ new'[c].key \in {0, made[c]}
        /\ new'[c].key = 0 => Blanks /\ ~profile.checks
        /\ \A d \in Calls \ {c}, r \in Requests : <<r, d>> \in wire' <=> <<r, d>> \in wire
        /\ \A r \in Requests : <<r, c>> \in wire' => r = pc'[c] \/ <<r, c>> \in wire
    BY <2>a, <2>b, <2>d, <2>e, SendEffect DEF TypeOK
  <2>o. Ordered \subseteq Ordered'
    BY <2>0, OrderedKept DEF Inductive, Bookkeeping
  <2>1. StoreIssued'
    BY <1>0, <2>0 DEF Inductive, StoreIssued, WellFormed
  <2>2. ASSUME NEW d \in Calls PROVE Bookkeeping(d)'
    <3>1. CASE d = c
      BY <1>0, <2>0, <3>1 DEF Inductive, StoreIssued, Bookkeeping, WellFormed, Blank, Payload, Requests, SuccessStatuses
    <3>2. CASE d # c
      BY <1>0, <2>0, <3>2 DEF Inductive, StoreIssued, Bookkeeping, WellFormed, Blank, Payload, Requests, SuccessStatuses
    <3>3. QED
      BY <3>1, <3>2
  <2>3. ASSUME NEW d \in Calls PROVE Unshared(d)'
    BY <1>0, <2>0 DEF Inductive, StoreIssued, Bookkeeping, WellFormed, Unshared, Names, OneMaker
  <2>4. ASSUME NEW d \in Calls PROVE Replaced(d)'
    BY <1>0, <2>0 DEF Inductive, StoreIssued, Bookkeeping, Replaced, Unshared, Names
  <2>5. OneMaker'
    BY <1>0, <2>0 DEF Inductive, StoreIssued, Bookkeeping, OneMaker
  <2>6. NewestIsLive'
    BY <1>0, <2>0, <2>o DEF Inductive, StoreIssued, Bookkeeping, WellFormed, NewestIsLive
  <2>7. StoredDeadHasCause'
    BY <1>0, <2>0, <2>o DEF Inductive, StoreIssued, Bookkeeping, WellFormed, Unshared, Replaced, StoredDeadHasCause
  <2>8. QED
    BY <2>1, <2>2, <2>3, <2>4, <2>5, <2>6, <2>7 DEF Inductive
<1>9. ASSUME NEW c \in Calls, CreateFails(c) PROVE Inductive'
  BY <1>9, MovesKeep DEF CreateFails, Fail, End, Moves, TypeOK
<1>10. ASSUME NEW c \in Calls, DeleteReturns(c) PROVE Inductive'
  <2>a. Send(c, AfterDelete) /\ AfterDelete \in Stages
    BY <1>10, StagesType DEF DeleteReturns, Stages, Requests
  <2>0. /\ UNCHANGED <<profile, revoking, store, issued, live, old, new, made, answer, awaited, cancelled>>
        /\ pc[c] = "delete" /\ c \notin revoking
        /\ profile.order = "create_first" => pc'[c] = "reply"
        /\ profile.order = "delete_first" => pc'[c] = "create"
        /\ \A d \in Calls \ {c} : pc'[d] = pc[d]
        /\ \A d \in Calls \ {c}, r \in Requests : <<r, d>> \in wire' <=> <<r, d>> \in wire
        /\ \A r \in Requests : <<r, c>> \in wire' => r = pc'[c] \/ <<r, c>> \in wire
    BY <1>10, <2>a, SendEffect DEF DeleteReturns, GoOn, AfterDelete, TypeOK
  <2>o. Ordered \subseteq Ordered'
    BY <2>0, OrderedKept DEF Inductive, Bookkeeping
  <2>1. StoreIssued'
    BY <1>0, <2>0 DEF Inductive, StoreIssued, WellFormed
  <2>2. ASSUME NEW d \in Calls PROVE Bookkeeping(d)'
    <3>1. CASE d = c
      BY <1>0, <2>0, <3>1 DEF Inductive, StoreIssued, Bookkeeping, WellFormed, Blank, Payload, Requests, SuccessStatuses
    <3>2. CASE d # c
      BY <1>0, <2>0, <3>2 DEF Inductive, StoreIssued, Bookkeeping, WellFormed, Blank, Payload, Requests, SuccessStatuses
    <3>3. QED
      BY <3>1, <3>2
  <2>3. ASSUME NEW d \in Calls PROVE Unshared(d)'
    BY <1>0, <2>0 DEF Inductive, StoreIssued, Bookkeeping, WellFormed, Unshared, Names, OneMaker
  <2>4. ASSUME NEW d \in Calls PROVE Replaced(d)'
    BY <1>0, <2>0 DEF Inductive, StoreIssued, Bookkeeping, Replaced, Unshared, Names
  <2>5. OneMaker'
    BY <1>0, <2>0 DEF Inductive, StoreIssued, Bookkeeping, OneMaker
  <2>6. NewestIsLive'
    BY <1>0, <2>0, <2>o DEF Inductive, StoreIssued, Bookkeeping, WellFormed, NewestIsLive
  <2>7. StoredDeadHasCause'
    BY <1>0, <2>0, <2>o DEF Inductive, StoreIssued, Bookkeeping, WellFormed, Unshared, Replaced, StoredDeadHasCause
  <2>8. QED
    BY <2>1, <2>2, <2>3, <2>4, <2>5, <2>6, <2>7 DEF Inductive
<1>11. ASSUME NEW c \in Calls \ revoking, Deliver(c), UNCHANGED serviceVars PROVE Inductive'
  <2>0. /\ UNCHANGED <<profile, revoking, issued, live, wire, old, new, made, answer, cancelled>>
        /\ store' = new[c]
        /\ pc[c] = "reply" /\ pc'[c] = "stored"
        /\ \A d \in Calls \ {c} : pc'[d] = pc[d] /\ awaited'[d] = awaited[d]
    BY <1>11 DEF Deliver, End, serviceVars, TypeOK
  <2>o. Ordered \subseteq Ordered'
    BY <2>0, OrderedKept DEF Inductive, Bookkeeping
  <2>1. StoreIssued'
    <3>1. Bookkeeping(c)
      BY DEF Inductive
    <3>2. WellFormed(store)'
      BY <2>0, <3>1 DEF Bookkeeping, WellFormed
    <3>3. (store.id <= issued)' /\ (store.key <= issued)'
      BY <1>0, <2>0, <3>1 DEF Bookkeeping
    <3>4. store'.key = 0 => Blanks
      BY <2>0, <3>1 DEF Bookkeeping
    <3>5. QED
      BY <3>2, <3>3, <3>4 DEF StoreIssued
  <2>2. ASSUME NEW d \in Calls PROVE Bookkeeping(d)'
    <3>1. CASE d = c
      BY <1>0, <2>0, <3>1 DEF Inductive, StoreIssued, Bookkeeping, WellFormed, Blank, Payload, Requests, SuccessStatuses
    <3>2. CASE d # c
      BY <1>0, <2>0, <3>2 DEF Inductive, StoreIssued, Bookkeeping, WellFormed, Blank, Payload, Requests, SuccessStatuses
    <3>3. QED
      BY <3>1, <3>2
  <2>3. ASSUME NEW d \in Calls PROVE Unshared(d)'
    <3>1. made[c] # 0 /\ Names(store)' \subseteq {made[c]}
      BY <2>0 DEF Inductive, StoreIssued, Bookkeeping, Names
    <3>2. Unshared(d) /\ (made[d] # 0 /\ made[d] = made[c] => d = c)
      BY DEF Inductive, OneMaker
    <3>3. QED
      BY <2>0, <3>1, <3>2 DEF Unshared, Names
  <2>4. ASSUME NEW d \in Calls PROVE Replaced(d)'
    <3>1. Bookkeeping(c) /\ Bookkeeping(d) /\ Unshared(c)
      BY DEF Inductive
    <3>2. made[c] # 0 /\ Names(store)' \subseteq {made[c]} /\ made[c] \notin Names(old[d])
      BY <2>0, <3>1 DEF Bookkeeping, Unshared, Names
    <3>3. QED
      BY <2>0, <3>2 DEF Replaced, Names
  <2>5. OneMaker'
    BY <1>0, <2>0 DEF Inductive, StoreIssued, Bookkeeping, OneMaker
  <2>6. NewestIsLive'
    BY <1>0, <2>0, <2>o DEF Inductive, StoreIssued, Bookkeeping, WellFormed, NewestIsLive
  <2>7. StoredDeadHasCause'
    BY <1>0, <2>0, <2>o DEF Inductive, StoreIssued, Bookkeeping, WellFormed, Unshared, Replaced, StoredDeadHasCause
  <2>8. QED
    BY <2>1, <2>2, <2>3, <2>4, <2>5, <2>6, <2>7 DEF Inductive
<1>12. ASSUME NEW c \in Calls, Drop(c), UNCHANGED serviceVars PROVE Inductive'
  BY <1>12, MovesKeep DEF Drop, End, Moves, TypeOK
<1>13. ASSUME NEW c \in Calls, Die(c), UNCHANGED serviceVars PROVE Inductive'
  BY <1>13, MovesKeep DEF Die, End, Moves, TypeOK
<1>14. ASSUME NEW c \in Calls, TriggerRevoke(c) PROVE Inductive'
  <2>a. /\ Send(c, RevokeStage(store)) /\ RevokeStage(store) \in Stages
        /\ RevokeStage(store) = "delete" => profile.revoke # "none"
    BY <1>14, StagesType DEF TriggerRevoke, Stages, Requests, RevokeStage
  <2>0. /\ UNCHANGED <<profile, store, issued, live, new, made, answer, cancelled>>
        /\ revoking' = revoking \union {c}
        /\ pc[c] = "idle" /\ pc'[c] \in {"delete", "reply"}
        /\ pc'[c] = "delete" => profile.revoke # "none"
        /\ \A d \in Calls \ {c} : pc'[d] = pc[d] /\ old'[d] = old[d] /\ awaited'[d] = awaited[d]
        /\ old'[c] = store
        /\ \A d \in Calls \ {c}, r \in Requests : <<r, d>> \in wire' <=> <<r, d>> \in wire
        /\ \A r \in Requests : <<r, c>> \in wire' => r = pc'[c] \/ <<r, c>> \in wire
    BY <1>14, <2>a, SendEffect, StagesType DEF TriggerRevoke, Start, TypeOK
  <2>o. Ordered \subseteq Ordered'
    BY <2>0, OrderedKept DEF Inductive, StoreIssued, Bookkeeping, TypeOK
  <2>1. StoreIssued'
    BY <1>0, <2>0 DEF Inductive, StoreIssued, WellFormed
  <2>2. ASSUME NEW d \in Calls PROVE Bookkeeping(d)'
    <3>1. CASE d = c
      BY <1>0, <2>0, <3>1 DEF Inductive, StoreIssued, Bookkeeping, WellFormed, Blank, Payload, Requests, SuccessStatuses
    <3>2. CASE d # c
      BY <1>0, <2>0, <3>2 DEF Inductive, StoreIssued, Bookkeeping, WellFormed, Blank, Payload, Requests, SuccessStatuses
    <3>3. QED
      BY <3>1, <3>2
  <2>3. ASSUME NEW d \in Calls PROVE Unshared(d)'
    <3>1. Bookkeeping(c) /\ Bookkeeping(d) /\ Unshared(d)
      BY DEF Inductive
    <3>2. CASE d = c
      BY <2>0, <3>1, <3>2 DEF Bookkeeping, Unshared
    <3>3. CASE d # c
      BY <2>0, <3>1, <3>3 DEF Unshared, Names
    <3>4. QED
      BY <3>2, <3>3
  <2>4. ASSUME NEW d \in Calls PROVE Replaced(d)'
    <3>1. Bookkeeping(c) /\ Replaced(d)
      BY DEF Inductive
    <3>2. CASE d = c
      BY <2>0, <3>1, <3>2 DEF Replaced
    <3>3. CASE d # c
      BY <2>0, <3>1, <3>3 DEF Replaced, Names
    <3>4. QED
      BY <3>2, <3>3
  <2>5. OneMaker'
    BY <1>0, <2>0 DEF Inductive, StoreIssued, Bookkeeping, OneMaker
  <2>6. NewestIsLive'
    BY <1>0, <2>0, <2>o DEF Inductive, NewestIsLive
  <2>7. StoredDeadHasCause'
    BY <1>0, <2>0, <2>o DEF Inductive, StoreIssued, Bookkeeping, StoredDeadHasCause
  <2>8. QED
    BY <2>1, <2>2, <2>3, <2>4, <2>5, <2>6, <2>7 DEF Inductive
<1>15. ASSUME NEW c \in Calls, RevokeReturns(c) PROVE Inductive'
  <2>1. /\ UNCHANGED <<serviceVars, store, old, cancelled>>
        /\ c \in revoking /\ pc[c] = "delete" /\ pc'[c] \in {"reply", "failed"}
        /\ new' = new
        /\ \A d \in Calls \ {c} : pc'[d] = pc[d] /\ awaited'[d] = awaited[d]
    BY <1>15 DEF RevokeReturns, GoOn, Fail, End, TypeOK
  <2>2. QED
    BY <2>1, MovesKeep DEF Moves
<1>16. ASSUME NEW c \in Calls, c \in revoking, Acknowledge(c), UNCHANGED serviceVars PROVE Inductive'
  BY <1>16, MovesKeep DEF Acknowledge, End, Moves, TypeOK
<1>17. CASE UNCHANGED vars
  BY <1>17 DEF vars, gatewayVars, serviceVars, Inductive, StoreIssued, WellFormed, Bookkeeping, Unshared, Replaced,
       Names, OneMaker, NewestIsLive, StoredDeadHasCause, Ordered
<1>18. QED
  BY <1>1, <1>2, <1>3, <1>4, <1>5, <1>6, <1>7, <1>8, <1>9, <1>10, <1>11,
     <1>12, <1>13, <1>14, <1>15, <1>16, <1>17 DEF Next, Progress, Return

LEMMA InductiveInvariant == Spec => [](TypeOK /\ Inductive)
<1>1. Init => TypeOK /\ Inductive
  BY TypeInit, InductiveInit
<1>2. TypeOK /\ Inductive /\ [Next]_vars => (TypeOK /\ Inductive)'
  BY TypeStep, InductiveStep
<1>3. QED
  BY <1>1, <1>2, PTL DEF Spec

-----------------------------------------------------------------------------
\* The safety properties.

\* Whatever the calls do and however they end, a create-first target leaves the
\* newest credential alive, unless a revocation was sent to delete it.
THEOREM NewestAlwaysLive == Spec => []NewestIsLive
<1>1. Inductive => NewestIsLive
  BY DEF Inductive
<1>2. QED
  BY <1>1, InductiveInvariant, PTL

\* Only a revocation that was sent the stored credential, or a rotation that was sent
\* it and has not delivered, can have killed it; with a create-first target that
\* rotation holds one that works.
THEOREM StoredDeadAlwaysHasCause == Spec => []StoredDeadHasCause
<1>1. Inductive => StoredDeadHasCause
  BY DEF Inductive
<1>2. QED
  BY <1>1, InductiveInvariant, PTL

LEMMA DeliveredStep ==
    ASSUME TypeOK, Inductive, [Next]_vars, NEW c \in Calls,
           pc[c] # "stored", pc'[c] = "stored"
    PROVE  store'.key \in live' \/ (store'.key = 0 /\ ~profile.checks)
<1>1. c \notin revoking /\ Deliver(c) /\ UNCHANGED serviceVars
  <2>1. ASSUME NEW d \in Calls, NEW stage \in {"create", "delete", "reply"},
               pc' = [pc EXCEPT ![d] = stage]
        PROVE  FALSE
    BY <2>1 DEF TypeOK
  <2>2. \A d \in Calls : ~Trigger(d) /\ ~TriggerRevoke(d) /\ ~CreateSucceeds(d) /\ ~DeleteReturns(d)
    BY <2>1, StagesType DEF Trigger, TriggerRevoke, Start, CreateSucceeds, DeleteReturns, GoOn, Requests
  <2>3. \A d \in Calls : ~Refuse(d) /\ ~CreateFails(d) /\ ~Drop(d) /\ ~Die(d)
                         /\ ~Acknowledge(d) /\ ~RevokeReturns(d)
    BY DEF Refuse, CreateFails, Fail, Drop, Die, Acknowledge, RevokeReturns, GoOn, End, TypeOK
  <2>4. \A d \in Calls : ~GiveUp(d) /\ ~ServeCreate(d) /\ ~RefuseCreate(d)
                         /\ ~ServeDelete(d) /\ ~NoticeLeft(d)
    BY DEF GiveUp, ServeCreate, RefuseCreate, ServeDelete, NoticeLeft, gatewayVars
  <2>5. ~UNCHANGED vars
    BY DEF vars, gatewayVars
  <2>6. PICK d \in Calls : d \notin revoking /\ Deliver(d) /\ UNCHANGED serviceVars
    BY <2>2, <2>3, <2>4, <2>5 DEF Next, Progress, Return
  <2>7. QED
    BY <2>6 DEF Deliver, End, TypeOK
<1>2. /\ store' = new[c] /\ live' = live /\ profile' = profile
      /\ pc[c] = "reply"
      /\ new[c] \in PayloadType
  BY <1>1 DEF Deliver, serviceVars, TypeOK
<1>3. Bookkeeping(c) /\ Unshared(c)
  BY DEF Inductive
<1>4. made[c] # 0 /\ made[c] \in live /\ new[c].key \in {0, made[c]}
  BY <1>1, <1>2, <1>3 DEF Bookkeeping, Unshared
<1>5. CASE new[c].key = 0
  BY <1>2, <1>3, <1>4, <1>5 DEF Bookkeeping
<1>6. CASE new[c].key = made[c]
  BY <1>2, <1>4, <1>6
<1>7. QED
  BY <1>4, <1>5, <1>6

\* Whatever the target, a stored payload holds a credential that works when it is
\* stored, or lacks one because the answer did and the client does not look.
THEOREM DeliveredAlwaysWorks == Spec => DeliveredWorks
<1>1. TypeOK /\ Inductive /\ [Next]_vars =>
        [\A c \in Calls : pc[c] # "stored" /\ pc'[c] = "stored" =>
            \/ store'.key \in live'
            \/ store'.key = 0 /\ ~profile.checks]_vars
  BY DeliveredStep
<1>2. QED
  BY <1>1, InductiveInvariant, PTL DEF Spec, DeliveredWorks

-----------------------------------------------------------------------------
\* What is left behind.

LEMMA AccountingInit == Init => Accounting
<1> SUFFICES ASSUME Init PROVE Accounting
  OBVIOUS
<1>1. store.key = issued /\ issued \in {0, 1}
  BY DEF Init
<1>2. QED
  BY <1>1 DEF Init, GatewayInit, Accounting, Awaited, DeleteSent, ReplacedByOne, Overlapped,
              LeakHasCause, Running

\* Steps that leave the place of the calls, their payloads and the service's state
\* as they are keep LeakHasCause: no live credential loses its cause.
LEMMA LeakKept ==
    ASSUME LeakHasCause, UNCHANGED <<store, live, made>>,
           \A d \in Calls : (pc'[d] = "stored") <=> (pc[d] = "stored"),
           \A d \in Calls : pc[d] = "stored" => old'[d] = old[d] /\ new'[d] = new[d],
           \A d \in Calls : <<"delete", d>> \in wire => <<"delete", d>> \in wire'
    PROVE  LeakHasCause'
<1>1. Overlapped => Overlapped'
  BY DEF Overlapped
<1>2. QED
  BY <1>1 DEF LeakHasCause

\* Nothing gets replaced but by a delivery.
LEMMA ReplacedKept ==
    ASSUME ReplacedByOne, store' = store,
           \A d \in Calls : (pc'[d] = "stored") <=> (pc[d] = "stored"),
           \A d \in Calls : pc[d] = "stored" => old'[d] = old[d],
           \A d \in Calls : \/ old'[d] = store
                            \/ old'[d] = old[d] /\ (Running(d)' => Running(d))
    PROVE  ReplacedByOne'
<1>1. Overlapped => Overlapped'
  BY DEF Overlapped
<1>2. QED
  BY <1>1 DEF ReplacedByOne

LEMMA AccountingStep ==
    TypeOK /\ Inductive /\ Accounting /\ [Next]_vars => Accounting'
<1> SUFFICES ASSUME TypeOK, Inductive, Accounting, [Next]_vars
             PROVE  Accounting'
  OBVIOUS
<1>0. /\ LeakHasCause /\ ReplacedByOne
      /\ \A d \in Calls : Awaited(d) /\ DeleteSent(d) /\ Bookkeeping(d) /\ Unshared(d)
  BY DEF Accounting, Inductive
<1>a. /\ issued \in Nat /\ live \subseteq 1..issued
      /\ store \in [id : Nat, key : Nat]
      /\ \A d \in Calls : /\ old[d] \in [id : Nat, key : Nat]
                          /\ old[d].id = 0 \/ old[d].key \in {0, old[d].id}
                          /\ old[d].id <= issued /\ old[d].key <= issued
                          /\ made[d] \in Nat
                          /\ pc[d] \in Stages
      /\ profile.order \in {"create_first", "delete_first"}
  BY <1>0 DEF TypeOK, PayloadType, ProfileType, Bookkeeping, WellFormed
<1>q. ASSUME \A d \in Calls : Awaited(d)' /\ DeleteSent(d)', ReplacedByOne', LeakHasCause'
      PROVE  Accounting'
  BY <1>q DEF Accounting
<1>1. ASSUME NEW c \in Calls, Trigger(c) PROVE Accounting'
  <2>a. Send(c, FirstStage(store)) /\ FirstStage(store) \in Stages
    BY <1>1, StagesType DEF Trigger, Stages
  <2>0. /\ UNCHANGED <<profile, revoking, store, issued, live, new, made, cancelled>>
        /\ pc[c] = "idle" /\ pc'[c] = FirstStage(store) /\ pc'[c] \in Requests
        /\ Serial => \A d \in Calls : ~awaited[d]
        /\ \A d \in Calls \ {c} : pc'[d] = pc[d] /\ old'[d] = old[d] /\ awaited'[d] = awaited[d]
        /\ old'[c] = store
        /\ wire \subseteq wire'
        /\ ~cancelled[c] => <<FirstStage(store), c>> \in wire'
        /\ \A d \in Calls \ {c} : <<"delete", d>> \in wire' <=> <<"delete", d>> \in wire
    BY <1>1, <2>a, SendEffect, StagesType DEF Trigger, Start, Send, TypeOK, Requests
  <2>1. ~cancelled[c]
    BY <1>0, <2>0 DEF Bookkeeping
  <2>2. ASSUME NEW d \in Calls PROVE Awaited(d)'
    BY <1>0, <2>0, <2>1 DEF Awaited, Running, Ended, Requests
  <2>3. ASSUME NEW d \in Calls PROVE DeleteSent(d)'
    <3>1. CASE d = c
      BY <1>a, <2>0, <2>1, <3>1 DEF DeleteSent, FirstStage, Requests
    <3>2. CASE d # c
      BY <1>0, <2>0, <3>2 DEF DeleteSent
    <3>3. QED
      BY <3>1, <3>2
  <2>4. ReplacedByOne'
    BY <1>0, <2>0, ReplacedKept DEF Requests, Running
  <2>5. LeakHasCause'
    BY <1>0, <2>0, LeakKept DEF Requests
  <2>6. QED
    BY <1>q, <2>2, <2>3, <2>4, <2>5
<1>2. ASSUME NEW c \in Calls,
             Refuse(c) \/ CreateFails(c) \/ Acknowledge(c) \/ Drop(c) \/ Die(c), UNCHANGED serviceVars
      PROVE  Accounting'
  <2>0. /\ UNCHANGED <<serviceVars, store, old, new, cancelled>>
        /\ pc[c] # "stored" /\ pc'[c] \in {"failed", "acknowledged", "lost", "dead"} /\ ~awaited'[c]
        /\ \A d \in Calls \ {c} : pc'[d] = pc[d] /\ awaited'[d] = awaited[d]
    BY <1>2 DEF Refuse, CreateFails, Fail, Acknowledge, Drop, Die, End, Running, Ended, TypeOK
  <2>1. \A d \in Calls : Awaited(d)' /\ DeleteSent(d)'
    BY <1>0, <2>0 DEF Awaited, DeleteSent, serviceVars, Running
  <2>2. ReplacedByOne' /\ LeakHasCause'
    BY <1>0, <2>0, LeakKept, ReplacedKept DEF serviceVars, Running, Ended
  <2>3. QED
    BY <1>q, <2>1, <2>2
<1>3. ASSUME NEW c \in Calls, GiveUp(c), UNCHANGED serviceVars PROVE Accounting'
  <2>0. /\ UNCHANGED <<serviceVars, store, pc, old, new, cancelled>>
        /\ \A d \in Calls : awaited'[d] => awaited[d]
    BY <1>3 DEF GiveUp, TypeOK
  <2>1. \A d \in Calls : Awaited(d)' /\ DeleteSent(d)'
    BY <1>0, <2>0 DEF Awaited, DeleteSent, serviceVars, Running
  <2>2. ReplacedByOne' /\ LeakHasCause'
    BY <1>0, <2>0, LeakKept, ReplacedKept DEF serviceVars, Running
  <2>3. QED
    BY <1>q, <2>1, <2>2
<1>4. ASSUME NEW c \in Calls, ServeCreate(c) PROVE Accounting'
  <2>0. /\ UNCHANGED <<profile, revoking, store, pc, old, new, awaited, cancelled>>
        /\ <<"create", c>> \in wire
        /\ \A d \in Calls : <<"delete", d>> \in wire' <=> <<"delete", d>> \in wire
        /\ live' = live \union {issued + 1}
        /\ made'[c] = issued + 1
        /\ \A d \in Calls \ {c} : made'[d] = made[d]
    BY <1>4 DEF ServeCreate, gatewayVars, TypeOK
  <2>1. \A d \in Calls : Awaited(d)'
    BY <1>0, <2>0 DEF Awaited, Running
  <2>2. ASSUME NEW d \in Calls PROVE DeleteSent(d)'
    BY <1>0, <1>a, <2>0 DEF DeleteSent
  <2>3. made[c] = 0 /\ pc[c] # "stored"
    BY <1>0, <2>0 DEF Bookkeeping
  <2>4. ReplacedByOne' /\ (Overlapped' <=> Overlapped)
    BY <1>0, <2>0, ReplacedKept DEF Running, Overlapped
  <2>5. LeakHasCause'
    <3>1. SUFFICES ASSUME NEW k \in live' \ {store.key}
                   PROVE \/ \E d \in Calls : made'[d] = k /\ (pc[d] # "stored" \/ new[d].key # k)
                         \/ \E d \in Calls :
                               /\ pc[d] = "stored"
                               /\ old[d].key = k
                               /\ old[d].id = 0 \/ <<"delete", d>> \in wire
                         \/ ~Serial /\ Overlapped
      BY <2>0, <2>4 DEF LeakHasCause
    <3>2. CASE k = issued + 1
      BY <2>0, <2>3, <3>2
    <3>3. CASE k \in live
      <4>1. k # 0
        BY <1>a, <3>3
      <4>2. QED
        BY <1>0, <2>0, <2>3, <3>1, <3>3, <4>1 DEF LeakHasCause
    <3>4. QED
      BY <2>0, <3>2, <3>3
  <2>6. QED
    BY <1>q, <2>1, <2>2, <2>4, <2>5
<1>5. ASSUME NEW c \in Calls, RefuseCreate(c) PROVE Accounting'
  <2>0. /\ UNCHANGED <<gatewayVars, profile, revoking, issued, live, made>>
        /\ \A d \in Calls : <<"delete", d>> \in wire' <=> <<"delete", d>> \in wire
    BY <1>5 DEF RefuseCreate
  <2>1. \A d \in Calls : Awaited(d)' /\ DeleteSent(d)'
    BY <1>0, <2>0 DEF Awaited, DeleteSent, gatewayVars, Running
  <2>2. ReplacedByOne' /\ LeakHasCause'
    BY <1>0, <2>0, LeakKept, ReplacedKept DEF gatewayVars, Running
  <2>3. QED
    BY <1>q, <2>1, <2>2
<1>6. ASSUME NEW c \in Calls, ServeDelete(c) PROVE Accounting'
  <2>0. /\ UNCHANGED <<gatewayVars, profile, revoking, issued, made>>
        /\ \A d \in Calls \ {c} : <<"delete", d>> \in wire' <=> <<"delete", d>> \in wire
        /\ live' = live \ {old[c].id}
    BY <1>6 DEF ServeDelete
  <2>1. \A d \in Calls : Awaited(d)' /\ DeleteSent(d)'
    BY <1>0, <2>0 DEF Awaited, DeleteSent, gatewayVars, Running
  <2>2. ReplacedByOne' /\ (Overlapped' <=> Overlapped)
    BY <1>0, <2>0, ReplacedKept DEF gatewayVars, Running, Overlapped
  <2>3. LeakHasCause'
    BY <1>0, <1>a, <2>0, <2>2 DEF LeakHasCause, gatewayVars
  <2>4. QED
    BY <1>q, <2>1, <2>2, <2>3
<1>7. ASSUME NEW c \in Calls, NoticeLeft(c), UNCHANGED serviceVars PROVE Accounting'
  <2>0. /\ UNCHANGED <<serviceVars, store, pc, old, new, awaited>>
        /\ ~awaited[c]
        /\ \A d \in Calls : cancelled[d] => cancelled'[d]
        /\ \A d \in Calls \ {c} : cancelled'[d] = cancelled[d]
    BY <1>7 DEF NoticeLeft, TypeOK
  <2>1. \A d \in Calls : Awaited(d)' /\ DeleteSent(d)'
    BY <1>0, <2>0 DEF Awaited, DeleteSent, serviceVars, Running
  <2>2. ReplacedByOne' /\ LeakHasCause'
    BY <1>0, <2>0, LeakKept, ReplacedKept DEF serviceVars, Running
  <2>3. QED
    BY <1>q, <2>1, <2>2
<1>8. ASSUME NEW c \in Calls, CreateSucceeds(c) PROVE Accounting'
  <2>a. Send(c, AfterCreate(c)) /\ AfterCreate(c) \in {"delete", "reply"}
    BY <1>8, StagesType DEF CreateSucceeds
  <2>0. /\ UNCHANGED <<profile, revoking, store, issued, live, old, made, awaited, cancelled>>
        /\ pc[c] = "create" /\ pc'[c] = AfterCreate(c)
        /\ \A d \in Calls \ {c} : pc'[d] = pc[d] /\ new'[d] = new[d]
    BY <1>8 DEF CreateSucceeds, GoOn, TypeOK
  <2>b. /\ wire \subseteq wire'
        /\ AfterCreate(c) = "delete" /\ ~cancelled[c] => <<"delete", c>> \in wire'
    BY <2>a DEF Send, Requests
  <2>1. \A d \in Calls : Awaited(d)'
    BY <1>0, <2>0, <2>a DEF Awaited, Running, Ended
  <2>2. ASSUME NEW d \in Calls PROVE DeleteSent(d)'
    <3>1. CASE d = c
      BY <1>0, <1>a, <2>0, <2>b, <3>1 DEF DeleteSent, AfterCreate
    <3>2. CASE d # c
      BY <1>0, <2>0, <2>b, <3>2 DEF DeleteSent
    <3>3. QED
      BY <3>1, <3>2
  <2>3. ReplacedByOne' /\ LeakHasCause'
    BY <1>0, <2>0, <2>a, <2>b, LeakKept, ReplacedKept DEF Running, Ended
  <2>4. QED
    BY <1>q, <2>1, <2>2, <2>3
<1>9. ASSUME NEW c \in Calls, DeleteReturns(c) PROVE Accounting'
  <2>a. Send(c, AfterDelete) /\ AfterDelete \in {"create", "reply"}
    BY <1>9, StagesType DEF DeleteReturns
  <2>0. /\ UNCHANGED <<profile, revoking, store, issued, live, old, made, awaited, cancelled>>
        /\ pc[c] = "delete" /\ pc'[c] = AfterDelete
        /\ \A d \in Calls \ {c} : pc'[d] = pc[d]
        /\ \A d \in Calls : new'[d] = new[d]
    BY <1>9 DEF DeleteReturns, GoOn, TypeOK
  <2>b. wire \subseteq wire'
    BY <2>a DEF Send, Requests
  <2>1. \A d \in Calls : Awaited(d)'
    BY <1>0, <2>0, <2>a DEF Awaited, Running, Ended
  <2>2. \A d \in Calls : DeleteSent(d)'
    BY <1>0, <2>0, <2>a, <2>b DEF DeleteSent
  <2>3. ReplacedByOne' /\ LeakHasCause'
    BY <1>0, <2>0, <2>a, <2>b, LeakKept, ReplacedKept DEF Running, Ended
  <2>4. QED
    BY <1>q, <2>1, <2>2, <2>3
<1>10. ASSUME NEW c \in Calls, c \notin revoking, Deliver(c), UNCHANGED serviceVars PROVE Accounting'
  <2>0. /\ UNCHANGED <<profile, revoking, issued, live, wire, old, new, made, cancelled>>
        /\ store' = new[c]
        /\ awaited[c] /\ ~awaited'[c]
        /\ c \notin revoking /\ pc[c] = "reply" /\ pc'[c] = "stored"
        /\ \A d \in Calls \ {c} : pc'[d] = pc[d] /\ awaited'[d] = awaited[d]
    BY <1>10 DEF Deliver, End, serviceVars, TypeOK
  <2>1. ~cancelled[c] /\ Running(c) /\ (Serial => old[c] = store)
    BY <1>0, <2>0 DEF Awaited
  <2>2. \A d \in Calls : Awaited(d)' /\ DeleteSent(d)'
    BY <1>0, <2>0 DEF Awaited, DeleteSent, Running
  <2>3. Overlapped => Overlapped'
    BY <2>0 DEF Overlapped
  <2>4. old[c] = store \/ Overlapped'
    <3>1. ASSUME NEW d \in Calls, pc[d] = "stored", old[d] = old[c] PROVE Overlapped'
      BY <2>0, <3>1 DEF Overlapped
    <3>2. QED
      BY <1>0, <2>1, <2>3, <3>1 DEF ReplacedByOne
  <2>5. ReplacedByOne'
    <3>1. CASE Overlapped'
      BY <3>1 DEF ReplacedByOne
    <3>2. CASE ~Overlapped'
      <4>1. SUFFICES ASSUME NEW d \in Calls, Running(d)'
                     PROVE  \E e \in Calls : pc'[e] = "stored" /\ old[e] = old[d]
        BY <2>0 DEF ReplacedByOne
      <4>2. Running(d)
        BY <2>0, <2>1, <4>1 DEF Running
      <4>3. CASE old[d] = store
        BY <2>0, <2>4, <3>2, <4>3
      <4>4. CASE old[d] # store
        BY <1>0, <2>0, <2>3, <3>2, <4>2, <4>4 DEF ReplacedByOne
      <4>5. QED
        BY <4>3, <4>4
    <3>3. QED
      BY <3>1, <3>2
  <2>6. LeakHasCause'
    <3>1. SUFFICES ASSUME NEW k \in live \ {store'.key}, Serial \/ ~Overlapped'
                   PROVE \/ \E d \in Calls : made[d] = k /\ (pc'[d] # "stored" \/ new[d].key # k)
                         \/ \E d \in Calls :
                               /\ pc'[d] = "stored"
                               /\ old[d].key = k
                               /\ old[d].id = 0 \/ <<"delete", d>> \in wire
      BY <2>0 DEF LeakHasCause
    <3>2. CASE k = store.key
      <4>1. old[c] = store
        BY <2>1, <2>4, <3>1
      <4>2. old[c].id = 0 \/ <<"delete", c>> \in wire
        BY <1>0, <1>a, <2>0, <2>1, <3>2, <4>1 DEF DeleteSent
      <4>3. QED
        BY <2>0, <3>2, <4>1, <4>2
    <3>3. CASE k # store.key
      <4>1. CASE \E d \in Calls : made[d] = k /\ (pc[d] # "stored" \/ new[d].key # k)
        <5>1. PICK d \in Calls : made[d] = k /\ (pc[d] # "stored" \/ new[d].key # k)
          BY <4>1
        <5>2. d = c => new[d].key # k
          BY <2>0, <3>1
        <5>3. QED
          BY <2>0, <5>1, <5>2
      <4>2. CASE \E d \in Calls :
                    /\ pc[d] = "stored"
                    /\ old[d].key = k
                    /\ old[d].id = 0 \/ <<"delete", d>> \in wire
        BY <2>0, <4>2
      <4>3. QED
        BY <1>0, <2>3, <3>1, <3>3, <4>1, <4>2 DEF LeakHasCause
    <3>4. QED
      BY <3>2, <3>3
  <2>7. QED
    BY <1>q, <2>2, <2>5, <2>6
<1>11. ASSUME NEW c \in Calls, TriggerRevoke(c) PROVE Accounting'
  <2>a. Send(c, RevokeStage(store)) /\ RevokeStage(store) \in {"delete", "reply"}
    BY <1>11, StagesType DEF TriggerRevoke
  <2>0. /\ UNCHANGED <<profile, store, issued, live, new, made, cancelled>>
        /\ revoking' = revoking \union {c}
        /\ pc[c] = "idle" /\ pc'[c] \in {"delete", "reply"}
        /\ Serial => \A d \in Calls : ~awaited[d]
        /\ \A d \in Calls \ {c} : pc'[d] = pc[d] /\ old'[d] = old[d] /\ awaited'[d] = awaited[d]
        /\ old'[c] = store
        /\ wire \subseteq wire'
    BY <1>11, <2>a DEF TriggerRevoke, Start, Send, TypeOK
  <2>1. ~cancelled[c]
    BY <1>0, <2>0 DEF Bookkeeping
  <2>2. ASSUME NEW d \in Calls PROVE Awaited(d)'
    BY <1>0, <2>0, <2>1 DEF Awaited, Running, Ended
  <2>3. ASSUME NEW d \in Calls PROVE DeleteSent(d)'
    BY <1>0, <2>0 DEF DeleteSent
  <2>4. ReplacedByOne'
    BY <1>0, <2>0, ReplacedKept DEF Running
  <2>5. LeakHasCause'
    BY <1>0, <2>0, LeakKept
  <2>6. QED
    BY <1>q, <2>2, <2>3, <2>4, <2>5
<1>12. ASSUME NEW c \in Calls, RevokeReturns(c) PROVE Accounting'
  <2>0. /\ UNCHANGED <<serviceVars, store, old, cancelled>>
        /\ c \in revoking /\ pc[c] = "delete" /\ pc'[c] \in {"reply", "failed"}
        /\ awaited'[c] => awaited[c] /\ pc'[c] = "reply"
        /\ \A d \in Calls : new'[d] = new[d]
        /\ \A d \in Calls \ {c} : pc'[d] = pc[d] /\ awaited'[d] = awaited[d]
    BY <1>12 DEF RevokeReturns, GoOn, Fail, End, TypeOK
  <2>1. \A d \in Calls : Awaited(d)' /\ DeleteSent(d)'
    BY <1>0, <2>0 DEF Awaited, DeleteSent, serviceVars, Running, Ended
  <2>2. ReplacedByOne' /\ LeakHasCause'
    BY <1>0, <2>0, LeakKept, ReplacedKept DEF serviceVars, Running, Ended
  <2>3. QED
    BY <1>q, <2>1, <2>2
<1>13. CASE UNCHANGED vars
  BY <1>13 DEF vars, gatewayVars, serviceVars, Accounting, Awaited, DeleteSent, ReplacedByOne,
               Overlapped, LeakHasCause, Running
<1>14. QED
  BY <1>1, <1>2, <1>3, <1>4, <1>5, <1>6, <1>7, <1>8, <1>9, <1>10, <1>11, <1>12, <1>13
     DEF Next, Progress, Return, CreateFails

LEMMA AccountingInvariant == Spec => []Accounting
<1>1. TypeOK /\ Inductive /\ Accounting /\ [Next]_vars => Accounting'
  BY AccountingStep
<1>2. QED
  BY <1>1, AccountingInit, InductiveInvariant, PTL DEF Spec

\* Every working credential that is not the stored one has a cause, however many
\* rotations overlap.
THEOREM LeakAlwaysHasCause == Spec => []LeakHasCause
<1>1. Accounting => LeakHasCause
  BY DEF Accounting
<1>2. QED
  BY <1>1, AccountingInvariant, PTL

LEMMA ForwardStep ==
    ASSUME TypeOK, Inductive, Accounting, [Next]_vars, Serial
    PROVE  store'.key \in {0, store.key} \/ store'.key > store.key
<1>1. ASSUME NEW c \in Calls \ revoking, Deliver(c)
      PROVE  store'.key \in {0, store.key} \/ store'.key > store.key
  <2>1. /\ store' = new[c] /\ old[c] = store
        /\ made[c] # 0 /\ old[c].key < made[c] /\ new[c].key \in {0, made[c]}
    BY <1>1 DEF Deliver, Accounting, Awaited, Inductive, Bookkeeping
  <2>2. made[c] \in Nat /\ store.key \in Nat
    BY DEF TypeOK, PayloadType
  <2>3. QED
    BY <2>1, <2>2
<1>2. ASSUME store' = store PROVE store'.key \in {0, store.key} \/ store'.key > store.key
  BY <1>2
<1>3. (\E c \in Calls \ revoking : Deliver(c)) \/ store' = store
  BY DEF Next, Progress, Return, vars, gatewayVars, Trigger, TriggerRevoke, Start, Refuse, GiveUp,
         NoticeLeft, Die, ServeCreate, RefuseCreate, ServeDelete, CreateSucceeds, CreateFails,
         DeleteReturns, RevokeReturns, GoOn, Fail, Acknowledge, Drop
<1>4. QED
  BY <1>1, <1>2, <1>3

\* With such a gateway the store never goes back to an older credential.
THEOREM StoreAlwaysMovesForward == Spec => StoreMovesForward
<1>1. TypeOK /\ Inductive /\ Accounting /\ [Next]_vars =>
        [Serial => store'.key \in {0, store.key} \/ store'.key > store.key]_vars
  BY ForwardStep
<1>2. QED
  BY <1>1, InductiveInvariant, AccountingInvariant, PTL DEF Spec, StoreMovesForward

-----------------------------------------------------------------------------
\* Refinement of the pool of credentials.

LEMMA PoolStep ==
    ASSUME \A p \in Profiles : p.order = "create_first", ~Blanks,
           TypeOK, Inductive, [Next]_vars
    PROVE  [Pool!RevocableNext]_(Pool!revocableVars)
<1> DEFINE Same == UNCHANGED <<issued, live, store, Ordered>>
<1> USE DEF Pool!RevocableNext, Pool!PoolNext, Pool!revocableVars, Pool!poolVars
<1>0. profile.order = "create_first" /\ issued \in Nat /\ live \subseteq 1..issued
  BY DEF TypeOK
<1>o. ASSUME UNCHANGED <<profile, revoking, old>> PROVE Ordered' = Ordered
  BY <1>o DEF Ordered
<1>1. ASSUME NEW c \in Calls, ServeCreate(c) PROVE Pool!Issue /\ Ordered' = Ordered
  BY <1>0, <1>1, <1>o DEF ServeCreate, gatewayVars, Pool!Issue
<1>2. ASSUME NEW c \in Calls, ServeDelete(c)
      PROVE  [Pool!RevocableNext]_(Pool!revocableVars)
  <2>0. /\ UNCHANGED <<issued, store>> /\ Ordered' = Ordered /\ live' = live \ {old[c].id}
        /\ <<"delete", c>> \in wire
    BY <1>2, <1>o DEF ServeDelete, gatewayVars
  <2>1. CASE old[c].id \notin live
    <3>1. Same
      BY <2>0, <2>1
    <3>2. QED
      BY <3>1
  <2>2. CASE old[c].id \in live /\ c \in revoking
    <3>1. old[c].id \in Ordered
      <4>1. Bookkeeping(c)
        BY DEF Inductive
      <4>2. profile.revoke # "none"
        BY <2>0, <2>2, <4>1 DEF Bookkeeping
      <4>3. old[c].id # 0
        BY <1>0, <2>2
      <4>4. QED
        BY <2>2, <4>2, <4>3 DEF Ordered
    <3>2. Pool!Revoke(old[c].id)
      BY <2>0, <3>1 DEF Pool!Revoke
    <3>3. QED
      BY <2>2, <3>2
  <2>3. CASE old[c].id \in live /\ c \notin revoking
    <3>1. old[c].id < made[c] /\ made[c] <= issued
      BY <1>0, <2>0, <2>3 DEF Inductive, Bookkeeping
    <3>2. old[c].id \in Nat /\ made[c] \in Nat
      BY DEF TypeOK, PayloadType
    <3>3. Pool!Retire(old[c].id)
      BY <1>0, <2>0, <3>1, <3>2 DEF Pool!Retire
    <3>4. QED
      BY <2>0, <2>3, <3>3
  <2>4. QED
    BY <2>1, <2>2, <2>3
<1>3. ASSUME NEW c \in Calls, c \notin revoking, Deliver(c), UNCHANGED serviceVars
      PROVE  Pool!Publish(store'.key) /\ store'.key \in live /\ Ordered' = Ordered
  <2>1. made[c] # 0 /\ new[c].key \in {0, made[c]} /\ made[c] \in live
        /\ new[c].key # 0
    BY <1>3 DEF Deliver, Inductive, Bookkeeping, Unshared
  <2>2. Ordered' = Ordered
    BY <1>3, <1>o DEF Deliver, serviceVars
  <2>3. QED
    BY <1>3, <2>1, <2>2 DEF Deliver, serviceVars, Pool!Publish
<1>4. ASSUME NEW c \in Calls,
             \/ RefuseCreate(c)
             \/ CreateSucceeds(c) \/ CreateFails(c) \/ DeleteReturns(c) \/ RevokeReturns(c)
             \/ /\ Refuse(c) \/ GiveUp(c) \/ NoticeLeft(c) \/ Die(c) \/ Drop(c) \/ Acknowledge(c)
                /\ UNCHANGED serviceVars
      PROVE  Same
  BY <1>4, <1>o DEF Refuse, GiveUp, RefuseCreate, NoticeLeft, Die, Drop, Acknowledge,
              CreateSucceeds, CreateFails, DeleteReturns, RevokeReturns, GoOn, Fail,
              serviceVars, gatewayVars
<1>5. ASSUME NEW c \in Calls, Trigger(c) PROVE Same
  <2>1. /\ UNCHANGED <<profile, revoking, issued, live, store>>
        /\ c \notin revoking /\ \A d \in Calls \ {c} : old'[d] = old[d]
    BY <1>5 DEF Trigger, Start, Inductive, Bookkeeping, TypeOK
  <2>2. Ordered' = Ordered
    <3>1. \A d \in revoking : old'[d] = old[d]
      BY <2>1 DEF TypeOK
    <3>2. QED
      BY <2>1, <3>1 DEF Ordered
  <2>3. QED
    BY <2>1, <2>2
<1>6. ASSUME NEW c \in Calls, TriggerRevoke(c) PROVE Same \/ Pool!Order
  <2>1. /\ UNCHANGED <<profile, issued, live, store>>
        /\ revoking' = revoking \union {c} /\ old'[c] = store
        /\ c \notin revoking /\ \A d \in Calls \ {c} : old'[d] = old[d]
    BY <1>6 DEF TriggerRevoke, Start, Inductive, Bookkeeping, TypeOK
  <2>2. store.id \in {0, store.key}
    BY DEF Inductive, StoreIssued, WellFormed
  <2>3. revoking \subseteq Calls
    BY DEF TypeOK
  <2>4. CASE profile.revoke = "none" \/ store.id = 0
    <3>1. Ordered' = Ordered
      BY <2>1, <2>3, <2>4 DEF Ordered
    <3>2. QED
      BY <2>1, <3>1
  <2>5. CASE profile.revoke # "none" /\ store.id # 0
    <3>1. Ordered' = Ordered \union {store.key}
      BY <2>1, <2>2, <2>3, <2>5 DEF Ordered
    <3>2. QED
      BY <2>1, <3>1 DEF Pool!Order
  <2>6. QED
    BY <2>4, <2>5
<1>7. CASE UNCHANGED vars
  BY <1>7, <1>o DEF vars, gatewayVars, serviceVars
<1>8. QED
  BY <1>1, <1>2, <1>3, <1>4, <1>5, <1>6, <1>7 DEF Next, Progress, Return

\* If every target creates before it deletes and no answer comes without a
\* credential, rotation implements the pool: only superseded credentials, or those
\* a revocation was sent to delete, are retired; only working ones are published.
THEOREM Refinement ==
    ASSUME \A p \in Profiles : p.order = "create_first", ~Blanks
    PROVE  Spec => RefinesPool
<1>1. Init => Pool!RevocableInit
  BY DEF Init, Pool!RevocableInit, Pool!PoolInit, Ordered
<1>2. TypeOK /\ Inductive /\ [Next]_vars => [Pool!RevocableNext]_(Pool!revocableVars)
  BY PoolStep
<1>3. QED
  BY <1>1, <1>2, InductiveInvariant, PTL DEF Spec, RefinesPool, Pool!RevocableSpec

=============================================================================
