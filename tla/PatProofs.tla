----------------------------- MODULE PatProofs -----------------------------
(***************************************************************************)
(* Theorems about PatRotation for every set of calls, every set of auth    *)
(* modes, refresh tokens that roll or do not.                              *)
(***************************************************************************)
EXTENDS PatRotation, TLAPS

USE PatAssumption, GatewayAssumption

-----------------------------------------------------------------------------
\* The inductive invariant.

Kinds == {"exchange", "token", "create", "delete"}

\* No call knows a refresh token that the provider has yet to make.
Bounded ==
    /\ store.rt <= valid
    /\ \A c \in Calls : old[c].rt <= valid /\ new[c].rt <= valid

\* A call creates once and deletes after that, and owes what is under way.
Bookkeeping(c) ==
    /\ pc[c] = "idle" =>
           /\ made[c] = 0 /\ answer[c] = 0 /\ rt[c] = 0
           /\ old[c] = Blank
           /\ ~awaited[c] /\ ~cancelled[c]
           /\ \A k \in Kinds, t \in Nat : <<k, c, t>> \notin wire
    /\ pc[c] = "login" => made[c] = 0 /\ <<"create", c, 0>> \notin wire /\ <<"create", c>> \in due
    /\ pc[c] \in {"login", "create", "relogin"} => <<"delete", c, 0>> \notin wire
    /\ pc[c] = "relogin" /\ ~cancelled[c] => <<"delete", c>> \in due
    /\ made[c] # 0 => <<"create", c, 0>> \notin wire
    /\ answer[c] # 0 => made[c] # 0
    /\ pc[c] \in {"relogin", "delete", "reply"} => made[c] # 0
    /\ <<"create", c, 0>> \in wire => <<"create", c>> \in due
    /\ <<"delete", c, 0>> \in wire => <<"delete", c>> \in due

\* An exchange names the refresh token that its call holds, and its answer holds
\* one that is not older.  No call asks for the next before it has read the last.
Exchanging(c) ==
    /\ \A t \in Nat : <<"exchange", c, t>> \in wire => t = rt[c]
    /\ \A t \in Nat : <<"token", c, t>> \in wire => t >= rt[c]
    /\ \A s, t \in Nat : <<"token", c, s>> \in wire =>
           /\ <<"exchange", c, t>> \notin wire
           /\ <<"token", c, t>> \in wire => s = t
    /\ pc[c] = "create" =>
           \A t \in Nat : <<"exchange", c, t>> \notin wire /\ <<"token", c, t>> \notin wire
    /\ old[c].rt <= rt[c]
    /\ Running(c) => 1 <= old[c].rt
    /\ pc[c] = "reply" => new[c].rt = rt[c]

\* The call c was the last to take the refresh token in force, and did not deliver it.
Holds(c) ==
    \/ <<"token", c, valid>> \in wire
    \/ rt[c] = valid /\ old[c].rt # valid /\ pc[c] # "stored"

\* The provider has exchanged the refresh token that the call was sent.
Took(c) == rt[c] # old[c].rt \/ \E t \in Nat : <<"token", c, t>> \in wire

\* Where every exchange uses up a refresh token: what a call has taken and not
\* delivered is known to nobody else, so nobody has exchanged it since.
Rolling(c) ==
    /\ \A t \in Nat : <<"token", c, t>> \in wire => t = valid /\ old[c].rt < t /\ rt[c] < t
    /\ \/ pc[c] \in {"create", "relogin", "delete", "reply", "stored", "lost"}
       \/ <<"create", c, 0>> \in wire
       \/ made[c] # 0
       => old[c].rt < rt[c]
    /\ old[c].rt < rt[c] /\ pc[c] # "stored" => Holds(c)
    /\ Holds(c) =>
           /\ store.rt # valid
           /\ \A d \in Calls : old[d].rt # valid
           /\ \A d \in Calls \ {c} : ~Holds(d) /\ <<"exchange", d, valid>> \notin wire
    /\ \A d \in Calls : Took(c) /\ Took(d) /\ old[c].rt = old[d].rt => c = d

\* With a gateway that makes one call at a time, the awaited call was sent what is
\* in the store.
Awaited(c) ==
    awaited[c] =>
        /\ old[c] = store /\ Running(c)
        /\ \A d \in Calls : awaited[d] => c = d

\* What a running call was sent is in the store or was replaced by a call that was
\* sent it, too, unless an overlap has come between.
ReplacedByOne ==
    Overlapped \/ \A c \in Calls :
        Running(c) /\ old[c] # store => \E d \in Calls : pc[d] = "stored" /\ old[d] = old[c]

Inductive ==
    /\ \A c \in Calls : Bookkeeping(c)
    /\ mode = "refresh_token" => store.rt >= 1 /\ \A c \in Calls : Exchanging(c)
    /\ mode = "refresh_token" /\ Rolls => \A c \in Calls : Rolling(c)
    /\ Serial => \A c \in Calls : Awaited(c)
    /\ StrandedHasCause

-----------------------------------------------------------------------------
\* Facts about the building blocks of the actions.

\* A login asks for an exchange only where there is a refresh token.
LEMMA RequestsEffect ==
    ASSUME NEW c, NEW stage, NEW token
    PROVE  \A k, d, t :
               <<k, d, t>> \in RequestsOf(c, stage, token) <=>
                   /\ d = c
                   /\ \/ /\ k = "exchange" /\ t = token
                         /\ stage \in {"login", "relogin"} /\ mode = "refresh_token"
                      \/ k = stage /\ t = 0 /\ stage \in {"create", "delete"}
<1>1. CASE stage \in {"login", "relogin"} /\ mode = "refresh_token"
  BY <1>1 DEF RequestsOf
<1>2. CASE stage \in {"create", "delete"}
  BY <1>2 DEF RequestsOf
<1>3. CASE /\ stage \notin {"create", "delete"}
           /\ ~(stage \in {"login", "relogin"} /\ mode = "refresh_token")
  BY <1>3 DEF RequestsOf
<1>4. QED
  BY <1>1, <1>2, <1>3

LEMMA RequestsType ==
    ASSUME NEW c \in Calls, NEW stage, NEW v \in Nat, NEW token \in 0..v
    PROVE  RequestsOf(c, stage, token) \subseteq Kinds \X Calls \X (0..v)
BY DEF RequestsOf, Kinds

LEMMA StagesType ==
    /\ FirstStage \in {"login", "create"}
    /\ \A c \in Calls : StagesAfterCreate(c) \subseteq {"delete", "relogin", "reply"}
BY DEF FirstStage, StagesAfterCreate

-----------------------------------------------------------------------------

LEMMA TypeInit == Init => TypeOK /\ Bounded
<1> SUFFICES ASSUME Init PROVE TypeOK /\ Bounded
  OBVIOUS
<1>1. store \in PayloadType /\ store.rt <= 1
  BY DEF Init, PayloadType
<1>2. Blank \in PayloadType /\ Blank.rt = 0
  BY DEF Blank, PayloadType
<1>3. QED
  BY <1>1, <1>2 DEF Init, GatewayInit, TypeOK, Bounded, Stages

LEMMA TypeStep == TypeOK /\ Bounded /\ [Next]_vars => TypeOK' /\ Bounded'
<1> SUFFICES ASSUME TypeOK, Bounded, [Next]_vars
             PROVE  TypeOK' /\ Bounded'
  OBVIOUS
<1> USE DEF TypeOK, Bounded, Stages, Ended
<1>0. /\ store.rt \in 0..valid
      /\ \A c \in Calls : old[c] \in PayloadType /\ new[c] \in PayloadType
                            /\ rt[c] \in 0..valid /\ made[c] \in 0..issued
  BY DEF PayloadType
<1>p. ASSUME NEW c \in Calls, NEW pat, pat.id \in Nat, pat.key \in Nat
      PROVE  NewPayload(c, pat) \in PayloadType /\ NewPayload(c, pat).rt <= valid
  BY <1>0, <1>p DEF NewPayload, PayloadType
<1>b. ASSUME NEW c \in Calls, NEW pat \in Bodies(c) PROVE pat.id \in Nat /\ pat.key \in Nat
  BY <1>0, <1>b DEF Bodies
<1>1. ASSUME NEW c \in Calls, Exchange(c) PROVE TypeOK' /\ Bounded'
  <2>1. valid' \in Nat /\ valid <= valid' /\ UNCHANGED <<gatewayVars, made, answer, rt, mode, issued, live, due>>
    BY <1>1 DEF Exchange
  <2>2. wire' \subseteq Kinds \X Calls \X (0..valid')
    BY <1>1, <2>1 DEF Exchange, Kinds
  <2>3. rt' \in [Calls -> 0..valid'] /\ \A d \in Calls : old[d].rt <= valid' /\ new[d].rt <= valid'
    BY <1>0, <2>1 DEF PayloadType
  <2>4. QED
    BY <1>0, <2>1, <2>2, <2>3 DEF gatewayVars, Kinds
<1>2. ASSUME NEW c \in Calls, ServeCreate(c) PROVE TypeOK' /\ Bounded'
  <2>1. made' \in [Calls -> 0..issued'] /\ answer' \in [Calls -> SuccessStatuses \union {0}]
    BY <1>2 DEF ServeCreate
  <2>2. QED
    BY <1>2, <2>1 DEF ServeCreate, gatewayVars
<1>3. ASSUME NEW c \in Calls, ServeDelete(c) PROVE TypeOK' /\ Bounded'
  BY <1>3 DEF ServeDelete, gatewayVars
<1>4. ASSUME NEW c \in Calls, Trigger(c) PROVE TypeOK' /\ Bounded'
  <2>1. wire' \subseteq Kinds \X Calls \X (0..valid)
    BY <1>0, <1>4, RequestsType DEF Trigger, Send, Kinds
  <2>2. /\ rt' \in [Calls -> 0..valid] /\ old' \in [Calls -> PayloadType]
        /\ \A d \in Calls : old'[d].rt <= valid
    BY <1>0, <1>4 DEF Trigger, Start
  <2>3. QED
    BY <1>4, <2>1, <2>2, StagesType DEF Trigger, Start, Kinds
<1>5. ASSUME NEW c \in Calls, LoginSucceeds(c) \/ ReloginSucceeds(c) PROVE TypeOK' /\ Bounded'
  <2>1. wire' \subseteq Kinds \X Calls \X (0..valid) /\ rt' \in [Calls -> 0..valid]
    BY <1>5, RequestsType DEF LoginSucceeds, ReloginSucceeds, Kinds
  <2>2. /\ UNCHANGED <<store, old, new, awaited, cancelled, mode, valid, issued, live, made, answer, due>>
        /\ pc' \in [Calls -> Stages]
    BY <1>5 DEF LoginSucceeds, ReloginSucceeds, GoOn
  <2>3. QED
    BY <2>1, <2>2 DEF Kinds
<1>6. ASSUME NEW c \in Calls, CreateFails(c) PROVE TypeOK' /\ Bounded'
  BY <1>6 DEF CreateFails, Fail, End, serviceVars
<1>7. ASSUME NEW c \in Calls, CreateSucceeds(c) PROVE TypeOK' /\ Bounded'
  <2>1. PICK stage \in StagesAfterCreate(c), pat \in Bodies(c) :
            /\ GoOn(c, stage, NewPayload(c, pat))
            /\ Send(c, stage, rt[c])
            /\ due' = IF stage # "reply" /\ ~cancelled[c] THEN due \union {<<"delete", c>>} ELSE due
    BY <1>7 DEF CreateSucceeds
  <2>2. wire' \subseteq Kinds \X Calls \X (0..valid)
    BY <1>0, <2>1, RequestsType DEF Send, Kinds
  <2>3. new' \in [Calls -> PayloadType] /\ \A d \in Calls : new'[d].rt <= valid
    <3>1. NewPayload(c, pat) \in PayloadType /\ NewPayload(c, pat).rt <= valid
      BY <1>p, <1>b
    <3>2. QED
      BY <2>1, <3>1 DEF GoOn
  <2>4. due' \subseteq {"create", "delete"} \X Calls /\ stage \in {"delete", "relogin", "reply"}
    BY <2>1, StagesType
  <2>5. QED
    BY <1>7, <2>1, <2>2, <2>3, <2>4 DEF CreateSucceeds, GoOn, Kinds
<1>8. ASSUME NEW c \in Calls, RevokeReturns(c) PROVE TypeOK' /\ Bounded'
  <2>1. new' \in [Calls -> PayloadType] /\ \A d \in Calls : new'[d].rt <= valid
    <3>1. NewPayload(c, new[c]) \in PayloadType /\ NewPayload(c, new[c]).rt <= valid
      BY <1>0, <1>p DEF PayloadType
    <3>2. QED
      BY <1>8, <3>1 DEF RevokeReturns, GoOn
  <2>2. QED
    BY <1>8, <2>1 DEF RevokeReturns, GoOn, serviceVars
<1>9. ASSUME NEW c \in Calls, UNCHANGED serviceVars,
             Refuse(c) \/ GiveUp(c) \/ NoticeLeft(c) \/ Deliver(c) \/ Drop(c) \/ Die(c)
      PROVE  TypeOK' /\ Bounded'
  <2>1. /\ UNCHANGED <<serviceVars, old, new>>
        /\ pc' \in [Calls -> Stages]
        /\ awaited' \in [Calls -> BOOLEAN] /\ cancelled' \in [Calls -> BOOLEAN]
    BY <1>9 DEF Refuse, GiveUp, NoticeLeft, Deliver, Drop, Die, End
  <2>2. store' \in {store, new[c]}
    BY <1>9 DEF Refuse, GiveUp, NoticeLeft, Deliver, Drop, Die
  <2>3. store' \in PayloadType /\ store'.rt <= valid
    BY <1>0, <2>2
  <2>4. QED
    BY <2>1, <2>3 DEF serviceVars
<1>10. CASE UNCHANGED vars
  BY <1>10 DEF vars, gatewayVars, serviceVars
<1>11. QED
  BY <1>1, <1>2, <1>3, <1>4, <1>5, <1>6, <1>7, <1>8, <1>9, <1>10 DEF Next

\* Every variable keeps its type.
THEOREM TypeCorrect == Spec => []TypeOK
BY TypeInit, TypeStep, PTL DEF Spec

-----------------------------------------------------------------------------

\* Each delivery replaces the payload that its call was sent, or has it delivered twice.
LEMMA ReplacedInit == Init => ReplacedByOne
BY DEF Init, GatewayInit, ReplacedByOne, Running

LEMMA ReplacedStep ==
    ASSUME TypeOK, ReplacedByOne, [Next]_vars
    PROVE  ReplacedByOne' /\ (Overlapped => Overlapped')
<1>1. ASSUME store' = store,
             \A d \in Calls : (pc'[d] = "stored") <=> (pc[d] = "stored"),
             \A d \in Calls : pc[d] = "stored" => old'[d] = old[d],
             \A d \in Calls : \/ old'[d] = store
                              \/ old'[d] = old[d] /\ (Running(d)' => Running(d))
      PROVE  ReplacedByOne' /\ (Overlapped => Overlapped')
  <2>1. Overlapped => Overlapped'
    BY <1>1 DEF Overlapped
  <2>2. QED
    BY <1>1, <2>1 DEF ReplacedByOne
<1>2. ASSUME NEW c \in Calls, Exchange(c) \/ ServeCreate(c) \/ ServeDelete(c)
      PROVE  ReplacedByOne' /\ (Overlapped => Overlapped')
  BY <1>1, <1>2 DEF Exchange, ServeCreate, ServeDelete, gatewayVars, Running
<1>3. ASSUME NEW c \in Calls, Trigger(c)
      PROVE  ReplacedByOne' /\ (Overlapped => Overlapped')
  <2>1. /\ store' = store /\ pc[c] = "idle" /\ pc'[c] \in {"login", "create"} /\ old'[c] = store
        /\ \A d \in Calls \ {c} : pc'[d] = pc[d] /\ old'[d] = old[d]
    BY <1>3, StagesType DEF Trigger, Start, TypeOK
  <2>2. QED
    BY <1>1, <2>1 DEF Running
<1>4. ASSUME NEW c \in Calls,
             LoginSucceeds(c) \/ CreateSucceeds(c) \/ ReloginSucceeds(c) \/ RevokeReturns(c)
      PROVE  ReplacedByOne' /\ (Overlapped => Overlapped')
  <2>1. /\ store' = store /\ old' = old
        /\ pc[c] \in {"login", "create", "relogin", "delete"}
        /\ pc'[c] \in {"create", "relogin", "delete", "reply"}
        /\ \A d \in Calls \ {c} : pc'[d] = pc[d]
    BY <1>4, StagesType
    DEF LoginSucceeds, CreateSucceeds, ReloginSucceeds, RevokeReturns, GoOn, TypeOK
  <2>2. QED
    BY <1>1, <2>1 DEF Running, Ended
<1>5. ASSUME NEW c \in Calls,
             CreateFails(c) \/ Refuse(c) \/ GiveUp(c) \/ NoticeLeft(c) \/ Drop(c) \/ Die(c)
      PROVE  ReplacedByOne' /\ (Overlapped => Overlapped')
  <2>1. /\ store' = store /\ old' = old
        /\ \/ pc' = pc
           \/ /\ pc[c] # "stored" /\ pc'[c] \in {"failed", "lost", "dead"}
              /\ \A d \in Calls \ {c} : pc'[d] = pc[d]
    BY <1>5 DEF CreateFails, Fail, Refuse, GiveUp, NoticeLeft, Drop, Die, End, Running, Ended, TypeOK
  <2>2. QED
    BY <1>1, <2>1 DEF Running, Ended
<1>6. ASSUME NEW c \in Calls, Deliver(c)
      PROVE  ReplacedByOne' /\ (Overlapped => Overlapped')
  <2>1. /\ old' = old /\ pc[c] = "reply" /\ pc'[c] = "stored"
        /\ \A d \in Calls \ {c} : pc'[d] = pc[d]
    BY <1>6 DEF Deliver, End, TypeOK
  <2>2. Overlapped => Overlapped'
    BY <2>1 DEF Overlapped
  <2>3. CASE Overlapped
    BY <2>2, <2>3 DEF ReplacedByOne
  <2>4. CASE ~Overlapped /\ old[c] = store
    <3>1. ASSUME NEW d \in Calls, Running(d)', ~Overlapped'
          PROVE  \E e \in Calls : pc'[e] = "stored" /\ old'[e] = old'[d]
      BY <2>1, <2>4, <3>1 DEF ReplacedByOne, Running, Ended
    <3>2. QED
      BY <2>2, <3>1 DEF ReplacedByOne
  <2>5. CASE ~Overlapped /\ old[c] # store
    <3>1. PICK d \in Calls : pc[d] = "stored" /\ old[d] = old[c]
      BY <2>1, <2>5 DEF ReplacedByOne, Running, Ended
    <3>2. Overlapped'
      BY <2>1, <3>1 DEF Overlapped
    <3>3. QED
      BY <3>2 DEF ReplacedByOne
  <2>6. QED
    BY <2>3, <2>4, <2>5
<1>7. CASE UNCHANGED vars
  BY <1>1, <1>7 DEF vars, gatewayVars, Running
<1>8. QED
  BY <1>2, <1>3, <1>4, <1>5, <1>6, <1>7 DEF Next

-----------------------------------------------------------------------------

LEMMA InductiveInit == Init => Inductive
BY DEF Init, GatewayInit, Inductive, Bookkeeping, Exchanging, Rolling, Holds, Took, Awaited,
   StrandedHasCause, Running, Blank

\* A step in which one call gets no further than to its end.
LEMMA QuietStep ==
    ASSUME TypeOK, Inductive, Overlapped => Overlapped', NEW c \in Calls,
           UNCHANGED <<store, old, new, serviceVars>>,
           \A d \in Calls \ {c} : /\ pc'[d] = pc[d]
                                  /\ awaited'[d] = awaited[d]
                                  /\ cancelled'[d] = cancelled[d],
           awaited'[c] => awaited[c] /\ pc'[c] = pc[c],
           cancelled[c] => cancelled'[c],
           \/ pc'[c] = pc[c] /\ (pc[c] = "idle" => cancelled'[c] = cancelled[c])
           \/ pc'[c] \in {"failed", "dead"} /\ pc[c] # "stored"
           \/ pc'[c] = "lost" /\ pc[c] = "reply"
    PROVE  Inductive'
<1>0. /\ UNCHANGED <<mode, valid, issued, live, wire, made, answer, rt, due, store, old, new>>
      /\ \A d \in Calls : awaited'[d] => awaited[d] /\ pc'[d] = pc[d]
      /\ \A d \in Calls : cancelled[d] => cancelled'[d]
      /\ \A d \in Calls : pc'[d] = "idle" => pc[d] = "idle" /\ cancelled'[d] = cancelled[d]
      /\ \A d \in Calls : \/ pc'[d] = pc[d]
                          \/ pc'[d] \in {"failed", "dead"} /\ pc[d] # "stored"
                          \/ pc'[d] = "lost" /\ pc[d] = "reply"
  BY DEF serviceVars
<1>1. ASSUME NEW d \in Calls PROVE Bookkeeping(d)'
  BY <1>0 DEF Inductive, Bookkeeping
<1>2. ASSUME mode = "refresh_token", NEW d \in Calls PROVE Exchanging(d)'
  BY <1>0, <1>2 DEF Inductive, Exchanging, Running, Ended
<1>3. \A d \in Calls : Holds(d)' = Holds(d) /\ Took(d)' = Took(d)
  BY <1>0 DEF Holds, Took
<1>4. ASSUME mode = "refresh_token", Rolls, NEW d \in Calls PROVE Rolling(d)'
  <2>1. Rolling(d)
    BY <1>4 DEF Inductive
  <2>2. QED
    BY <1>0, <1>3, <2>1 DEF Rolling
<1>5. ASSUME Serial, NEW d \in Calls PROVE Awaited(d)'
  BY <1>0, <1>5 DEF Inductive, Awaited, Running
<1>6. StrandedHasCause'
  BY <1>0 DEF Inductive, StrandedHasCause
<1>7. mode' = "refresh_token" => store'.rt >= 1
  BY <1>0 DEF Inductive
<1>8. QED
  BY <1>0, <1>1, <1>2, <1>4, <1>5, <1>6, <1>7 DEF Inductive

\* The invariant is inductive: each step re-establishes every part of it.
LEMMA InductiveStep ==
    TypeOK /\ Bounded /\ ReplacedByOne /\ Inductive /\ [Next]_vars => Inductive'
<1> SUFFICES ASSUME TypeOK, Bounded, ReplacedByOne, Inductive, [Next]_vars
             PROVE  Inductive'
  OBVIOUS
<1>o. Overlapped => Overlapped'
  BY ReplacedStep
<1> USE DEF Kinds
<1>0. /\ issued \in Nat /\ valid \in Nat /\ store \in PayloadType /\ store.rt \in 0..valid
      /\ \A d \in Calls : /\ made[d] \in 0..issued /\ rt[d] \in 0..valid
                           /\ old[d] \in PayloadType /\ old[d].rt \in 0..valid
  BY DEF TypeOK, Bounded, PayloadType
<1>w. \A k, d, t : <<k, d, t>> \in wire => k \in Kinds /\ d \in Calls /\ t \in 0..valid
  BY DEF TypeOK
<1>1. ASSUME NEW c \in Calls, Exchange(c) PROVE Inductive'
  <2>0. /\ UNCHANGED <<gatewayVars, mode, issued, live, made, answer, rt, due>>
        /\ <<"exchange", c, valid>> \in wire
        /\ valid' \in {valid, valid + 1}
        /\ Rolls => valid' = valid + 1
        /\ \A d \in Calls \ {c}, k \in Kinds, t \in Nat : <<k, d, t>> \in wire' <=> <<k, d, t>> \in wire
        /\ \A t \in Nat : <<"exchange", c, t>> \in wire' <=> <<"exchange", c, t>> \in wire /\ t # valid
        /\ \A t \in Nat : <<"token", c, t>> \in wire' <=> <<"token", c, t>> \in wire \/ t = valid'
        /\ \A t \in Nat : <<"create", c, t>> \in wire' <=> <<"create", c, t>> \in wire
        /\ \A t \in Nat : <<"delete", c, t>> \in wire' <=> <<"delete", c, t>> \in wire
    BY <1>1 DEF Exchange
  <2>1. ASSUME NEW d \in Calls PROVE Bookkeeping(d)'
    <3>1. CASE d = c
      BY <1>0, <2>0, <3>1 DEF Inductive, Bookkeeping, gatewayVars
    <3>2. CASE d # c
      BY <1>0, <2>0, <3>2 DEF Inductive, Bookkeeping, gatewayVars
    <3>3. QED
      BY <3>1, <3>2
  <2>2. ASSUME mode = "refresh_token"
        PROVE  /\ rt[c] = valid
               /\ \A t \in Nat : <<"token", c, t>> \notin wire
               /\ \A t \in Nat : <<"exchange", c, t>> \notin wire'
    BY <1>0, <2>0, <2>2 DEF Inductive, Exchanging
  <2>3. ASSUME mode = "refresh_token", NEW d \in Calls PROVE Exchanging(d)'
    <3>1. CASE d = c
      <4>1. Exchanging(c) /\ pc[c] # "create"
        BY <1>0, <2>0, <2>3 DEF Inductive, Exchanging
      <4>2. \A t \in Nat : <<"token", c, t>> \in wire' => t = valid'
        BY <2>0, <2>2, <2>3
      <4>3. valid' >= rt[c]
        BY <1>0, <2>0, <2>2, <2>3
      <4>4. \A t \in Nat : <<"exchange", c, t>> \notin wire'
        BY <2>2, <2>3
      <4>5. QED
        BY <2>0, <3>1, <4>1, <4>2, <4>3, <4>4 DEF Exchanging, gatewayVars, Running
    <3>2. CASE d # c
      BY <1>0, <2>0, <2>3, <3>2 DEF Inductive, Exchanging, gatewayVars, Running
    <3>3. QED
      BY <3>1, <3>2
  <2>4. ASSUME mode = "refresh_token", Rolls, NEW d \in Calls PROVE Rolling(d)'
    <3>1. \A e \in Calls \ {c} : ~Holds(e)
      BY <1>0, <2>0, <2>4 DEF Inductive, Rolling
    <3>2. Holds(c)' /\ \A e \in Calls \ {c} : ~Holds(e)'
      BY <1>0, <1>w, <2>0, <2>4 DEF Holds, gatewayVars
    <3>3. \A e \in Calls : \A t \in Nat : <<"token", e, t>> \in wire' => e = c /\ t = valid'
      BY <1>0, <2>0, <2>2, <2>4, <3>1 DEF Inductive, Rolling, Holds
    <3>4. \A e \in Calls \ {c} : Took(e)' = Took(e)
      BY <2>0 DEF Took, gatewayVars
    <3>5. ASSUME NEW e \in Calls \ {c}, Took(e) PROVE old[e].rt # old[c].rt
      <4>1. CASE old[c].rt = valid
        <5>1. rt[e] # old[e].rt => old[e].rt < valid
          BY <1>0, <2>4 DEF Inductive, Exchanging
        <5>2. ASSUME NEW t \in Nat, <<"token", e, t>> \in wire PROVE old[e].rt < valid
          BY <2>4, <5>2 DEF Inductive, Rolling
        <5>3. old[e].rt < valid
          BY <3>5, <5>1, <5>2 DEF Took
        <5>4. QED
          BY <1>0, <4>1, <5>3
      <4>2. CASE old[c].rt # valid
        <5>1. Took(c)
          BY <2>2, <2>4, <4>2 DEF Took
        <5>2. QED
          BY <2>4, <3>5, <5>1 DEF Inductive, Rolling
      <4>3. QED
        BY <4>1, <4>2
    <3>6. \A e \in Calls : old[e].rt < rt[e] /\ pc[e] # "stored" => e = c
      BY <2>4, <3>1 DEF Inductive, Rolling
    <3>7. /\ \A t \in Nat : <<"token", d, t>> \in wire' =>
                t = valid' /\ old'[d].rt < t /\ rt'[d] < t
          /\ old'[d].rt < rt'[d] /\ pc'[d] # "stored" => Holds(d)'
      BY <1>0, <2>0, <2>4, <3>2, <3>3, <3>6 DEF gatewayVars
    <3>8. Holds(d)' =>
            /\ store'.rt # valid'
            /\ \A e \in Calls : old'[e].rt # valid'
            /\ \A e \in Calls \ {d} : ~Holds(e)' /\ <<"exchange", e, valid'>> \notin wire'
      BY <1>0, <1>w, <2>0, <2>4, <3>2 DEF gatewayVars
    <3>9. \A e \in Calls : Took(d)' /\ Took(e)' /\ old'[d].rt = old'[e].rt => d = e
      BY <2>0, <2>4, <3>4, <3>5 DEF Inductive, Rolling, gatewayVars
    <3>10. \/ pc'[d] \in {"create", "relogin", "delete", "reply", "stored", "lost"}
           \/ <<"create", d, 0>> \in wire'
           \/ made'[d] # 0
           => old'[d].rt < rt'[d]
      BY <2>0, <2>4 DEF Inductive, Rolling, gatewayVars
    <3>11. QED
      BY <3>7, <3>8, <3>9, <3>10 DEF Rolling
  <2>5. ASSUME Serial, NEW d \in Calls PROVE Awaited(d)'
    BY <2>0, <2>5 DEF Inductive, Awaited, Running, gatewayVars
  <2>6. StrandedHasCause'
    BY <1>o, <1>0, <2>0 DEF Inductive, StrandedHasCause, gatewayVars
  <2>7. mode' = "refresh_token" => store'.rt >= 1
    BY <2>0 DEF Inductive, gatewayVars
  <2>8. QED
    BY <2>0, <2>1, <2>3, <2>4, <2>5, <2>6, <2>7 DEF Inductive
<1>2. ASSUME NEW c \in Calls, ServeCreate(c) PROVE Inductive'
  <2>0. /\ UNCHANGED <<gatewayVars, mode, valid, rt>>
        /\ <<"create", c, 0>> \in wire
        /\ \A k \in {"exchange", "token", "delete"}, d \in Calls, t \in Nat :
               <<k, d, t>> \in wire' <=> <<k, d, t>> \in wire
        /\ <<"create", c, 0>> \notin wire' /\ wire' \subseteq wire
        /\ made'[c] = issued + 1 /\ answer'[c] # 0
        /\ \A d \in Calls \ {c} : made'[d] = made[d] /\ answer'[d] = answer[d]
        /\ \A d : <<"delete", d>> \in due' <=> <<"delete", d>> \in due
        /\ \A d \in Calls \ {c} : <<"create", d>> \in due' <=> <<"create", d>> \in due
    BY <1>2 DEF ServeCreate, TypeOK, SuccessStatuses
  <2>1. ASSUME NEW d \in Calls PROVE Bookkeeping(d)'
    <3>0. /\ UNCHANGED <<pc, old, new, awaited, cancelled, rt>>
          /\ wire' \subseteq wire
      BY <2>0 DEF gatewayVars
    <3>1. CASE d = c
      <4>1. pc[c] \notin {"idle", "relogin", "delete", "reply"}
        BY <1>0, <2>0 DEF Inductive, Bookkeeping
      <4>2. made'[c] # 0 /\ <<"create", c, 0>> \notin wire' /\ answer'[c] # 0
        BY <1>0, <2>0
      <4>3. <<"delete", c, 0>> \in wire' => <<"delete", c>> \in due'
        BY <2>0, <3>0 DEF Inductive, Bookkeeping
      <4>4. pc[c] # "login" /\ (pc[c] = "create" => <<"delete", c, 0>> \notin wire')
        BY <1>0, <2>0, <3>0 DEF Inductive, Bookkeeping
      <4>5. QED
        BY <3>0, <3>1, <4>1, <4>2, <4>3, <4>4 DEF Bookkeeping
    <3>2. CASE d # c
      <4>1. /\ Bookkeeping(d)
            /\ made'[d] = made[d] /\ answer'[d] = answer[d]
            /\ <<"create", d>> \in due' <=> <<"create", d>> \in due
            /\ <<"delete", d>> \in due' <=> <<"delete", d>> \in due
        BY <2>0, <3>2 DEF Inductive
      <4>2. QED
        BY <3>0, <4>1 DEF Bookkeeping
    <3>3. QED
      BY <3>1, <3>2
  <2>2. ASSUME mode = "refresh_token", NEW d \in Calls PROVE Exchanging(d)'
    BY <2>0, <2>2 DEF Inductive, Exchanging, gatewayVars, Running
  <2>3. \A d \in Calls : Holds(d)' = Holds(d) /\ Took(d)' = Took(d)
    BY <1>0, <2>0 DEF Holds, Took, gatewayVars
  <2>4. ASSUME mode = "refresh_token", Rolls, NEW d \in Calls PROVE Rolling(d)'
    <3>1. Rolling(d)
      BY <2>4 DEF Inductive
    <3>2. QED
      BY <2>0, <2>3, <3>1 DEF Rolling, gatewayVars
  <2>5. ASSUME Serial, NEW d \in Calls PROVE Awaited(d)'
    BY <2>0, <2>5 DEF Inductive, Awaited, Running, gatewayVars
  <2>6. StrandedHasCause'
    BY <1>o, <1>0, <2>0 DEF Inductive, StrandedHasCause, gatewayVars
  <2>7. mode' = "refresh_token" => store'.rt >= 1
    BY <2>0 DEF Inductive, gatewayVars
  <2>8. QED
    BY <2>0, <2>1, <2>2, <2>4, <2>5, <2>6, <2>7 DEF Inductive
<1>3. ASSUME NEW c \in Calls, ServeDelete(c) PROVE Inductive'
  <2>0. /\ UNCHANGED <<gatewayVars, mode, valid, issued, made, answer, rt>>
        /\ \A k \in {"exchange", "token", "create"}, d \in Calls, t \in Nat :
               <<k, d, t>> \in wire' <=> <<k, d, t>> \in wire
        /\ <<"delete", c, 0>> \in wire /\ <<"delete", c, 0>> \notin wire' /\ wire' \subseteq wire
        /\ \A d : <<"create", d>> \in due' <=> <<"create", d>> \in due
        /\ \A d \in Calls \ {c} : <<"delete", d>> \in due' <=> <<"delete", d>> \in due
    BY <1>3 DEF ServeDelete
  <2>1. ASSUME NEW d \in Calls PROVE Bookkeeping(d)'
    <3>0. UNCHANGED <<pc, old, new, awaited, cancelled, rt, made, answer>> /\ wire' \subseteq wire
      BY <2>0 DEF gatewayVars
    <3>1. /\ Bookkeeping(d)
          /\ <<"create", d>> \in due' <=> <<"create", d>> \in due
      BY <2>0 DEF Inductive
    <3>2. CASE d = c
      <4>1. pc[c] # "relogin"
        BY <1>0, <2>0 DEF Inductive, Bookkeeping
      <4>2. QED
        BY <2>0, <3>0, <3>1, <3>2, <4>1 DEF Bookkeeping
    <3>3. CASE d # c
      <4>1. <<"delete", d>> \in due' <=> <<"delete", d>> \in due
        BY <2>0, <3>3
      <4>2. QED
        BY <3>0, <3>1, <4>1 DEF Bookkeeping
    <3>4. QED
      BY <3>2, <3>3
  <2>2. ASSUME mode = "refresh_token", NEW d \in Calls PROVE Exchanging(d)'
    BY <2>0, <2>2 DEF Inductive, Exchanging, gatewayVars, Running
  <2>3. \A d \in Calls : Holds(d)' = Holds(d) /\ Took(d)' = Took(d)
    BY <1>0, <2>0 DEF Holds, Took, gatewayVars
  <2>4. ASSUME mode = "refresh_token", Rolls, NEW d \in Calls PROVE Rolling(d)'
    <3>1. Rolling(d)
      BY <2>4 DEF Inductive
    <3>2. QED
      BY <2>0, <2>3, <3>1 DEF Rolling, gatewayVars
  <2>5. ASSUME Serial, NEW d \in Calls PROVE Awaited(d)'
    BY <2>0, <2>5 DEF Inductive, Awaited, Running, gatewayVars
  <2>6. StrandedHasCause'
    BY <1>o, <1>0, <2>0 DEF Inductive, StrandedHasCause, gatewayVars
  <2>7. mode' = "refresh_token" => store'.rt >= 1
    BY <2>0 DEF Inductive, gatewayVars
  <2>8. QED
    BY <2>0, <2>1, <2>2, <2>4, <2>5, <2>6, <2>7 DEF Inductive
<1>4. ASSUME NEW c \in Calls, Trigger(c) PROVE Inductive'
  <2>a. /\ UNCHANGED <<mode, valid, issued, live, made, answer, store, new, cancelled>>
        /\ pc[c] = "idle" /\ pc'[c] = FirstStage
        /\ old'[c] = store /\ rt'[c] = store.rt /\ awaited'[c]
        /\ Serial => \A d \in Calls : ~awaited[d]
        /\ \A d \in Calls \ {c} : /\ pc'[d] = pc[d] /\ old'[d] = old[d] /\ rt'[d] = rt[d]
                                  /\ awaited'[d] = awaited[d]
        /\ due' = due \union {<<"create", c>>}
    BY <1>4 DEF Trigger, Start, TypeOK
  <2>b. /\ made[c] = 0 /\ answer[c] = 0 /\ rt[c] = 0 /\ old[c] = Blank /\ ~cancelled[c]
        /\ \A k \in Kinds, t \in Nat : <<k, c, t>> \notin wire
    BY <2>a DEF Inductive, Bookkeeping
  <2>c. wire' = wire \union RequestsOf(c, FirstStage, store.rt)
    BY <1>4, <2>b DEF Trigger, Send
  <2>0. /\ \A d \in Calls \ {c}, k \in Kinds, t \in Nat : <<k, d, t>> \in wire' <=> <<k, d, t>> \in wire
        /\ \A t \in Nat : <<"token", c, t>> \notin wire' /\ <<"delete", c, t>> \notin wire'
        /\ \A t \in Nat : <<"exchange", c, t>> \in wire' => t = store.rt
        /\ <<"create", c, 0>> \in wire' => FirstStage = "create"
        /\ FirstStage \in {"login", "create"}
        /\ mode = "refresh_token" => FirstStage = "login"
    BY <2>b, <2>c, RequestsEffect DEF FirstStage
  <2>1. ASSUME NEW d \in Calls PROVE Bookkeeping(d)'
    <3>1. CASE d = c
      BY <2>a, <2>b, <2>0, <3>1 DEF Bookkeeping
    <3>2. CASE d # c
      <4>1. Bookkeeping(d)
        BY DEF Inductive
      <4>2. QED
        BY <2>a, <2>0, <3>2, <4>1 DEF Bookkeeping
    <3>3. QED
      BY <3>1, <3>2
  <2>2. ASSUME mode = "refresh_token", NEW d \in Calls PROVE Exchanging(d)'
    <3>1. CASE d = c
      <4>1. store.rt >= 1 /\ store.rt \in Nat
        BY <1>0, <2>2 DEF Inductive
      <4>2. pc'[c] = "login" /\ old'[c].rt = store.rt /\ rt'[c] = store.rt
        BY <2>a, <2>0, <2>2
      <4>3. /\ \A t \in Nat : <<"exchange", c, t>> \in wire' => t = rt'[c]
            /\ \A t \in Nat : <<"token", c, t>> \notin wire'
        BY <2>0, <4>2
      <4>4. QED
        BY <3>1, <4>1, <4>2, <4>3 DEF Exchanging
    <3>2. CASE d # c
      <4>1. Exchanging(d)
        BY <2>2 DEF Inductive
      <4>2. QED
        BY <2>a, <2>0, <3>2, <4>1 DEF Exchanging, Running
    <3>3. QED
      BY <3>1, <3>2
  <2>3. /\ ~Holds(c)' /\ ~Took(c)'
        /\ \A d \in Calls \ {c} : Holds(d)' = Holds(d) /\ Took(d)' = Took(d)
    BY <1>0, <2>a, <2>0 DEF Holds, Took
  <2>4. ASSUME mode = "refresh_token", Rolls, NEW d \in Calls PROVE Rolling(d)'
    <3>1. CASE d = c
      <4>1. pc'[c] = "login" /\ <<"create", c, 0>> \notin wire' /\ made'[c] = 0
        BY <2>a, <2>b, <2>0, <2>4
      <4>2. ~(old'[c].rt < rt'[c])
        BY <1>0, <2>a
      <4>3. QED
        BY <2>0, <2>3, <3>1, <4>1, <4>2 DEF Rolling
    <3>2. CASE d # c
      <4>1. Rolling(d)
        BY <2>4 DEF Inductive
      <4>2. Holds(d)' => ~Holds(c)' /\ <<"exchange", c, valid'>> \notin wire' /\ old'[c].rt # valid'
        BY <1>0, <2>a, <2>0, <2>3, <3>2, <4>1 DEF Rolling
      <4>3. QED
        BY <1>0, <2>a, <2>0, <2>3, <3>2, <4>1, <4>2 DEF Rolling
    <3>3. QED
      BY <3>1, <3>2
  <2>5. ASSUME Serial, NEW d \in Calls PROVE Awaited(d)'
    BY <2>a, <2>0, <2>5 DEF Inductive, Awaited, Running, Ended
  <2>6. StrandedHasCause'
    <3>1. ASSUME mode = "refresh_token", store.rt # valid, NEW d \in Calls,
                 <<"token", d, valid>> \in wire \/ (rt[d] = valid /\ pc[d] # "stored")
          PROVE  <<"token", d, valid'>> \in wire' \/ (rt'[d] = valid' /\ pc'[d] # "stored")
      <4>1. d # c
        BY <1>0, <2>b, <3>1 DEF Inductive
      <4>2. QED
        BY <1>0, <2>a, <2>0, <3>1, <4>1
    <3>2. QED
      BY <1>o, <2>a, <3>1 DEF Inductive, StrandedHasCause
  <2>7. mode' = "refresh_token" => store'.rt >= 1
    BY <2>a DEF Inductive
  <2>8. QED
    BY <2>a, <2>1, <2>2, <2>4, <2>5, <2>6, <2>7 DEF Inductive
<1>5. ASSUME NEW c \in Calls, LoginSucceeds(c) \/ ReloginSucceeds(c) PROVE Inductive'
  <2> DEFINE request == IF pc[c] = "login" THEN "create" ELSE "delete"
  <2>a. PICK r \in 0..valid :
            /\ Granted(c, r)
            /\ rt' = [rt EXCEPT ![c] = r]
            /\ wire' = (wire \ {<<"token", c, r>>}) \union
                         (IF cancelled[c] THEN {} ELSE RequestsOf(c, request, r))
    BY <1>5 DEF LoginSucceeds, ReloginSucceeds
  <2>b. /\ UNCHANGED <<mode, valid, issued, live, made, answer, due, store, old, new, awaited, cancelled>>
        /\ pc[c] \in {"login", "relogin"} /\ pc'[c] = request
        /\ rt'[c] = r /\ r \in Nat /\ r <= valid
        /\ mode = "refresh_token" => <<"token", c, r>> \in wire
        /\ \A d \in Calls \ {c} : pc'[d] = pc[d] /\ rt'[d] = rt[d]
    BY <1>0, <1>5, <2>a DEF LoginSucceeds, ReloginSucceeds, GoOn, Granted, TypeOK
  <2>0. /\ \A d \in Calls \ {c}, k \in Kinds, t \in Nat : <<k, d, t>> \in wire' <=> <<k, d, t>> \in wire
        /\ \A t \in Nat : <<"exchange", c, t>> \in wire' <=> <<"exchange", c, t>> \in wire
        /\ \A t \in Nat : <<"token", c, t>> \in wire' <=> <<"token", c, t>> \in wire /\ t # r
        /\ <<"create", c, 0>> \in wire' => <<"create", c, 0>> \in wire \/ pc[c] = "login"
        /\ <<"delete", c, 0>> \in wire' => <<"delete", c, 0>> \in wire \/ (pc[c] # "login" /\ ~cancelled[c])
    BY <2>a, RequestsEffect
  <2> HIDE DEF request
  <2>c. pc'[c] \in {"create", "delete"} /\ (pc'[c] = "create" <=> pc[c] = "login")
    BY <2>b DEF request
  <2>1. ASSUME NEW d \in Calls PROVE Bookkeeping(d)'
    <3>0. Bookkeeping(d)
      BY DEF Inductive
    <3>1. CASE d = c
      BY <2>b, <2>c, <2>0, <3>0, <3>1 DEF Bookkeeping
    <3>2. CASE d # c
      BY <2>b, <2>0, <3>0, <3>2 DEF Bookkeeping
    <3>3. QED
      BY <3>1, <3>2
  <2>2. ASSUME mode = "refresh_token"
        PROVE  /\ \A t \in Nat : <<"exchange", c, t>> \notin wire' /\ <<"token", c, t>> \notin wire'
               /\ \A t \in Nat : <<"token", c, t>> \in wire => t = r
               /\ old[c].rt <= rt[c] /\ rt[c] <= r /\ 1 <= old[c].rt
    BY <2>b, <2>0, <2>2 DEF Inductive, Exchanging, Running, Ended
  <2>3. ASSUME mode = "refresh_token", NEW d \in Calls PROVE Exchanging(d)'
    <3>1. CASE d = c
      <4>1. old'[c].rt <= rt'[c] /\ 1 <= old'[c].rt
        BY <1>0, <2>b, <2>2, <2>3
      <4>2. pc'[c] # "reply"
        BY <2>c
      <4>3. QED
        BY <2>2, <2>3, <3>1, <4>1, <4>2 DEF Exchanging
    <3>2. CASE d # c
      <4>1. Exchanging(d)
        BY <2>3 DEF Inductive
      <4>2. QED
        BY <2>b, <2>0, <3>2, <4>1 DEF Exchanging, Running
    <3>3. QED
      BY <3>1, <3>2
  <2>4. ASSUME mode = "refresh_token", Rolls, NEW d \in Calls PROVE Rolling(d)'
    <3>1. r = valid /\ old[c].rt < r /\ Holds(c)
      BY <2>b, <2>4 DEF Inductive, Rolling, Holds
    <3>2. Holds(c)' /\ Took(c)' /\ Took(c)
      BY <1>0, <2>b, <2>c, <3>1 DEF Holds, Took
    <3>3. \A e \in Calls \ {c} : Holds(e)' = Holds(e) /\ Took(e)' = Took(e)
      BY <1>0, <2>b, <2>0 DEF Holds, Took
    <3>4. Rolling(d)
      BY <2>4 DEF Inductive
    <3>5. CASE d = c
      BY <1>0, <2>b, <2>c, <2>0, <2>2, <2>4, <3>1, <3>2, <3>3, <3>4, <3>5 DEF Rolling
    <3>6. CASE d # c
      BY <1>0, <2>b, <2>0, <3>1, <3>2, <3>3, <3>4, <3>6 DEF Rolling
    <3>7. QED
      BY <3>5, <3>6
  <2>5. ASSUME Serial, NEW d \in Calls PROVE Awaited(d)'
    BY <2>b, <2>c, <2>5 DEF Inductive, Awaited, Running, Ended
  <2>6. StrandedHasCause'
    <3>1. ASSUME mode = "refresh_token", NEW d \in Calls,
                 <<"token", d, valid>> \in wire \/ (rt[d] = valid /\ pc[d] # "stored")
          PROVE  <<"token", d, valid'>> \in wire' \/ (rt'[d] = valid' /\ pc'[d] # "stored")
      <4>1. CASE d = c
        <5>1. r = valid
          BY <1>0, <2>b, <2>2, <3>1, <4>1
        <5>2. QED
          BY <2>b, <2>c, <4>1, <5>1
      <4>2. CASE d # c
        BY <1>0, <2>b, <2>0, <3>1, <4>2
      <4>3. QED
        BY <4>1, <4>2
    <3>2. QED
      BY <1>o, <2>b, <3>1 DEF Inductive, StrandedHasCause
  <2>7. mode' = "refresh_token" => store'.rt >= 1
    BY <2>b DEF Inductive
  <2>8. QED
    BY <2>b, <2>1, <2>3, <2>4, <2>5, <2>6, <2>7 DEF Inductive
<1>6. ASSUME NEW c \in Calls, CreateSucceeds(c) PROVE Inductive'
  <2>a. PICK stage \in StagesAfterCreate(c), pat \in Bodies(c) :
            /\ GoOn(c, stage, NewPayload(c, pat))
            /\ Send(c, stage, rt[c])
            /\ due' = IF stage # "reply" /\ ~cancelled[c] THEN due \union {<<"delete", c>>} ELSE due
    BY <1>6 DEF CreateSucceeds
  <2>b. /\ UNCHANGED <<mode, valid, issued, live, made, answer, rt, store, old, awaited, cancelled>>
        /\ pc[c] = "create" /\ pc'[c] = stage /\ new'[c] = NewPayload(c, pat)
        /\ answer[c] # 0
        /\ \A d \in Calls \ {c} : pc'[d] = pc[d] /\ new'[d] = new[d]
        /\ stage \in {"delete", "relogin", "reply"}
    BY <1>6, <2>a, StagesType DEF CreateSucceeds, GoOn, TypeOK, AzurePATCreated
  <2>c. made[c] # 0
    BY <2>b DEF Inductive, Bookkeeping
  <2>0. /\ wire \subseteq wire'
        /\ \A d \in Calls \ {c}, k \in Kinds, t \in Nat : <<k, d, t>> \in wire' => <<k, d, t>> \in wire
        /\ \A t \in Nat : <<"token", c, t>> \in wire' => <<"token", c, t>> \in wire
        /\ \A t \in Nat : <<"create", c, t>> \in wire' => <<"create", c, t>> \in wire
        /\ \A t \in Nat : <<"exchange", c, t>> \in wire' => <<"exchange", c, t>> \in wire \/ t = rt[c]
        /\ \A t \in Nat : <<"delete", c, t>> \in wire' =>
                <<"delete", c, t>> \in wire \/ (stage = "delete" /\ ~cancelled[c])
        /\ <<"create", c>> \in due => <<"create", c>> \in due'
        /\ stage # "reply" /\ ~cancelled[c] => <<"delete", c>> \in due'
        /\ due \subseteq due'
    BY <2>a, <2>b, RequestsEffect DEF Send
  <2>1. ASSUME NEW d \in Calls PROVE Bookkeeping(d)'
    <3>0. Bookkeeping(d)
      BY DEF Inductive
    <3>1. CASE d = c
      BY <2>b, <2>c, <2>0, <3>0, <3>1 DEF Bookkeeping
    <3>2. CASE d # c
      BY <2>b, <2>0, <3>0, <3>2 DEF Bookkeeping
    <3>3. QED
      BY <3>1, <3>2
  <2>2. ASSUME mode = "refresh_token"
        PROVE  /\ \A t \in Nat : <<"exchange", c, t>> \notin wire /\ <<"token", c, t>> \notin wire
               /\ 1 <= old[c].rt /\ old[c].rt <= rt[c]
    BY <2>b, <2>2 DEF Inductive, Exchanging, Running, Ended
  <2>3. ASSUME mode = "refresh_token", NEW d \in Calls PROVE Exchanging(d)'
    <3>1. CASE d = c
      <4>1. NewPayload(c, pat).rt = rt[c]
        BY <1>0, <2>2, <2>3 DEF NewPayload
      <4>2. QED
        BY <1>0, <2>b, <2>0, <2>2, <2>3, <3>1, <4>1 DEF Exchanging
    <3>2. CASE d # c
      <4>1. Exchanging(d)
        BY <2>3 DEF Inductive
      <4>2. QED
        BY <2>b, <2>0, <3>2, <4>1 DEF Exchanging, Running
    <3>3. QED
      BY <3>1, <3>2
  <2>4. ASSUME mode = "refresh_token", Rolls, NEW d \in Calls PROVE Rolling(d)'
    <3>1. \A e \in Calls : Holds(e)' = Holds(e) /\ Took(e)' = Took(e)
      <4>1. \A e \in Calls, t \in Nat : <<"token", e, t>> \in wire' <=> <<"token", e, t>> \in wire
        BY <2>0
      <4>2. \A e \in Calls : pc'[e] = "stored" <=> pc[e] = "stored"
        BY <2>b
      <4>3. QED
        BY <1>0, <2>b, <4>1, <4>2 DEF Holds, Took
    <3>2. Rolling(c) /\ Rolling(d) /\ old[c].rt < rt[c]
      BY <2>b, <2>4 DEF Inductive, Rolling
    <3>3. Holds(d) /\ d # c => rt[c] # valid
      BY <2>b, <3>2 DEF Rolling
    <3>4. CASE d = c
      BY <1>0, <2>b, <2>0, <3>1, <3>2, <3>4 DEF Rolling
    <3>5. CASE d # c
      BY <1>0, <2>b, <2>0, <3>1, <3>2, <3>3, <3>5 DEF Rolling
    <3>6. QED
      BY <3>4, <3>5
  <2>5. ASSUME Serial, NEW d \in Calls PROVE Awaited(d)'
    BY <2>b, <2>5 DEF Inductive, Awaited, Running, Ended
  <2>6. StrandedHasCause'
    <3>1. ASSUME NEW d \in Calls,
                 <<"token", d, valid>> \in wire \/ (rt[d] = valid /\ pc[d] # "stored")
          PROVE  <<"token", d, valid'>> \in wire' \/ (rt'[d] = valid' /\ pc'[d] # "stored")
      BY <2>b, <2>0, <3>1
    <3>2. QED
      BY <1>o, <2>b, <3>1 DEF Inductive, StrandedHasCause
  <2>7. mode' = "refresh_token" => store'.rt >= 1
    BY <2>b DEF Inductive
  <2>8. QED
    BY <2>b, <2>1, <2>3, <2>4, <2>5, <2>6, <2>7 DEF Inductive
<1>7. ASSUME NEW c \in Calls, RevokeReturns(c) PROVE Inductive'
  <2>0. /\ UNCHANGED <<mode, valid, issued, live, wire, made, answer, rt, due, store, old, awaited, cancelled>>
        /\ pc[c] \in {"relogin", "delete"} /\ pc'[c] = "reply" /\ new'[c] = NewPayload(c, new[c])
        /\ \A d \in Calls \ {c} : pc'[d] = pc[d] /\ new'[d] = new[d]
    BY <1>7 DEF RevokeReturns, GoOn, serviceVars, TypeOK
  <2>1. ASSUME NEW d \in Calls PROVE Bookkeeping(d)'
    <3>0. Bookkeeping(d)
      BY DEF Inductive
    <3>1. CASE d = c
      BY <2>0, <3>0, <3>1 DEF Bookkeeping
    <3>2. CASE d # c
      BY <2>0, <3>0, <3>2 DEF Bookkeeping
    <3>3. QED
      BY <3>1, <3>2
  <2>2. ASSUME mode = "refresh_token", NEW d \in Calls PROVE Exchanging(d)'
    <3>0. Exchanging(d)
      BY <2>2 DEF Inductive
    <3>1. CASE d = c
      <4>1. 1 <= old[c].rt
        BY <2>0, <3>0, <3>1 DEF Exchanging, Running, Ended
      <4>2. NewPayload(c, new[c]).rt = rt[c]
        BY <1>0, <4>1 DEF NewPayload
      <4>3. QED
        BY <2>0, <3>0, <3>1, <4>1, <4>2 DEF Exchanging
    <3>2. CASE d # c
      BY <2>0, <3>0, <3>2 DEF Exchanging, Running
    <3>3. QED
      BY <3>1, <3>2
  <2>3. \A d \in Calls : Holds(d)' = Holds(d) /\ Took(d)' = Took(d)
    BY <1>0, <2>0 DEF Holds, Took
  <2>4. ASSUME mode = "refresh_token", Rolls, NEW d \in Calls PROVE Rolling(d)'
    <3>1. Rolling(d)
      BY <2>4 DEF Inductive
    <3>2. QED
      BY <2>0, <2>3, <3>1 DEF Rolling
  <2>5. ASSUME Serial, NEW d \in Calls PROVE Awaited(d)'
    BY <2>0, <2>5 DEF Inductive, Awaited, Running, Ended
  <2>6. StrandedHasCause'
    BY <1>o, <2>0 DEF Inductive, StrandedHasCause
  <2>7. mode' = "refresh_token" => store'.rt >= 1
    BY <2>0 DEF Inductive
  <2>8. QED
    BY <2>0, <2>1, <2>2, <2>4, <2>5, <2>6, <2>7 DEF Inductive
<1>8. ASSUME NEW c \in Calls, Deliver(c), UNCHANGED serviceVars PROVE Inductive'
  <2>0. /\ UNCHANGED <<mode, valid, issued, live, wire, made, answer, rt, due, old, new, cancelled>>
        /\ awaited[c] /\ ~awaited'[c] /\ store' = new[c]
        /\ pc[c] = "reply" /\ pc'[c] = "stored"
        /\ \A d \in Calls \ {c} : pc'[d] = pc[d] /\ awaited'[d] = awaited[d]
    BY <1>8 DEF Deliver, End, serviceVars, TypeOK
  <2>1. ASSUME NEW d \in Calls PROVE Bookkeeping(d)'
    BY <2>0 DEF Inductive, Bookkeeping
  <2>2. ASSUME mode = "refresh_token", NEW d \in Calls PROVE Exchanging(d)'
    BY <2>0, <2>2 DEF Inductive, Exchanging, Running, Ended
  <2>3. ASSUME mode = "refresh_token"
        PROVE  store'.rt = rt[c] /\ 1 <= old[c].rt /\ old[c].rt <= rt[c]
    BY <2>0, <2>3 DEF Inductive, Exchanging, Running, Ended
  <2>4. /\ \A d \in Calls : Took(d)' = Took(d)
        /\ \A d \in Calls \ {c} : Holds(d)' = Holds(d)
        /\ Holds(c)' <=> <<"token", c, valid>> \in wire
    BY <1>0, <2>0 DEF Holds, Took
  <2>5. ASSUME mode = "refresh_token", Rolls, NEW d \in Calls PROVE Rolling(d)'
    <3>0. Rolling(d) /\ Rolling(c)
      BY <2>5 DEF Inductive
    <3>1. Holds(c) /\ (<<"token", c, valid>> \in wire => rt[c] # valid)
      <4>1. old[c].rt < rt[c]
        BY <2>0, <3>0 DEF Rolling
      <4>2. Holds(c)
        BY <2>0, <3>0, <4>1 DEF Rolling
      <4>3. <<"token", c, valid>> \in wire => rt[c] # valid
        BY <1>0, <3>0 DEF Rolling
      <4>4. QED
        BY <4>2, <4>3
    <3>2. QED
      BY <2>0, <2>3, <2>4, <2>5, <3>0, <3>1 DEF Rolling
  <2>6. ASSUME Serial, NEW d \in Calls PROVE Awaited(d)'
    BY <2>0, <2>6 DEF Inductive, Awaited
  <2>7. StrandedHasCause'
    <3>1. SUFFICES ASSUME mode = "refresh_token", rt[c] # valid
                   PROVE  \/ \E d \in Calls :
                                 <<"token", d, valid>> \in wire \/ (rt[d] = valid /\ pc'[d] # "stored")
                          \/ ~Rolls /\ ~Serial /\ Overlapped'
      BY <2>0, <2>3 DEF StrandedHasCause
    <3>2. CASE Rolls
      <4>1. Rolling(c)
        BY <3>1, <3>2 DEF Inductive
      <4>2. Holds(c)
        BY <2>0, <4>1 DEF Rolling
      <4>3. QED
        BY <3>1, <4>2 DEF Holds
    <3>3. CASE old[c] = store
      <4>1. store.rt # valid
        BY <1>0, <2>3, <3>1, <3>3
      <4>2. CASE ~Rolls /\ ~Serial /\ Overlapped
        BY <1>o, <4>2
      <4>3. CASE \E d \in Calls : <<"token", d, valid>> \in wire \/ (rt[d] = valid /\ pc[d] # "stored")
        BY <2>0, <3>1, <4>3
      <4>4. QED
        BY <3>1, <4>1, <4>2, <4>3 DEF Inductive, StrandedHasCause
    <3>4. CASE ~Rolls /\ old[c] # store
      <4>1. ~Serial
        BY <2>0, <3>4 DEF Inductive, Awaited
      <4>2. Overlapped'
        <5>1. CASE Overlapped
          BY <1>o, <5>1
        <5>2. CASE ~Overlapped
          <6>1. PICK d \in Calls : pc[d] = "stored" /\ old[d] = old[c]
            BY <2>0, <3>4, <5>2 DEF ReplacedByOne, Running, Ended
          <6>2. QED
            BY <2>0, <6>1 DEF Overlapped
        <5>3. QED
          BY <5>1, <5>2
      <4>3. QED
        BY <3>4, <4>1, <4>2
    <3>5. QED
      BY <3>1, <3>2, <3>3, <3>4
  <2>8. mode' = "refresh_token" => store'.rt >= 1
    BY <1>0, <2>0, <2>3
  <2>9. QED
    BY <2>0, <2>1, <2>2, <2>5, <2>6, <2>7, <2>8 DEF Inductive
<1>9. ASSUME NEW c \in Calls, CreateFails(c) PROVE Inductive'
  BY <1>9, <1>o, QuietStep DEF CreateFails, Fail, End, TypeOK
<1>10. ASSUME NEW c \in Calls, UNCHANGED serviceVars, Refuse(c) \/ Drop(c) \/ Die(c)
       PROVE  Inductive'
  BY <1>10, <1>o, QuietStep DEF Refuse, Drop, Die, End, Running, Ended, TypeOK
<1>11. ASSUME NEW c \in Calls, UNCHANGED serviceVars, GiveUp(c) \/ NoticeLeft(c)
       PROVE  Inductive'
  BY <1>11, <1>o, QuietStep DEF GiveUp, NoticeLeft, Running, TypeOK
<1>12. CASE UNCHANGED vars
  <2>0. /\ UNCHANGED <<mode, valid, issued, live, wire, made, answer, rt, due>>
        /\ UNCHANGED <<store, pc, old, new, awaited, cancelled>>
    BY <1>12 DEF vars, gatewayVars, serviceVars
  <2>1. \A d \in Calls : Bookkeeping(d)'
    BY <2>0 DEF Inductive, Bookkeeping
  <2>2. mode = "refresh_token" => \A d \in Calls : Exchanging(d)'
    BY <2>0 DEF Inductive, Exchanging, Running
  <2>3. mode = "refresh_token" /\ Rolls => \A d \in Calls : Rolling(d)'
    <3>1. \A d \in Calls : Holds(d)' = Holds(d) /\ Took(d)' = Took(d)
      BY <2>0 DEF Holds, Took
    <3>2. QED
      BY <2>0, <3>1 DEF Inductive, Rolling
  <2>4. Serial => \A d \in Calls : Awaited(d)'
    BY <2>0 DEF Inductive, Awaited, Running
  <2>5. StrandedHasCause'
    BY <1>o, <2>0 DEF Inductive, StrandedHasCause
  <2>6. QED
    BY <2>0, <2>1, <2>2, <2>3, <2>4, <2>5 DEF Inductive
<1>13. QED
  BY <1>1, <1>2, <1>3, <1>4, <1>5, <1>6, <1>7, <1>8, <1>9, <1>10, <1>11, <1>12 DEF Next

LEMMA InductiveInvariant == Spec => []Inductive
BY TypeInit, TypeStep, ReplacedInit, ReplacedStep, InductiveInit, InductiveStep, PTL DEF Spec

-----------------------------------------------------------------------------

\* A refresh token that is used up in the store has a successor that some call got
\* and did not deliver.
THEOREM StrandedAlwaysHasCause == Spec => []StrandedHasCause
<1>1. Inductive => StrandedHasCause
  BY DEF Inductive
<1>2. QED
  BY <1>1, InductiveInvariant, PTL

\* Where every exchange uses up the refresh token, it buys one token.
THEOREM OneMintAlways == Spec => []OneMintPerToken
<1>1. TypeOK /\ Inductive => OneMintPerToken
  <2> SUFFICES ASSUME TypeOK, Inductive, mode = "refresh_token", Rolls,
                      NEW c \in Calls, NEW d \in Calls,
                      made[c] # 0, made[d] # 0, old[c].rt = old[d].rt
               PROVE  c = d
    BY DEF OneMintPerToken
  <2>1. Rolling(c) /\ Rolling(d)
    BY DEF Inductive
  <2>2. Took(c) /\ Took(d)
    BY <2>1 DEF Rolling, Took, TypeOK, PayloadType
  <2>3. QED
    BY <2>1, <2>2 DEF Rolling
<1>2. QED
  BY <1>1, TypeCorrect, InductiveInvariant, PTL

-----------------------------------------------------------------------------
\* The implementation of Rotation.

LEMMA PlainInit == Init => Plain!Init
<1> SUFFICES ASSUME Init PROVE Plain!Init
  OBVIOUS
<1>1. /\ Without(store) \in [id : {0} \union Plain!Handles(issued), key : {issued}]
      /\ Plain!Whole(Without(store))
  BY DEF Init, Without, Plain!Handles, Plain!Whole, AzurePAT, CreateFirst, Profile
<1>2. Plain!GatewayInit(Plain!Blank)
  BY DEF Init, GatewayInit, Plain!GatewayInit, Plain!Blank, Plain!Payload, StageOf, Without, Blank
<1>3. QED
  BY <1>1, <1>2 DEF Init, Plain!Init

\* A call that moves to another stage moves to its image.
LEMMA StageMoves ==
    ASSUME TypeOK, NEW c \in Calls, NEW stage, pc' = [pc EXCEPT ![c] = stage]
    PROVE  [d \in Calls |-> StageOf(pc[d])]'
             = [[d \in Calls |-> StageOf(pc[d])] EXCEPT ![c] = StageOf(stage)]
BY DEF TypeOK

LEMMA PlainStep == TypeOK /\ Bounded /\ Inductive /\ [Next]_vars => [Plain!Next]_(Plain!vars)
<1> SUFFICES ASSUME TypeOK, Bounded, Inductive, [Next]_vars
             PROVE  [Plain!Next]_(Plain!vars)
  OBVIOUS
<1> DEFINE Same == UNCHANGED <<store, issued, live, due, made, answer, old, new, awaited, cancelled>>
<1>s. ASSUME Same, [d \in Calls |-> StageOf(pc[d])]' = [d \in Calls |-> StageOf(pc[d])]
      PROVE  UNCHANGED Plain!vars
  BY <1>s DEF Plain!vars, Plain!gatewayVars, Plain!serviceVars, Without
<1>1. ASSUME NEW c \in Calls, Exchange(c) PROVE UNCHANGED Plain!vars
  BY <1>1, <1>s DEF Exchange, gatewayVars
<1>2. ASSUME NEW c \in Calls, ServeCreate(c) PROVE Plain!ServeCreate(c)
  <2>1. <<"create", c>> \in due
    BY <1>2 DEF ServeCreate, Inductive, Bookkeeping
  <2>2. QED
    BY <1>2, <2>1 DEF ServeCreate, gatewayVars, Plain!ServeCreate, Plain!gatewayVars,
       Plain!SuccessStatuses, SuccessStatuses, Without
<1>3. ASSUME NEW c \in Calls, ServeDelete(c) PROVE Plain!ServeDelete(c)
  <2>1. <<"delete", c>> \in due
    BY <1>3 DEF ServeDelete, Inductive, Bookkeeping
  <2>2. QED
    BY <1>3, <2>1 DEF ServeDelete, Revokes, gatewayVars, Plain!ServeDelete, Plain!gatewayVars, Without
<1>4. ASSUME NEW c \in Calls, Trigger(c) PROVE Plain!Trigger(c)
  <2>1. Plain!FirstStage(Without(store)) = "create"
    BY DEF Plain!FirstStage, AzurePAT, CreateFirst, Profile
  <2>2. /\ pc[c] = "idle" /\ ~cancelled[c]
        /\ StageOf(pc[c]) = "idle" /\ StageOf(FirstStage) = "create"
    BY <1>4, StagesType DEF Trigger, Start, StageOf, Inductive, Bookkeeping
  <2>3. [d \in Calls |-> StageOf(pc[d])]'
          = [[d \in Calls |-> StageOf(pc[d])] EXCEPT ![c] = "create"]
    BY <1>4, <2>2, StageMoves DEF Trigger, Start
  <2>4. [d \in Calls |-> Without(old[d])]'
          = [[d \in Calls |-> Without(old[d])] EXCEPT ![c] = Without(store)]
    BY <1>4 DEF Trigger, Start, TypeOK
  <2>5. Plain!Start(c, "create")
    BY <1>4, <2>2, <2>3, <2>4 DEF Trigger, Start, Plain!Start, Without
  <2>6. Plain!Send(c, "create")
    BY <1>4, <2>2 DEF Trigger, Plain!Send, Plain!Requests
  <2>7. QED
    BY <1>4, <2>1, <2>5, <2>6 DEF Trigger, Plain!Trigger
<1>5. ASSUME NEW c \in Calls, LoginSucceeds(c) \/ ReloginSucceeds(c) PROVE UNCHANGED Plain!vars
  <2>1. PICK stage \in {"create", "delete"} :
            /\ StageOf(pc[c]) = StageOf(stage)
            /\ pc' = [pc EXCEPT ![c] = stage]
    BY <1>5 DEF LoginSucceeds, ReloginSucceeds, GoOn, StageOf
  <2>2. Same
    BY <1>5 DEF LoginSucceeds, ReloginSucceeds, GoOn, TypeOK
  <2>3. [d \in Calls |-> StageOf(pc[d])]' = [d \in Calls |-> StageOf(pc[d])]
    BY <2>1, StageMoves
  <2>4. QED
    BY <1>s, <2>2, <2>3
<1>6. ASSUME NEW c \in Calls, CreateFails(c) PROVE Plain!CreateFails(c)
  <2>1. StageOf(pc[c]) = "create" /\ StageOf("failed") = "failed"
    BY <1>6 DEF CreateFails, StageOf
  <2>2. [d \in Calls |-> StageOf(pc[d])]'
          = [[d \in Calls |-> StageOf(pc[d])] EXCEPT ![c] = "failed"]
    BY <1>6, <2>1, StageMoves DEF CreateFails, Fail, End
  <2>3. QED
    BY <1>6, <2>1, <2>2 DEF CreateFails, Fail, End, serviceVars, Without,
       Plain!CreateFails, Plain!Fail, Plain!End, Plain!serviceVars
<1>7. ASSUME NEW c \in Calls, CreateSucceeds(c) PROVE Plain!CreateSucceeds(c)
  <2>a. PICK stage \in StagesAfterCreate(c), pat \in Bodies(c) :
            /\ GoOn(c, stage, NewPayload(c, pat))
            /\ due' = IF stage # "reply" /\ ~cancelled[c] THEN due \union {<<"delete", c>>} ELSE due
    BY <1>7 DEF CreateSucceeds
  <2>b. StageOf(pc[c]) = "create" /\ StageOf(stage) = Plain!AfterCreate(c)
    BY <1>7, <2>a DEF CreateSucceeds, StagesAfterCreate, StageOf, Plain!AfterCreate, Without,
       AzurePAT, CreateFirst, Profile
  <2>1. pat \in Plain!Bodies(made[c])
    BY DEF Bodies, Plain!Bodies, Plain!Handles, Plain!Whole, Plain!Payload,
       AzurePAT, CreateFirst, Profile
  <2>2. Plain!Accepts(c, pat)
    BY <1>7 DEF CreateSucceeds, Plain!Accepts, AzurePAT, CreateFirst, Profile
  <2>3. [d \in Calls |-> StageOf(pc[d])]'
          = [[d \in Calls |-> StageOf(pc[d])] EXCEPT ![c] = Plain!AfterCreate(c)]
    BY <2>a, <2>b, StageMoves DEF GoOn
  <2>4. [d \in Calls |-> Without(new[d])]'
          = [[d \in Calls |-> Without(new[d])] EXCEPT ![c] = pat]
    <3>1. pat = [id |-> pat.id, key |-> pat.key]
      BY DEF Bodies
    <3>2. Without(NewPayload(c, pat)) = pat
      BY <3>1 DEF Without, NewPayload
    <3>3. QED
      BY <2>a, <3>2 DEF GoOn, TypeOK
  <2>5. Plain!GoOn(c, Plain!AfterCreate(c), pat)
    BY <2>a, <2>3, <2>4 DEF GoOn, Plain!GoOn, Without
  <2>6. Plain!Send(c, Plain!AfterCreate(c))
    <3>1. stage \in {"delete", "relogin", "reply"}
      BY StagesType
    <3>2. Plain!AfterCreate(c) = IF stage = "reply" THEN "reply" ELSE "delete"
      BY <2>b, <3>1 DEF StageOf
    <3>3. QED
      BY <2>a, <3>2 DEF Plain!Send, Plain!Requests
  <2>7. QED
    BY <1>7, <2>b, <2>1, <2>2, <2>5, <2>6 DEF CreateSucceeds, Plain!CreateSucceeds
<1>8. ASSUME NEW c \in Calls, RevokeReturns(c) PROVE Plain!DeleteReturns(c)
  <2>1. StageOf(pc[c]) = "delete" /\ StageOf("reply") = "reply"
    BY <1>8 DEF RevokeReturns, StageOf
  <2>2. Plain!AfterDelete = "reply"
    BY DEF Plain!AfterDelete, AzurePAT, CreateFirst, Profile
  <2>3. [d \in Calls |-> StageOf(pc[d])]'
          = [[d \in Calls |-> StageOf(pc[d])] EXCEPT ![c] = "reply"]
    BY <1>8, <2>1, StageMoves DEF RevokeReturns, GoOn
  <2>4. Without(NewPayload(c, new[c])) = Without(new[c])
    BY DEF Without, NewPayload
  <2>5. [d \in Calls |-> Without(new[d])]'
          = [[d \in Calls |-> Without(new[d])] EXCEPT ![c] = [d \in Calls |-> Without(new[d])][c]]
    BY <1>8, <2>4 DEF RevokeReturns, GoOn, TypeOK
  <2>6. Plain!GoOn(c, "reply", [d \in Calls |-> Without(new[d])][c])
    BY <1>8, <2>3, <2>5 DEF RevokeReturns, GoOn, Plain!GoOn, Without
  <2>7. Plain!Send(c, "reply")
    BY <1>8 DEF RevokeReturns, serviceVars, Plain!Send, Plain!Requests
  <2>8. QED
    BY <1>8, <2>1, <2>2, <2>6, <2>7 DEF RevokeReturns, serviceVars, Plain!DeleteReturns
<1>9. ASSUME NEW c \in Calls, UNCHANGED serviceVars, GiveUp(c) \/ NoticeLeft(c)
      PROVE  (Plain!GiveUp(c) \/ Plain!NoticeLeft(c)) /\ UNCHANGED Plain!serviceVars
  <2>1. Running(c) => StageOf(pc[c]) \notin {"idle"} \union Plain!Ended
    BY DEF Running, Ended, StageOf, Plain!Ended
  <2>2. QED
    BY <1>9, <2>1 DEF GiveUp, NoticeLeft, Plain!GiveUp, Plain!NoticeLeft, Plain!Running,
       serviceVars, Plain!serviceVars, Without
<1>10. ASSUME NEW c \in Calls, UNCHANGED serviceVars,
              Refuse(c) \/ Deliver(c) \/ Drop(c) \/ Die(c)
       PROVE  /\ Plain!Refuse(c) \/ Plain!Deliver(c) \/ Plain!Drop(c) \/ Plain!Die(c)
              /\ UNCHANGED Plain!serviceVars
  <2>1. /\ pc[c] = "idle" => StageOf(pc[c]) = "idle"
        /\ pc[c] = "reply" => StageOf(pc[c]) = "reply"
        /\ Running(c) => StageOf(pc[c]) \notin {"idle"} \union Plain!Ended
        /\ \A stage \in Ended : StageOf(stage) = stage
    BY DEF StageOf, Running, Ended, Plain!Ended
  <2>2. ASSUME NEW stage \in Ended, End(c, stage) PROVE Plain!End(c, stage)
    <3>0. StageOf(stage) = stage /\ pc' = [pc EXCEPT ![c] = stage]
      BY <2>1, <2>2 DEF End
    <3>1. [d \in Calls |-> StageOf(pc[d])]'
            = [[d \in Calls |-> StageOf(pc[d])] EXCEPT ![c] = stage]
      BY <3>0, StageMoves
    <3>2. QED
      BY <2>2, <3>1 DEF End, Plain!End
  <2>3. UNCHANGED Plain!serviceVars
    BY <1>10 DEF serviceVars, Plain!serviceVars
  <2>4. Refuse(c) => Plain!Refuse(c)
    BY <2>1, <2>2 DEF Refuse, Plain!Refuse, Without, Ended
  <2>5. Deliver(c) => Plain!Deliver(c)
    BY <2>1, <2>2 DEF Deliver, Plain!Deliver, Without, Ended
  <2>6. Drop(c) => Plain!Drop(c)
    BY <2>1, <2>2 DEF Drop, Plain!Drop, Without, Ended
  <2>7. Die(c) => Plain!Die(c)
    BY <2>1, <2>2 DEF Die, Plain!Die, Plain!Running, Without, Ended
  <2>8. QED
    BY <1>10, <2>3, <2>4, <2>5, <2>6, <2>7
<1>11. CASE UNCHANGED vars
  BY <1>11, <1>s DEF vars, gatewayVars, serviceVars
<1>12. QED
  BY <1>1, <1>2, <1>3, <1>4, <1>5, <1>6, <1>7, <1>8, <1>9, <1>10, <1>11
     DEF Next, Plain!Next, Plain!Progress, Plain!Return

\* To the gateway and to Azure DevOps the target is one of Rotation's: what is proved
\* there of AzurePAT holds here, logins or not.
THEOREM ImplementsRotationAlways == Spec => ImplementsRotation
BY PlainInit, PlainStep, TypeInit, TypeStep, InductiveInvariant, PTL
   DEF Spec, ImplementsRotation, Plain!Spec

-----------------------------------------------------------------------------
\* What RotationProofs proves of every target is used for this one.

PlainProofs == INSTANCE RotationProofs WITH
    Profiles <- {AzurePAT},
    profile <- AzurePAT,
    revoking <- {},
    wire <- due,
    store <- Without(store),
    old <- [c \in Calls |-> Without(old[c])],
    new <- [c \in Calls |-> Without(new[c])],
    pc <- [c \in Calls |-> StageOf(pc[c])]

\* The assumption of Rotation holds of its instance.
LEMMA PlainAssumption ==
    /\ {AzurePAT} \subseteq PlainProofs!ProfileType /\ Blanks \in BOOLEAN
    /\ \A p \in {AzurePAT} : p.order = "create_first"
BY DEF AzurePAT, AzurePATCreated, SuccessStatuses, CreateFirst, Profile,
   PlainProofs!ProfileType, PlainProofs!SuccessStatuses

\* Both instances of Rotation say the same.
LEMMA PlainSpec == Spec => PlainProofs!Spec
<1>1. Plain!Init => PlainProofs!Init
  BY DEF Plain!Init, Plain!GatewayInit, Plain!Handles, Plain!Whole, Plain!Payload,
     Plain!Blank, PlainProofs!Init, PlainProofs!GatewayInit, PlainProofs!Handles,
     PlainProofs!Whole, PlainProofs!Payload, PlainProofs!Blank
<1>2. Plain!Next => PlainProofs!Next
  BY DEF Plain!Next, Plain!Progress, Plain!Trigger, Plain!Start, Plain!FirstStage,
     Plain!Send, Plain!Requests, Plain!TriggerRevoke, Plain!RevokeStage,
     Plain!CreateSucceeds, Plain!Accepts, Plain!Bodies, Plain!Handles, Plain!Whole,
     Plain!Payload, Plain!Blank, Plain!AfterCreate, Plain!GoOn, Plain!CreateFails,
     Plain!Fail, Plain!End, Plain!DeleteReturns, Plain!AfterDelete, Plain!RevokeReturns,
     Plain!Return, Plain!Deliver, Plain!Acknowledge, Plain!Drop, Plain!ServeCreate,
     Plain!SuccessStatuses, Plain!RefuseCreate, Plain!ErrorStatus, Plain!ServeDelete,
     Plain!Refuse, Plain!GiveUp, Plain!NoticeLeft, Plain!Running, Plain!Ended,
     Plain!Die, Plain!serviceVars, Plain!gatewayVars, PlainProofs!Next,
     PlainProofs!Progress, PlainProofs!Trigger, PlainProofs!Start,
     PlainProofs!FirstStage, PlainProofs!Send, PlainProofs!Requests,
     PlainProofs!TriggerRevoke, PlainProofs!RevokeStage, PlainProofs!CreateSucceeds,
     PlainProofs!Accepts, PlainProofs!Bodies, PlainProofs!Handles, PlainProofs!Whole,
     PlainProofs!Payload, PlainProofs!Blank, PlainProofs!AfterCreate, PlainProofs!GoOn,
     PlainProofs!CreateFails, PlainProofs!Fail, PlainProofs!End,
     PlainProofs!DeleteReturns, PlainProofs!AfterDelete, PlainProofs!RevokeReturns,
     PlainProofs!Return, PlainProofs!Deliver, PlainProofs!Acknowledge, PlainProofs!Drop,
     PlainProofs!ServeCreate, PlainProofs!SuccessStatuses, PlainProofs!RefuseCreate,
     PlainProofs!ErrorStatus, PlainProofs!ServeDelete, PlainProofs!Refuse,
     PlainProofs!GiveUp, PlainProofs!NoticeLeft, PlainProofs!Running, PlainProofs!Ended,
     PlainProofs!Die, PlainProofs!serviceVars, PlainProofs!gatewayVars
<1>3. [Plain!Next]_(Plain!vars) => [PlainProofs!Next]_(PlainProofs!vars)
  BY <1>2 DEF Plain!vars, Plain!gatewayVars, Plain!serviceVars,
     PlainProofs!vars, PlainProofs!gatewayVars, PlainProofs!serviceVars
<1>4. QED
  BY <1>1, <1>3, ImplementsRotationAlways, PTL
  DEF ImplementsRotation, Plain!Spec, PlainProofs!Spec

\* However often a login fails, is repeated or loses its answer, nothing but a
\* superseded PAT is revoked and nothing but a working one is stored, as long as Azure
\* DevOps sends what it created.
THEOREM Refinement ==
    ASSUME ~Blanks
    PROVE  Spec => RefinesPool
<1>1. PlainProofs!Spec => PlainProofs!RefinesPool
  BY PlainAssumption, PlainProofs!Refinement
<1>2. PlainProofs!RefinesPool => RefinesPool
  BY DEF RefinesPool, Plain!RefinesPool, PlainProofs!RefinesPool, Plain!Ordered,
     PlainProofs!Ordered, Plain!Pool!RevocableSpec, Plain!Pool!RevocableInit,
     Plain!Pool!RevocableNext, Plain!Pool!revocableVars, Plain!Pool!Order,
     Plain!Pool!Revoke, Plain!Pool!PoolInit, Plain!Pool!PoolNext, Plain!Pool!poolVars,
     Plain!Pool!Issue, Plain!Pool!Retire, Plain!Pool!Publish,
     PlainProofs!Pool!RevocableSpec, PlainProofs!Pool!RevocableInit,
     PlainProofs!Pool!RevocableNext, PlainProofs!Pool!revocableVars,
     PlainProofs!Pool!Order, PlainProofs!Pool!Revoke, PlainProofs!Pool!PoolInit,
     PlainProofs!Pool!PoolNext, PlainProofs!Pool!poolVars, PlainProofs!Pool!Issue,
     PlainProofs!Pool!Retire, PlainProofs!Pool!Publish
<1>3. QED
  BY <1>1, <1>2, PlainSpec

\* A stored PAT that is dead was sent to a call that holds its working successor.
THEOREM StoredDeadAlwaysHasCause == Spec => []StoredDeadHasCause
<1>1. PlainProofs!Spec => []PlainProofs!StoredDeadHasCause
  BY PlainAssumption, PlainProofs!StoredDeadAlwaysHasCause
<1>2. PlainProofs!StoredDeadHasCause => StoredDeadHasCause
  BY DEF StoredDeadHasCause, Plain!StoredDeadHasCause, PlainProofs!StoredDeadHasCause,
     Plain!Ordered, PlainProofs!Ordered
<1>3. QED
  BY <1>1, <1>2, PlainSpec, PTL

\* Every PAT that is left behind has one of the causes that Rotation names.
THEOREM LeakAlwaysHasCause == Spec => []LeakHasCause
<1>1. PlainProofs!Spec => []PlainProofs!LeakHasCause
  BY PlainAssumption, PlainProofs!LeakAlwaysHasCause
<1>2. PlainProofs!LeakHasCause => LeakHasCause
  BY DEF LeakHasCause, Plain!LeakHasCause, Plain!Overlapped,
     PlainProofs!LeakHasCause, PlainProofs!Overlapped
<1>3. QED
  BY <1>1, <1>2, PlainSpec, PTL

=============================================================================
