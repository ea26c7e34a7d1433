-------------------------- MODULE DeviceCodeProofs --------------------------
(***************************************************************************)
(* Theorems about DeviceCode: its safety properties hold for every pause,  *)
(* every lifetime and every patience.                                      *)
(***************************************************************************)
EXTENDS DeviceCode, TLAPS

USE DeviceCodeAssumption

-----------------------------------------------------------------------------
\* The inductive invariant.

\* What is known of the code and its pause while the tool asks for it.
Asking ==
    phase = "asking" =>
        /\ mail \in {"sent", "code"}
        /\ ~redeemed
        /\ sentAt = 0
        /\ outcome = "none"
        /\ mail = "code" =>
               /\ demand = Pause(code.pause)
               /\ codeEnd = answeredAt + code.life

\* A sleep is as long as the provider demands and begins before the deadline.
Sleeping ==
    phase = "sleeping" =>
        /\ mail \in {"code", "pending", "slow_down"}
        /\ interval = demand
        /\ now <= wake
        /\ sentAt + demand <= wake
        /\ wake < deadline + interval
        /\ codeEnd <= deadline
        /\ outcome = "none"

\* Only an unread complaint sets the pause of the tool and the demand apart.
Polling ==
    phase = "polling" =>
        /\ mail \in {"sent"} \union Answers
        /\ demand = IF mail = "slow_down" THEN interval + SlowDown ELSE interval
        /\ mail = "pending" => answeredAt < codeEnd
        /\ codeEnd <= deadline
        /\ outcome = "none"

Inductive ==
    /\ redeemed => mail \in {"token", "bare_token"}
    /\ Asking
    /\ Sleeping
    /\ Polling
    /\ GivesUpInTime
    /\ ExpiredOnTheWay
    /\ IssuedIsPrinted

-----------------------------------------------------------------------------

LEMMA PauseType == \A i \in Int : Pause(i) \in Nat \ {0}
BY DEF Pause

LEMMA NamedType ==
    (\A i \in Intervals \union {0} : i \in Int) /\ (\A l \in Lifetimes \union {0} : l \in Nat)
OBVIOUS

LEMMA CodeType == TypeOK => code.pause \in Int /\ code.life \in Nat
<1> SUFFICES ASSUME TypeOK PROVE code.pause \in Int /\ code.life \in Nat
  OBVIOUS
<1>1. code.pause \in Intervals \union {0} /\ code.life \in Lifetimes \union {0}
  BY DEF TypeOK
<1>2. QED
  BY <1>1, NamedType

LEMMA TypeInit == Init => TypeOK
<1> SUFFICES ASSUME Init PROVE TypeOK
  OBVIOUS
<1>1. code \in [pause : Intervals \union {0}, life : Lifetimes \union {0}]
  <2>1. 0 \in Intervals \union {0} /\ 0 \in Lifetimes \union {0}
    OBVIOUS
  <2>2. QED
    BY <2>1 DEF Init
<1>2. /\ now = 0 /\ phase = "asking" /\ mail = "sent" /\ user = FALSE /\ codeEnd = 0
      /\ redeemed = FALSE /\ demand = 0 /\ interval = 0 /\ deadline = 0 /\ wake = 0
      /\ sentAt = 0 /\ answeredAt = 0 /\ outcome = "none"
  BY DEF Init
<1>3. sentAt \in 0..now /\ answeredAt \in 0..now
  BY <1>2
<1>4. user \in BOOLEAN /\ redeemed \in BOOLEAN
  BY <1>2
<1>5. QED
  BY <1>1, <1>2, <1>3, <1>4, Zenon DEF TypeOK, Answers, Outcomes

LEMMA TypeStep == TypeOK /\ [Next]_vars => TypeOK'
<1> SUFFICES ASSUME TypeOK, [Next]_vars
             PROVE  TypeOK'
  OBVIOUS
<1> USE DEF TypeOK, Answers, Outcomes
<1>1. CASE Tick
  BY <1>1 DEF Tick, providerVars, toolVars
<1>2. CASE SignIn
  BY <1>2 DEF SignIn, toolVars
<1>3. CASE MakeCode
  <2>1. /\ code' \in [pause : Intervals, life : Lifetimes]
        /\ code'.pause \in Int /\ code'.life \in Nat
    BY <1>3 DEF MakeCode
  <2>2. demand' \in Nat /\ codeEnd' \in Nat
    BY <1>3, <2>1 DEF MakeCode
  <2>3. QED
    BY <1>3, <2>1, <2>2 DEF MakeCode, toolVars
<1>4. CASE AnswerPoll
  <2>1. mail' \in Answers /\ redeemed' \in BOOLEAN /\ demand' \in Nat
    <3>1. CASE Complain
      BY <3>1 DEF Complain
    <3>2. CASE Pending \/ Issue \/ Decline
      BY <3>2 DEF Pending, Issue, Decline
    <3>3. QED
      BY <1>4, <3>1, <3>2 DEF AnswerPoll
  <2>2. QED
    BY <1>4, <2>1 DEF AnswerPoll, toolVars
<1>5. CASE ReadCode
  <2>1. code.pause \in Int /\ code.life \in Nat
    BY CodeType
  <2>2. interval' \in Nat /\ deadline' \in Nat
    BY <1>5, <2>1, PauseType DEF ReadCode
  <2>3. QED
    BY <1>5, <2>2 DEF ReadCode, Loop, Finish, providerVars
<1>6. CASE Poll
  BY <1>6 DEF Poll, providerVars
<1>7. CASE ReadAnswer
  <2>1. interval' \in Nat
    BY <1>7 DEF ReadAnswer, NextPause
  <2>2. QED
    BY <1>7, <2>1 DEF ReadAnswer, Loop, Finish, providerVars
<1>8. CASE Unanswered
  BY <1>8 DEF Unanswered, Finish, providerVars
<1>9. CASE UNCHANGED vars
  BY <1>9 DEF vars, providerVars, toolVars
<1>10. QED
  BY <1>1, <1>2, <1>3, <1>4, <1>5, <1>6, <1>7, <1>8, <1>9 DEF Next, Tool

\* Every variable keeps its type.
THEOREM TypeCorrect == Spec => []TypeOK
BY TypeInit, TypeStep, PTL DEF Spec

-----------------------------------------------------------------------------

LEMMA InductiveInit == Init => Inductive
BY DEF Init, Inductive, Asking, Sleeping, Polling, GivesUpInTime, ExpiredOnTheWay,
   IssuedIsPrinted

\* The invariant is inductive: each step re-establishes every part of it.
LEMMA InductiveStep == TypeOK /\ TypeOK' /\ Inductive /\ [Next]_vars => Inductive'
<1> SUFFICES ASSUME TypeOK, TypeOK', Inductive, [Next]_vars
             PROVE  Inductive'
  OBVIOUS
<1>0. /\ now \in Nat /\ codeEnd \in Nat /\ demand \in Nat /\ interval \in Nat
      /\ deadline \in Nat /\ wake \in Nat /\ sentAt \in 0..now /\ answeredAt \in 0..now
      /\ code.pause \in Int /\ code.life \in Nat
  BY CodeType DEF TypeOK
<1> USE DEF Inductive, Asking, Sleeping, Polling, GivesUpInTime, ExpiredOnTheWay,
        IssuedIsPrinted, Answers
<1>1. CASE Tick
  BY <1>0, <1>1 DEF Tick, providerVars, toolVars
<1>2. CASE SignIn
  BY <1>2 DEF SignIn, toolVars
<1>3. CASE MakeCode
  BY <1>0, <1>3 DEF MakeCode, Pause, toolVars
<1>4. CASE AnswerPoll
  BY <1>0, <1>4 DEF AnswerPoll, Pending, Complain, Issue, Decline, toolVars
<1>5. CASE ReadCode
  <2>1. /\ Pause(code.pause) \in Nat \ {0}
        /\ demand = Pause(code.pause) /\ codeEnd <= now + code.life
        /\ sentAt = 0 /\ ~redeemed /\ outcome = "none"
    BY <1>0, <1>5, PauseType DEF ReadCode
  <2>2. /\ interval' = demand /\ deadline' = now + code.life
        /\ UNCHANGED <<now, mail, code, codeEnd, redeemed, demand, answeredAt, sentAt>>
    BY <1>5, <2>1 DEF ReadCode, Loop, Finish, providerVars
  <2>3. CASE now < deadline' /\ phase' = "sleeping" /\ wake' = now + interval' /\ outcome' = outcome
    BY <1>0, <1>5, <2>1, <2>2, <2>3 DEF ReadCode
  <2>4. CASE now >= deadline' /\ phase' = "ended" /\ outcome' = "expired"
    BY <1>0, <2>1, <2>2, <2>4
  <2>5. QED
    BY <1>5, <2>2, <2>3, <2>4 DEF ReadCode, Loop, Finish
<1>6. CASE Poll
  BY <1>0, <1>6 DEF Poll, providerVars
<1>7. CASE ReadAnswer
  <2>1. /\ UNCHANGED <<now, mail, code, codeEnd, redeemed, demand, answeredAt, sentAt, deadline>>
        /\ phase = "polling"
    BY <1>7 DEF ReadAnswer, Loop, Finish, providerVars
  <2>2. CASE /\ mail \in {"pending", "slow_down"}
             /\ interval' = NextPause
             /\ Loop(interval', deadline)
    <3>1. interval' = demand /\ ~redeemed
      BY <2>1, <2>2 DEF NextPause
    <3>2. CASE now >= deadline /\ Finish("expired")
      BY <1>0, <2>1, <2>2, <3>1, <3>2 DEF Finish
    <3>3. CASE now < deadline /\ phase' = "sleeping" /\ wake' = now + interval' /\ outcome' = outcome
      BY <1>0, <2>1, <2>2, <3>1, <3>3
    <3>4. QED
      BY <2>2, <3>2, <3>3 DEF Loop
  <2>3. CASE \/ mail = "token" /\ Finish("printed")
             \/ mail = "bare_token" /\ Finish("no_refresh_token")
             \/ mail = "error" /\ Finish("refused")
    BY <2>1, <2>3 DEF Finish
  <2>4. QED
    BY <1>7, <2>2, <2>3 DEF ReadAnswer
<1>8. CASE Unanswered
  BY <1>8 DEF Unanswered, Finish, providerVars
<1>9. CASE UNCHANGED vars
  BY <1>9 DEF vars, providerVars, toolVars
<1>10. QED
  BY <1>1, <1>2, <1>3, <1>4, <1>5, <1>6, <1>7, <1>8, <1>9 DEF Next, Tool

LEMMA InductiveInvariant == Spec => []Inductive
BY TypeCorrect, InductiveInit, InductiveStep, PTL DEF Spec

-----------------------------------------------------------------------------

\* The last poll comes less than one pause after the deadline.
THEOREM AlwaysGivesUpInTime == Spec => []GivesUpInTime
<1>1. Inductive => GivesUpInTime
  BY DEF Inductive
<1>2. QED
  BY <1>1, InductiveInvariant, PTL

\* The tool says that the code has expired only if it could not know better.
THEOREM AlwaysExpiredOnTheWay == Spec => []ExpiredOnTheWay
<1>1. Inductive => ExpiredOnTheWay
  BY DEF Inductive
<1>2. QED
  BY <1>1, InductiveInvariant, PTL

\* The deadline keeps no token that was issued from being printed.
THEOREM AlwaysIssuedIsPrinted == Spec => []IssuedIsPrinted
<1>1. Inductive => IssuedIsPrinted
  BY DEF Inductive
<1>2. QED
  BY <1>1, InductiveInvariant, PTL

\* Between two requests there is the pause that the provider has asked for.
THEOREM AlwaysSpaced == Spec => PollsAreSpaced
<1>1. TypeOK /\ Inductive /\ [Next]_vars
        => [sentAt' # sentAt => sentAt' >= sentAt + demand]_vars
  <2> SUFFICES ASSUME TypeOK, Inductive, [Next]_vars, sentAt' # sentAt
               PROVE  sentAt' >= sentAt + demand
    OBVIOUS
  <2>1. Poll
    BY DEF Next, Tick, SignIn, MakeCode, AnswerPoll, Pending, Complain, Issue, Decline, Tool,
       ReadCode, ReadAnswer, Unanswered, Loop, Finish, vars, toolVars
  <2>2. /\ sentAt' = now /\ now >= wake /\ sentAt + demand <= wake
        /\ now \in Nat /\ wake \in Nat /\ demand \in Nat /\ sentAt \in 0..now
    BY <2>1 DEF Poll, Inductive, Sleeping, TypeOK
  <2>3. QED
    BY <2>2
<1>2. QED
  BY <1>1, TypeCorrect, InductiveInvariant, PTL DEF Spec, PollsAreSpaced

-----------------------------------------------------------------------------
\* How long the pause may get.

\* When the tool read the code.
Begun == deadline - code.life

\* A pause of length i that may be begun at time t after the code was read: the complaints
\* that it takes to make it so long came one pause after another.
Reachable(i, p, t) == (i - p) * (i + p - SlowDown) <= 2 * SlowDown * t

Growing ==
    phase \in {"sleeping", "polling"} =>
        /\ Pause(code.pause) <= interval
        /\ wake < deadline + interval
        /\ Reachable(interval, Pause(code.pause), wake - interval - Begun)
        /\ phase = "polling" => wake <= sentAt /\ now <= sentAt + Patience

\* Time may pass, and a pause makes the next complaint possible.
LEMMA ReachableLater ==
    ASSUME NEW i \in Nat, NEW p \in Nat, NEW t \in Int, NEW u \in Int, t <= u, Reachable(i, p, t)
    PROVE  Reachable(i, p, u)
<1>1. SlowDown * t <= SlowDown * u
  <2>1. SlowDown * (u - t) >= 0
    OBVIOUS
  <2>2. QED
    BY <2>1
<1>2. QED
  BY <1>1 DEF Reachable

LEMMA ReachableAfterComplaint ==
    ASSUME NEW i \in Nat, NEW p \in Nat, NEW t \in Int, NEW u \in Int, t + i <= u,
           Reachable(i, p, t)
    PROVE  Reachable(i + SlowDown, p, u)
<1>1. Reachable(i + SlowDown, p, t + i)
  <2>1. (i + SlowDown - p) * (i + p) = (i - p) * (i + p - SlowDown) + 2 * SlowDown * i
    OBVIOUS
  <2>2. QED
    BY <2>1 DEF Reachable
<1>2. QED
  BY <1>1, ReachableLater

LEMMA GrowingInit == Init => Growing
BY DEF Init, Growing

LEMMA GrowingStep == TypeOK /\ TypeOK' /\ Inductive /\ Growing /\ [Next]_vars => Growing'
<1> SUFFICES ASSUME TypeOK, TypeOK', Inductive, Growing, [Next]_vars
             PROVE  Growing'
  OBVIOUS
<1>0. /\ now \in Nat /\ interval \in Nat /\ deadline \in Nat /\ wake \in Nat /\ sentAt \in 0..now
      /\ code.pause \in Int /\ code.life \in Nat /\ Pause(code.pause) \in Nat \ {0}
  BY CodeType, PauseType DEF TypeOK
<1>1. CASE Tick
  <2>1. phase = "polling" => now + 1 <= sentAt + Patience
    BY <1>0, <1>1 DEF Tick
  <2>2. QED
    BY <1>1, <2>1 DEF Tick, providerVars, toolVars, Growing, Begun
<1>2. CASE SignIn \/ MakeCode \/ AnswerPoll
  <2>1. UNCHANGED <<now, toolVars>> /\ (phase # "asking" => UNCHANGED code)
    BY <1>2 DEF SignIn, MakeCode, AnswerPoll
  <2>2. QED
    BY <2>1 DEF toolVars, Growing, Begun
<1>3. CASE ReadCode
  <2>1. /\ interval' = Pause(code.pause) /\ deadline' = now + code.life
        /\ UNCHANGED code
        /\ phase' = "ended" \/ (phase' = "sleeping" /\ wake' = now + interval' /\ now < deadline')
    BY <1>3 DEF ReadCode, Loop, Finish, providerVars
  <2>2. wake' - interval' - Begun' = 0 \/ phase' = "ended"
    BY <1>0, <2>1 DEF Begun
  <2>3. Reachable(interval', Pause(code.pause), 0)
    BY <1>0, <2>1 DEF Reachable
  <2>4. QED
    BY <1>0, <2>1, <2>2, <2>3 DEF Growing
<1>4. CASE Poll
  <2>1. /\ UNCHANGED <<now, code, interval, deadline, wake>> /\ sentAt' = now
        /\ phase = "sleeping" /\ now >= wake
    BY <1>4 DEF Poll, providerVars
  <2>2. QED
    BY <1>0, <2>1 DEF Growing, Begun
<1>5. CASE ReadAnswer
  <2>1. /\ UNCHANGED <<now, code, deadline>> /\ phase = "polling"
        /\ \/ phase' = "ended"
           \/ /\ phase' = "sleeping" /\ wake' = now + interval' /\ now < deadline
              /\ interval' \in {interval, interval + SlowDown}
    BY <1>5 DEF ReadAnswer, NextPause, Loop, Finish, providerVars
  <2>2. CASE phase' = "ended"
    BY <2>2 DEF Growing
  <2>3. CASE phase' = "sleeping"
    <3>1. wake' = now + interval' /\ now < deadline /\ wake <= now
      BY <1>0, <2>1, <2>3 DEF Growing
    <3>2. wake' - interval' - Begun' = now - Begun
      BY <1>0, <2>1, <2>3, <3>1 DEF Begun
    <3>3. (wake - interval - Begun) + interval <= now - Begun
      BY <1>0, <3>1 DEF Begun
    <3>4. Reachable(interval, Pause(code.pause), wake - interval - Begun)
      BY <2>1 DEF Growing
    <3>5. wake - interval - Begun \in Int /\ now - Begun \in Int
          /\ wake - interval - Begun <= now - Begun
      BY <1>0, <3>3 DEF Begun
    <3>6. Reachable(interval', Pause(code.pause), now - Begun)
      BY <1>0, <2>1, <2>3, <3>3, <3>4, <3>5, ReachableLater, ReachableAfterComplaint
    <3>7. QED
      BY <1>0, <2>1, <2>3, <3>1, <3>2, <3>6 DEF Growing
  <2>4. QED
    BY <2>1, <2>2, <2>3
<1>6. CASE Unanswered
  BY <1>6 DEF Unanswered, Finish, Growing
<1>7. CASE UNCHANGED vars
  BY <1>7 DEF vars, providerVars, toolVars, Growing, Begun
<1>8. QED
  BY <1>1, <1>2, <1>3, <1>4, <1>5, <1>6, <1>7 DEF Next, Tool

\* The tool ends within a pause and a request of the deadline, and a slow_down makes the
\* pause longer no faster than the square root of the lifetime.
THEOREM AlwaysEndsInTime == Spec => []EndsInTime
<1>1. TypeOK /\ Inductive /\ Growing => EndsInTime
  <2> SUFFICES ASSUME TypeOK, Inductive, Growing, phase \in {"sleeping", "polling"}
               PROVE  /\ now < deadline + interval + Patience
                      /\ Reachable(interval, Pause(code.pause), code.life)
    BY DEF Inductive, EndsInTime, Reachable
  <2>0. /\ now \in Nat /\ interval \in Nat /\ deadline \in Nat /\ wake \in Nat /\ sentAt \in 0..now
        /\ code.life \in Nat /\ Pause(code.pause) \in Nat
    BY CodeType, PauseType DEF TypeOK
  <2>1. now < deadline + interval + Patience
    BY <2>0 DEF Inductive, Sleeping, GivesUpInTime, Growing
  <2>2. /\ wake - interval - Begun \in Int /\ wake - interval - Begun <= code.life
        /\ Reachable(interval, Pause(code.pause), wake - interval - Begun)
    BY <2>0 DEF Growing, Begun
  <2>3. QED
    BY <2>0, <2>1, <2>2, ReachableLater
<1>2. QED
  BY <1>1, TypeCorrect, InductiveInvariant, GrowingInit, GrowingStep, PTL DEF Spec

=============================================================================
