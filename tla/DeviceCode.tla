----------------------------- MODULE DeviceCode -----------------------------
(***************************************************************************)
(* get-refresh-token, the tool that fetches the first refresh token of a   *)
(* secret.  It asks the identity provider for a device code, shows it to a *)
(* user, and polls until the user has signed in with it or the code has    *)
(* expired.  The provider redeems a code once.                             *)
(*                                                                         *)
(* Time passes in requests and in sleeps, nowhere else.  The provider      *)
(* counts the life of the code from the moment it made it, the tool from   *)
(* the moment it read the answer.                                          *)
(***************************************************************************)
EXTENDS Integers

CONSTANTS
    DefaultInterval,    \* the pause when the provider names none, 5 s in the code
    SlowDown,           \* what a slow_down adds to the pause, 5 s in the code
    Intervals,          \* pauses the provider may name
    Lifetimes,          \* how long a code may last
    Patience,           \* bound: no request takes longer than this
    MaxTime             \* bound: the clock stops here, after the tool has ended

ASSUME DeviceCodeAssumption ==
    /\ DefaultInterval \in Nat \ {0}
    /\ SlowDown \in Nat \ {0}
    /\ Intervals \subseteq Int
    /\ Lifetimes \subseteq Nat
    /\ Patience \in Nat
    /\ MaxTime \in Nat

VARIABLES
    now,        \* the time
    phase,      \* "asking" for the code, "sleeping", "polling" or "ended"
    mail,       \* the request under way or its answer
    user,       \* TRUE: the user has signed in
    code,       \* the pause and the lifetime that came with the code
    codeEnd,    \* when the provider ends the life of the code
    redeemed,   \* TRUE: the provider has issued a token for the code
    demand,     \* history: the pause that the provider has asked for so far
    interval,   \* the pause the tool makes
    deadline,   \* when the tool gives up
    wake,       \* when the sleep ends
    sentAt,     \* when the latest request was sent
    answeredAt, \* history: when the provider answered it
    outcome     \* how the tool ended

providerVars == <<user, code, codeEnd, redeemed, demand, answeredAt>>
toolVars == <<phase, interval, deadline, wake, sentAt, outcome>>
vars == <<now, mail, providerVars, toolVars>>

-----------------------------------------------------------------------------

Answers == {"pending", "slow_down", "token", "bare_token", "error"}

Outcomes == {"none", "printed", "no_refresh_token", "refused", "unreachable", "expired"}

\* Mutant: a pause of zero is taken as it is.
AsNamed(i) == i

Pause(i) == IF i <= 0 THEN DefaultInterval ELSE i

Init ==
    /\ now = 0
    /\ phase = "asking"
    /\ mail = "sent"
    /\ user = FALSE
    /\ code = [pause |-> 0, life |-> 0]
    /\ codeEnd = 0
    /\ redeemed = FALSE
    /\ demand = 0
    /\ interval = 0
    /\ deadline = 0
    /\ wake = 0
    /\ sentAt = 0
    /\ answeredAt = 0
    /\ outcome = "none"

-----------------------------------------------------------------------------

\* A sleep that is over ends at once.
Tick ==
    /\ now < MaxTime
    /\ \/ phase = "sleeping" /\ now < wake
       \/ phase \in {"asking", "polling"} /\ now < sentAt + Patience
    /\ now' = now + 1
    /\ UNCHANGED <<mail, providerVars, toolVars>>

SignIn ==
    /\ phase \in {"sleeping", "polling"}
    /\ ~user
    /\ user' = TRUE
    /\ UNCHANGED <<now, mail, code, codeEnd, redeemed, demand, answeredAt, toolVars>>

-----------------------------------------------------------------------------
\* The identity provider.

\* A code, with the pause to make and the time it is good for.
MakeCode ==
    /\ phase = "asking"
    /\ mail = "sent"
    /\ mail' = "code"
    /\ code' \in [pause : Intervals, life : Lifetimes]
    /\ demand' = IF code'.pause <= 0 THEN DefaultInterval ELSE code'.pause
    /\ codeEnd' = now + code'.life
    /\ answeredAt' = now
    /\ UNCHANGED <<now, user, redeemed, toolVars>>

Pending ==
    /\ ~user /\ now < codeEnd
    /\ mail' = "pending"
    /\ UNCHANGED <<redeemed, demand>>

\* The provider may complain whatever has become of the code.
Complain ==
    /\ mail' = "slow_down"
    /\ demand' = demand + SlowDown
    /\ UNCHANGED redeemed

\* Without offline_access in the scope there is no refresh token.
Issue ==
    /\ user /\ ~redeemed /\ now < codeEnd
    /\ mail' \in {"token", "bare_token"}
    /\ redeemed' = TRUE
    /\ UNCHANGED demand

\* Declined, expired, redeemed, or a failure of its own.
Decline ==
    /\ mail' = "error"
    /\ UNCHANGED <<redeemed, demand>>

AnswerPoll ==
    /\ phase = "polling"
    /\ mail = "sent"
    /\ Pending \/ Complain \/ Issue \/ Decline
    /\ answeredAt' = now
    /\ UNCHANGED <<now, user, code, codeEnd, toolVars>>

-----------------------------------------------------------------------------
\* The tool.

Finish(how) ==
    /\ phase' = "ended"
    /\ outcome' = how
    /\ UNCHANGED <<wake, sentAt>>

\* Mutant: the loop has no deadline.
LoopForEver(pause, end) ==
    /\ phase' = "sleeping"
    /\ wake' = now + pause
    /\ UNCHANGED <<sentAt, outcome>>

\* Mutant: no sleep is begun that would outlast the deadline.
LooksAhead(pause, end) ==
    \/ /\ now + pause < end
       /\ phase' = "sleeping"
       /\ wake' = now + pause
       /\ UNCHANGED <<sentAt, outcome>>
    \/ now + pause >= end /\ Finish("expired")

\* The top of the loop: on to the next sleep, unless the deadline is over.
Loop(pause, end) ==
    \/ /\ now < end
       /\ phase' = "sleeping"
       /\ wake' = now + pause
       /\ UNCHANGED <<sentAt, outcome>>
    \/ now >= end /\ Finish("expired")

ReadCode ==
    /\ phase = "asking"
    /\ mail = "code"
    /\ interval' = Pause(code.pause)
    /\ deadline' = now + code.life
    /\ Loop(interval', deadline')
    /\ UNCHANGED <<now, mail, providerVars>>

Poll ==
    /\ phase = "sleeping"
    /\ now >= wake
    /\ phase' = "polling"
    /\ mail' = "sent"
    /\ sentAt' = now
    /\ UNCHANGED <<now, providerVars, interval, deadline, wake, outcome>>

\* No answer, of whatever kind: there is no second try.
Unanswered ==
    /\ phase \in {"asking", "polling"}
    /\ Finish("unreachable")
    /\ UNCHANGED <<now, mail, providerVars, interval, deadline>>

\* Mutant: a slow_down is waited out like a pending answer.
SamePause == interval

\* Mutant: a slow_down doubles the pause.
DoublePause == IF mail = "slow_down" THEN 2 * interval ELSE interval

\* The pause from the answer on.
NextPause == IF mail = "slow_down" THEN interval + SlowDown ELSE interval

\* Mutant: an answer that comes after the deadline is not looked at.
LooksAtClockFirst ==
    /\ phase = "polling"
    /\ mail \in Answers
    /\ interval' = NextPause
    /\ Loop(interval', deadline)
    /\ UNCHANGED <<now, mail, providerVars, deadline>>

ReadAnswer ==
    /\ phase = "polling"
    /\ mail \in Answers
    /\ \/ /\ mail \in {"pending", "slow_down"}
          /\ interval' = NextPause
          /\ Loop(interval', deadline)
       \/ /\ UNCHANGED interval
          /\ \/ mail = "token" /\ Finish("printed")
             \/ mail = "bare_token" /\ Finish("no_refresh_token")
             \/ mail = "error" /\ Finish("refused")
    /\ UNCHANGED <<now, mail, providerVars, deadline>>

Tool == ReadCode \/ Poll \/ ReadAnswer \/ Unanswered

Next == Tick \/ SignIn \/ MakeCode \/ AnswerPoll \/ Tool

Spec == Init /\ [][Next]_vars

\* Sleeps end and requests are answered or break.  The tool sets no timeout for
\* its requests: that they end is an assumption.
FairSpec == Spec /\ WF_vars(Tick) /\ WF_vars(AnswerPoll) /\ WF_vars(Tool)

-----------------------------------------------------------------------------

TypeOK ==
    /\ now \in Nat
    /\ phase \in {"asking", "sleeping", "polling", "ended"}
    /\ mail \in {"sent", "code"} \union Answers
    /\ user \in BOOLEAN
    /\ code \in [pause : Intervals \union {0}, life : Lifetimes \union {0}]
    /\ codeEnd \in Nat
    /\ redeemed \in BOOLEAN
    /\ demand \in Nat
    /\ interval \in Nat
    /\ deadline \in Nat
    /\ wake \in Nat
    /\ sentAt \in 0..now
    /\ answeredAt \in 0..now
    /\ outcome \in Outcomes

\* Between two requests the tool leaves the time that the provider has asked for,
\* with all the complaints so far.
PollsAreSpaced == [][sentAt' # sentAt => sentAt' >= sentAt + demand]_vars

\* However often the pause grew, the last poll comes less than one pause after the
\* deadline.
GivesUpInTime == phase = "polling" => sentAt < deadline + interval

\* With a pause that grows, less than one pause after the deadline can be long: each
\* complaint adds to the pause, but it takes a pause to get the next one.  So the pause
\* grows with the square root of the lifetime, and the tool ends within such a pause, and
\* a request, of the deadline.  With 5 seconds each and a code that lasts 15 minutes no
\* pause is longer than 95 seconds.
EndsInTime ==
    /\ GivesUpInTime
    /\ phase \in {"sleeping", "polling"} =>
        /\ now < deadline + interval + Patience
        /\ (interval - Pause(code.pause)) * (interval + Pause(code.pause) - SlowDown)
              <= 2 * SlowDown * code.life

\* The provider's end of the code comes first: the tool says that the code expired
\* only when the last answer was made before that end and read after it, or was a
\* complaint.  In all other cases it is the provider that says so.
ExpiredOnTheWay ==
    outcome = "expired" =>
        \/ code.life = 0
        \/ mail = "slow_down"
        \/ answeredAt < codeEnd /\ codeEnd <= now

\* A refresh token that was issued gets printed, or the tool reports the reason: the
\* answer broke off, or it was a token of the wrong kind.  The deadline is none.
IssuedIsPrinted ==
    redeemed /\ phase = "ended" =>
        outcome \in {"printed", "no_refresh_token", "unreachable"}

\* The tool comes to an end, whether the user signs in or not.
Ends == <>(phase = "ended")

=============================================================================
