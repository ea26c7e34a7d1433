---------------------------- MODULE LeaseProofs ----------------------------
(***************************************************************************)
(* Theorems about Lease for every set of leases, revocations and emails.   *)
(***************************************************************************)
EXTENDS Lease, TLAPS

USE LeaseAssumption, NoneAssumption

-----------------------------------------------------------------------------
\* The inductive invariant.

Shared(c) == \E d \in Leases : Shares(c, d)

\* A lease has no email before its call, and its account when the call returns.
LeaseKnown(c) ==
    /\ pc[c] = "idle" => email[c] = None
    /\ pc[c] \in {"create", "token", "reply", "stored"} => email[c] \in Emails
    /\ pc[c] \in {"token", "reply"} => email[c] \in accounts \/ Shared(c)
    /\ pc[c] # "delete"
    /\ c \in store \union ending => pc[c] = "stored"

\* Only what has expired is ever on a list to be deleted.
Expired(e) == \E d \in ending : email[d] = e

RevocationKnown(c) ==
    /\ pc[c] \notin {"create", "token", "stored"}
    /\ pc[c] = "idle" => new[c] = {}
    /\ old[c] \subseteq ending
    /\ \A e \in todo[c] : Expired(e)

RequestsKnown ==
    \A e \in Emails :
        /\ <<"delete", e>> \in wire => Expired(e)
        /\ <<"create", e>> \in wire => \E c \in Leases : email[c] = e /\ pc[c] = "failed"

\* An account has an owner that no revocation is going to strike off: whoever makes
\* an account again after its deletion was not on the list of that revocation.
Owned(e) ==
    \E c \in Leases :
        /\ email[c] = e
        /\ \/ pc[c] # "stored"
           \/ c \in waived
           \/ c \in store /\ \A r \in Revocations : e \in new[r] => c \notin old[r]

Inductive ==
    /\ \A c \in Leases : LeaseKnown(c)
    /\ \A r \in Revocations : RevocationKnown(r)
    /\ RequestsKnown
    /\ \A e \in accounts : Owned(e)
    /\ OpenWorks

-----------------------------------------------------------------------------

LEMMA Start1 == Init => TypeOK /\ Inductive
  BY DEF Init, GatewayInit, TypeOK, Inductive, LeaseKnown, RevocationKnown, RequestsKnown,
         OpenWorks, Stages, Ended, Revocations

\* What has expired stays so, and what is shared.
LEMMA Lasting ==
  ASSUME TypeOK, Inductive, ending \subseteq ending',
         \A d \in Leases : email[d] # None => email'[d] = email[d]
  PROVE  /\ \A e \in Emails : Expired(e) => Expired(e)'
         /\ \A d \in Leases : email[d] \in Emails /\ Shared(d) => Shared(d)'
<1>1. \A d \in ending : email[d] # None
  BY DEF TypeOK, Inductive, LeaseKnown
<1>2. \A e \in Emails : Expired(e) => Expired(e)'
  BY <1>1 DEF TypeOK, Expired
<1>3. \A d \in Leases : email[d] \in Emails /\ Shared(d) => Shared(d)'
  BY DEF Shared, Shares
<1> QED BY <1>2, <1>3

LEMMA AskCreateStep ==
  ASSUME TypeOK, Inductive, NEW c \in Leases, AskCreate(c)
  PROVE  TypeOK' /\ Inductive'
<1>1. PICK e \in Emails : email' = [email EXCEPT ![c] = e]
  BY DEF AskCreate
<1>2. /\ pc[c] = "idle" /\ email[c] = None
      /\ pc' = [pc EXCEPT ![c] = "create"]
      /\ UNCHANGED <<store, old, new, kind, accounts, wire, todo, answer, ending, waived>>
  BY DEF AskCreate, Post, Inductive, LeaseKnown
<1>3. TypeOK'
  BY <1>1, <1>2 DEF TypeOK, AskCreate, Post, Stages
<1>4. /\ \A f \in Emails : Expired(f) => Expired(f)'
      /\ \A d \in Leases : email[d] \in Emails /\ Shared(d) => Shared(d)'
  BY <1>1, <1>2, Lasting DEF TypeOK
<1>5. /\ pc'[c] = "create" /\ email'[c] = e
      /\ \A d \in Calls : d # c => pc'[d] = pc[d]
      /\ \A d \in Leases : d # c => email'[d] = email[d]
  BY <1>1, <1>2 DEF TypeOK
<1>6. \A d \in Leases : LeaseKnown(d)'
  <2> SUFFICES ASSUME NEW d \in Leases PROVE LeaseKnown(d)'
    OBVIOUS
  <2>1. LeaseKnown(d) /\ LeaseKnown(c)
    BY DEF Inductive
  <2>2. CASE d = c
    BY <1>2, <1>5, <2>1, <2>2 DEF LeaseKnown
  <2>3. CASE d # c
    BY <1>2, <1>4, <1>5, <2>1, <2>3 DEF LeaseKnown
  <2> QED BY <2>2, <2>3
<1>7. \A r \in Revocations : RevocationKnown(r)'
  BY <1>2, <1>4, <1>5 DEF Inductive, RevocationKnown, Revocations, TypeOK
<1>8. RequestsKnown'
  <2> SUFFICES ASSUME NEW f \in Emails, <<"create", f>> \in wire
               PROVE  \E d \in Leases : email'[d] = f /\ pc'[d] = "failed"
    BY <1>2, <1>4 DEF Inductive, RequestsKnown
  <2>1. PICK d \in Leases : email[d] = f /\ pc[d] = "failed"
    BY DEF Inductive, RequestsKnown
  <2> QED BY <1>2, <1>5, <2>1
<1>9. \A f \in accounts' : Owned(f)'
  BY <1>2, <1>5 DEF Inductive, Owned, TypeOK
<1>10. OpenWorks'
  <2> SUFFICES ASSUME NEW d \in store \ ending PROVE email'[d] \in accounts \/ Shared(d)'
    BY <1>2 DEF OpenWorks, Shared, Shares
  <2>1. d \in Leases /\ pc[d] = "stored" /\ email[d] \in Emails
    BY DEF Inductive, LeaseKnown, TypeOK
  <2>2. email[d] \in accounts \/ Shared(d)
    BY DEF Inductive, OpenWorks, Shared, Shares
  <2> QED BY <1>2, <1>4, <1>5, <2>1, <2>2
<1> QED BY <1>3, <1>6, <1>7, <1>8, <1>9, <1>10 DEF Inductive

-----------------------------------------------------------------------------
\* Steps in which no email is made up.

\* What a step of one call leaves of the other calls' facts, when the emails and
\* what is expired are kept.
LEMMA SameEmails ==
  ASSUME TypeOK, Inductive, email' = email, ending \subseteq ending'
  PROVE  /\ \A e \in Emails : Expired(e) => Expired(e)'
         /\ \A d \in Leases : Shared(d)' <=> Shared(d)
<1>1. \A e \in Emails : Expired(e) => Expired(e)'
  BY DEF Expired
<1>2. \A d \in Leases : Shared(d)' <=> Shared(d)
  BY DEF Shared, Shares
<1> QED BY <1>1, <1>2

\* An account that goes is that of a lease that has expired: the others that lose
\* it share it.
LEMMA OthersShare ==
  ASSUME TypeOK, Inductive, NEW e \in Emails, Expired(e),
         NEW d \in Leases, d \notin ending, email[d] = e
  PROVE  Shared(d)
  BY DEF Expired, Shared, Shares, TypeOK

LEMMA RequestsKept ==
  ASSUME TypeOK, Inductive, email' = email, ending \subseteq ending', wire' \subseteq wire,
         \A d \in Leases : pc[d] = "failed" => pc'[d] = "failed"
  PROVE  RequestsKnown'
<1>1. \A e \in Emails : <<"delete", e>> \in wire' => Expired(e)'
  BY SameEmails DEF Inductive, RequestsKnown
<1>2. ASSUME NEW e \in Emails, <<"create", e>> \in wire'
      PROVE  \E d \in Leases : email'[d] = e /\ pc'[d] = "failed"
  BY <1>2 DEF Inductive, RequestsKnown
<1> QED BY <1>1, <1>2 DEF RequestsKnown

LEMMA ExpireStep ==
  ASSUME TypeOK, Inductive, NEW c \in Leases, Expire(c)
  PROVE  TypeOK' /\ Inductive'
<1>1. /\ c \in store
      /\ ending' = ending \union {c}
      /\ UNCHANGED <<store, pc, old, new, kind, email, accounts, wire, todo, waived>>
  BY DEF Expire, gatewayVars
<1>2. TypeOK'
  BY <1>1 DEF TypeOK, Expire, gatewayVars
<1>3. /\ \A e \in Emails : Expired(e) => Expired(e)'
      /\ \A d \in Leases : Shared(d)' <=> Shared(d)
  BY <1>1, SameEmails
<1>4. \A d \in Leases : LeaseKnown(d)'
  BY <1>1, <1>3 DEF Inductive, LeaseKnown
<1>5. \A r \in Revocations : RevocationKnown(r)'
  BY <1>1, <1>3 DEF Inductive, RevocationKnown, TypeOK, Revocations
<1>6. RequestsKnown'
  BY <1>1, <1>3 DEF Inductive, RequestsKnown
<1>7. \A e \in accounts' : Owned(e)'
  BY <1>1 DEF Inductive, Owned
<1>8. OpenWorks'
  BY <1>1 DEF Inductive, OpenWorks, Shares
<1> QED BY <1>2, <1>4, <1>5, <1>6, <1>7, <1>8 DEF Inductive

\* A revocation is asked for: with a list to delete, or to be waved through.
LEMMA AskStep ==
  ASSUME TypeOK, Inductive, NEW c \in Revocations,
         NEW S \in SUBSET (store \intersect ending), AskRevoke(c, S) \/ AskBlankly(c, S)
  PROVE  TypeOK' /\ Inductive'
<1>1. /\ pc[c] = "idle" /\ c \in Calls /\ new[c] = {}
      /\ old' = [old EXCEPT ![c] = S]
      /\ UNCHANGED <<store, kind, email, accounts, wire, ending>>
  BY DEF AskRevoke, AskBlankly, Asks, Post, Revocations, Inductive, RevocationKnown
<1>2. Ids(S) \subseteq Emails /\ \A e \in Ids(S) : Expired(e)
  BY DEF Ids, Expired, Inductive, LeaseKnown, TypeOK
<1>3. TypeOK'
  <2>1. S \subseteq Leases /\ old' \in [Calls -> SUBSET Leases]
    BY <1>1 DEF TypeOK
  <2>2. CASE AskRevoke(c, S)
    BY <1>1, <1>2, <2>1, <2>2 DEF TypeOK, AskRevoke, Asks, Post, Stages
  <2>3. CASE AskBlankly(c, S)
    BY <1>1, <1>2, <2>1, <2>3 DEF TypeOK, AskBlankly, Asks, Post, Stages
  <2> QED BY <2>2, <2>3
<1>4. /\ \A d \in Calls : d # c => pc'[d] = pc[d] /\ old'[d] = old[d] /\ new'[d] = new[d]
                                     /\ todo'[d] = todo[d]
      /\ old'[c] = S
      /\ \/ pc'[c] = "delete" /\ new'[c] = {} /\ todo'[c] = Ids(S) /\ waived' = waived
         \/ pc'[c] = "reply" /\ todo'[c] = todo[c] /\ waived' = waived \union S
  BY <1>1 DEF AskRevoke, AskBlankly, Asks, Post, TypeOK
<1>5. /\ \A e \in Emails : Expired(e) => Expired(e)'
      /\ \A d \in Leases : Shared(d)' <=> Shared(d)
  BY <1>1, SameEmails
<1>6. \A d \in Leases : LeaseKnown(d)'
  BY <1>1, <1>4, <1>5 DEF Inductive, LeaseKnown, Revocations
<1>7. \A r \in Revocations : RevocationKnown(r)'
  <2> SUFFICES ASSUME NEW r \in Revocations PROVE RevocationKnown(r)'
    OBVIOUS
  <2>1. RevocationKnown(r) /\ r \in Calls
    BY DEF Inductive, Revocations
  <2>2. CASE r = c
    BY <1>1, <1>2, <1>4, <1>5, <2>1, <2>2 DEF RevocationKnown, TypeOK
  <2>3. CASE r # c
    BY <1>1, <1>4, <1>5, <2>1, <2>3 DEF RevocationKnown, TypeOK
  <2> QED BY <2>2, <2>3
<1>8. RequestsKnown'
  BY <1>1, <1>4, RequestsKept DEF Revocations
<1>9. ASSUME NEW e \in accounts' PROVE Owned(e)'
  <2>1. PICK w \in Leases :
          /\ email[w] = e
          /\ \/ pc[w] # "stored"
             \/ w \in waived
             \/ w \in store /\ \A r \in Revocations : e \in new[r] => w \notin old[r]
    BY <1>1, <1>9 DEF Inductive, Owned
  <2>2. w # c /\ w \in Calls /\ pc'[w] = pc[w] /\ email'[w] = e /\ waived \subseteq waived'
    BY <1>1, <1>4, <2>1 DEF Revocations
  <2>3. CASE pc[w] # "stored" \/ w \in waived
    BY <2>1, <2>2, <2>3 DEF Owned
  <2>4. CASE w \in S /\ waived' = waived \union S
    BY <2>1, <2>2, <2>4 DEF Owned
  <2>5. CASE /\ w \in store /\ \A r \in Revocations : e \in new[r] => w \notin old[r]
             /\ w \in S => waived' = waived
    <3>1. ASSUME NEW r \in Revocations, e \in new'[r], w \in old'[r] PROVE w \in waived'
      BY <1>1, <1>4, <2>5, <3>1 DEF Revocations
    <3> QED BY <1>1, <2>1, <2>2, <2>5, <3>1 DEF Owned
  <2> QED BY <1>4, <2>1, <2>3, <2>4, <2>5
<1>10. OpenWorks'
  BY <1>1 DEF Inductive, OpenWorks, Shares
<1> QED BY <1>3, <1>6, <1>7, <1>8, <1>9, <1>10 DEF Inductive

\* An account keeps its owner in a step of one call that ends with no new lease.
LEMMA OwnersKept ==
  ASSUME TypeOK, Inductive, UNCHANGED <<email, waived>>, store' = store,
         \A d \in Leases : pc'[d] = pc[d] \/ pc'[d] # "stored",
         \A r \in Revocations : old'[r] \subseteq old[r],
         NEW e \in accounts, \A r \in Revocations : e \in new'[r] => e \in new[r]
  PROVE  Owned(e)'
<1>1. PICK w \in Leases :
        /\ email[w] = e
        /\ \/ pc[w] # "stored"
           \/ w \in waived
           \/ w \in store /\ \A r \in Revocations : e \in new[r] => w \notin old[r]
  BY DEF Inductive, Owned
<1>2. pc[w] # "stored" => pc'[w] # "stored"
  OBVIOUS
<1>3. \A r \in Revocations :
        (e \in new[r] => w \notin old[r]) => (e \in new'[r] => w \notin old'[r])
  OBVIOUS
<1> QED BY <1>1, <1>2, <1>3 DEF Owned

\* A call only moves on or ends, and nothing is delivered: no fact is disturbed.
LEMMA QuietStep ==
  ASSUME TypeOK, Inductive, NEW c \in Calls,
         UNCHANGED <<store, leaseVars>>, TypeOK',
         \A r \in Calls : old'[r] = old[r] /\ new'[r] = new[r],
         \A d \in Calls : d # c => pc'[d] = pc[d],
         \/ pc'[c] = pc[c]
         \/ pc'[c] \in {"failed", "dead", "lost"} /\ pc[c] \notin Ended
         \/ pc[c] = "token" /\ pc'[c] = "reply"
  PROVE  Inductive'
<1>1. UNCHANGED <<store, kind, email, accounts, wire, todo, answer, ending, waived>>
  BY DEF leaseVars
<1>2. /\ \A e \in Emails : Expired(e) => Expired(e)'
      /\ \A d \in Leases : Shared(d)' <=> Shared(d)
  BY <1>1, SameEmails
<1>3. \A d \in Leases : LeaseKnown(d)'
  BY <1>1, <1>2 DEF Inductive, LeaseKnown, Ended
<1>4. \A r \in Revocations : RevocationKnown(r)'
  BY <1>1, <1>2 DEF Inductive, RevocationKnown, TypeOK, Revocations, Ended
<1>5. RequestsKnown'
  BY <1>1, RequestsKept DEF Ended
<1>6. ASSUME NEW e \in accounts' PROVE Owned(e)'
  BY <1>1, <1>6, OwnersKept DEF Revocations
<1>7. OpenWorks'
  BY <1>1 DEF Inductive, OpenWorks, Shares
<1> QED BY <1>3, <1>4, <1>5, <1>6, <1>7 DEF Inductive

LEMMA QuietSteps ==
  ASSUME TypeOK, Inductive, NEW c \in Calls,
         \/ TokenRead(c)
         \/ (Drop(c) \/ Refuse(c) \/ GiveUp(c) \/ NoticeLeft(c) \/ Die(c)) /\ UNCHANGED leaseVars
  PROVE  TypeOK' /\ Inductive'
<1>1. /\ UNCHANGED <<store, leaseVars>>
      /\ TypeOK'
      /\ \A d \in Calls : old'[d] = old[d] /\ new'[d] = new[d]
      /\ \A d \in Calls : d # c => pc'[d] = pc[d]
      /\ \/ pc'[c] = pc[c]
         \/ pc'[c] \in {"failed", "dead", "lost"} /\ pc[c] \notin Ended
         \/ pc[c] = "token" /\ pc'[c] = "reply"
  <2>1. CASE TokenRead(c)
    BY <2>1 DEF TokenRead, GoOn, TypeOK, leaseVars, Stages
  <2>2. CASE Drop(c) /\ UNCHANGED leaseVars
    BY <2>2 DEF Drop, End, TypeOK, leaseVars, Stages, Ended
  <2>3. CASE Refuse(c) /\ UNCHANGED leaseVars
    BY <2>3 DEF Refuse, End, TypeOK, leaseVars, Stages, Ended
  <2>4. CASE GiveUp(c) /\ UNCHANGED leaseVars
    BY <2>4 DEF GiveUp, TypeOK, leaseVars
  <2>5. CASE NoticeLeft(c) /\ UNCHANGED leaseVars
    BY <2>5 DEF NoticeLeft, TypeOK, leaseVars
  <2>6. CASE Die(c) /\ UNCHANGED leaseVars
    BY <2>6 DEF Die, Running, End, TypeOK, leaseVars, Stages, Ended
  <2> QED BY <2>1, <2>2, <2>3, <2>4, <2>5, <2>6
<1> QED BY <1>1, QuietStep

LEMMA ForgetStep ==
  ASSUME TypeOK, Inductive, NEW c \in Calls, Forget(c)
  PROVE  TypeOK' /\ Inductive'
<1>1. /\ c \in Revocations /\ pc[c] \in Ended
      /\ pc' = [pc EXCEPT ![c] = "idle"]
      /\ old' = [old EXCEPT ![c] = {}]
      /\ new' = [new EXCEPT ![c] = {}]
      /\ todo' = [todo EXCEPT ![c] = {}]
      /\ UNCHANGED <<store, kind, email, accounts, wire, ending, waived>>
  BY DEF Forget
<1>2. TypeOK'
  BY <1>1 DEF TypeOK, Forget, Stages
<1>3. /\ \A e \in Emails : Expired(e) => Expired(e)'
      /\ \A d \in Leases : Shared(d)' <=> Shared(d)
  BY <1>1, SameEmails
<1>4. \A d \in Leases : pc'[d] = pc[d]
  BY <1>1 DEF TypeOK, Revocations
<1>5. \A d \in Leases : LeaseKnown(d)'
  BY <1>1, <1>3, <1>4 DEF Inductive, LeaseKnown
<1>6. \A r \in Revocations : RevocationKnown(r)'
  <2> SUFFICES ASSUME NEW r \in Revocations PROVE RevocationKnown(r)'
    OBVIOUS
  <2>1. RevocationKnown(r) /\ r \in Calls
    BY DEF Inductive, Revocations
  <2>2. CASE r = c
    BY <1>1, <2>2 DEF RevocationKnown, TypeOK, Revocations
  <2>3. CASE r # c
    BY <1>1, <1>3, <2>1, <2>3 DEF RevocationKnown, TypeOK
  <2> QED BY <2>2, <2>3
<1>7. RequestsKnown'
  BY <1>1, <1>4, RequestsKept
<1>8. ASSUME NEW e \in accounts' PROVE Owned(e)'
  <2>1. \A r \in Revocations : old'[r] \subseteq old[r] /\ new'[r] \subseteq new[r]
    BY <1>1 DEF TypeOK, Revocations
  <2> QED BY <1>1, <1>4, <1>8, <2>1, OwnersKept
<1>9. OpenWorks'
  BY <1>1 DEF Inductive, OpenWorks, Shares
<1> QED BY <1>2, <1>5, <1>6, <1>7, <1>8, <1>9 DEF Inductive

-----------------------------------------------------------------------------
\* The accounts.

LEMMA AccountCreatedStep ==
  ASSUME TypeOK, Inductive, NEW c \in Calls, AccountCreated(c)
  PROVE  TypeOK' /\ Inductive'
<1>1. /\ pc[c] = "create" /\ c \in Leases /\ email[c] \in Emails
      /\ AfterCreate \in {"token", "reply"}
      /\ pc' = [pc EXCEPT ![c] = AfterCreate]
      /\ new' = [new EXCEPT ![c] = {email[c]}]
      /\ accounts' = accounts \union {email[c]}
      /\ UNCHANGED <<store, old, kind, email, wire, todo, answer, ending, waived>>
  BY DEF AccountCreated, GoOn, AfterCreate, Inductive, LeaseKnown, RevocationKnown, Revocations
<1>2. TypeOK'
  BY <1>1 DEF TypeOK, AccountCreated, GoOn, Stages
<1>3. /\ \A e \in Emails : Expired(e) => Expired(e)'
      /\ \A d \in Leases : Shared(d)' <=> Shared(d)
  BY <1>1, SameEmails
<1>4. /\ pc'[c] = AfterCreate
      /\ \A d \in Calls : d # c => pc'[d] = pc[d] /\ new'[d] = new[d]
  BY <1>1 DEF TypeOK
<1>5. \A d \in Leases : LeaseKnown(d)'
  <2> SUFFICES ASSUME NEW d \in Leases PROVE LeaseKnown(d)'
    OBVIOUS
  <2>1. LeaseKnown(d)
    BY DEF Inductive
  <2>2. CASE d = c
    BY <1>1, <1>4, <2>1, <2>2 DEF LeaseKnown
  <2>3. CASE d # c
    BY <1>1, <1>3, <1>4, <2>1, <2>3 DEF LeaseKnown
  <2> QED BY <2>2, <2>3
<1>6. \A r \in Revocations : RevocationKnown(r)'
  BY <1>1, <1>3, <1>4 DEF Inductive, RevocationKnown, TypeOK, Revocations
<1>7. RequestsKnown'
  BY <1>1, <1>4, RequestsKept
<1>8. ASSUME NEW e \in accounts' PROVE Owned(e)'
  <2>1. CASE e = email[c]
    BY <1>1, <1>4, <2>1 DEF Owned
  <2>2. CASE e \in accounts
    BY <1>1, <1>4, <2>2, OwnersKept DEF Revocations
  <2> QED BY <1>1, <1>8, <2>1, <2>2
<1>9. OpenWorks'
  BY <1>1 DEF Inductive, OpenWorks, Shares
<1> QED BY <1>2, <1>5, <1>6, <1>7, <1>8, <1>9 DEF Inductive

LEMMA CreateFailsStep ==
  ASSUME TypeOK, Inductive, NEW c \in Calls, CreateFails(c)
  PROVE  TypeOK' /\ Inductive'
<1>1. /\ c \in Leases /\ email[c] \in Emails /\ pc[c] \in {"create", "token"}
      /\ pc' = [pc EXCEPT ![c] = "failed"]
      /\ wire' \subseteq wire \union {<<"create", email[c]>>}
      /\ UNCHANGED <<store, old, new, kind, email, accounts, todo, answer, ending, waived>>
  BY DEF CreateFails, Fail, End, Inductive, LeaseKnown, RevocationKnown, Revocations
<1>2. TypeOK'
  BY <1>1 DEF TypeOK, CreateFails, Fail, End, Stages, Ended
<1>3. /\ \A e \in Emails : Expired(e) => Expired(e)'
      /\ \A d \in Leases : Shared(d)' <=> Shared(d)
  BY <1>1, SameEmails
<1>4. /\ pc'[c] = "failed"
      /\ \A d \in Calls : d # c => pc'[d] = pc[d]
  BY <1>1 DEF TypeOK
<1>5. \A d \in Leases : LeaseKnown(d)'
  BY <1>1, <1>3, <1>4 DEF Inductive, LeaseKnown
<1>6. \A r \in Revocations : RevocationKnown(r)'
  BY <1>1, <1>3, <1>4 DEF Inductive, RevocationKnown, TypeOK, Revocations
<1>7. RequestsKnown'
  <2>1. \A e \in Emails : <<"delete", e>> \in wire' => Expired(e)'
    BY <1>1, <1>3 DEF Inductive, RequestsKnown
  <2>2. ASSUME NEW e \in Emails, <<"create", e>> \in wire'
        PROVE  \E d \in Leases : email'[d] = e /\ pc'[d] = "failed"
    <3>1. CASE e = email[c]
      BY <1>1, <1>4, <3>1
    <3>2. CASE <<"create", e>> \in wire
      <4>1. PICK d \in Leases : email[d] = e /\ pc[d] = "failed"
        BY <3>2 DEF Inductive, RequestsKnown
      <4> QED BY <1>1, <1>4, <4>1
    <3> QED BY <1>1, <2>2, <3>1, <3>2
  <2> QED BY <2>1, <2>2 DEF RequestsKnown
<1>8. ASSUME NEW e \in accounts' PROVE Owned(e)'
  BY <1>1, <1>4, <1>8, OwnersKept
<1>9. OpenWorks'
  BY <1>1 DEF Inductive, OpenWorks, Shares
<1> QED BY <1>2, <1>5, <1>6, <1>7, <1>8, <1>9 DEF Inductive

LEMMA DeleteStep ==
  ASSUME TypeOK, Inductive, NEW c \in Calls, NEW e \in Emails,
         DeleteAnswered(c, e) \/ DeleteFails(c, e)
  PROVE  TypeOK' /\ Inductive'
<1>1. /\ c \in Revocations /\ pc[c] = "delete" /\ e \in todo[c]
      /\ pc' \in {[pc EXCEPT ![c] = "reply"], [pc EXCEPT ![c] = "delete"]}
      /\ todo' = [todo EXCEPT ![c] = @ \ {e}]
      /\ UNCHANGED <<store, old, kind, email, ending, waived>>
      /\ \/ /\ accounts' = accounts /\ new' = [new EXCEPT ![c] = new[c]]
            /\ wire' \subseteq wire \union {<<"delete", e>>}
         \/ /\ accounts' = accounts \ {e}
            /\ new' = [new EXCEPT ![c] = new[c] \union {e}]
            /\ wire' = wire
  BY DEF DeleteAnswered, DeleteFails, ToNext, GoOn, Reported, Deleted, Inductive, LeaseKnown,
         Revocations
<1>2. Expired(e)
  BY <1>1 DEF Inductive, RevocationKnown
<1>3. TypeOK'
  <2>1. answer' \in [Calls -> {0, 200, 404}]
    BY DEF DeleteAnswered, DeleteFails, ToNext, TypeOK
  <2>2. pc' \in [Calls -> Stages] /\ new' \in [Calls -> SUBSET Emails]
    BY <1>1 DEF TypeOK, Stages
  <2>3. todo' \in [Calls -> SUBSET Emails]
    BY <1>1 DEF TypeOK
  <2>4. UNCHANGED <<awaited, cancelled>>
    BY DEF DeleteAnswered, DeleteFails, ToNext, GoOn
  <2> QED BY <1>1, <2>1, <2>2, <2>3, <2>4 DEF TypeOK
<1>4. /\ \A f \in Emails : Expired(f) => Expired(f)'
      /\ \A d \in Leases : Shared(d)' <=> Shared(d)
  BY <1>1, SameEmails
<1>5. /\ pc'[c] \in {"reply", "delete"}
      /\ \A d \in Calls : d # c => pc'[d] = pc[d] /\ new'[d] = new[d] /\ todo'[d] = todo[d]
      /\ todo'[c] \subseteq todo[c]
      /\ \A d \in Leases : d # c
  BY <1>1 DEF TypeOK, Revocations
<1>6. ASSUME NEW d \in Leases PROVE LeaseKnown(d)'
  <2>1. LeaseKnown(d) /\ pc'[d] = pc[d]
    BY <1>5, LeaseAssumption DEF Inductive
  <2>2. pc[d] \in {"token", "reply"} => email[d] \in accounts' \/ Shared(d)
    <3> SUFFICES ASSUME pc[d] \in {"token", "reply"}, email[d] = e PROVE Shared(d)
      BY <1>1, <2>1 DEF LeaseKnown
    <3> QED BY <1>2, <2>1, OthersShare DEF LeaseKnown
  <2> QED BY <1>1, <1>4, <2>1, <2>2 DEF LeaseKnown
<1>7. ASSUME NEW r \in Revocations PROVE RevocationKnown(r)'
  <2>1. RevocationKnown(r) /\ r \in Calls
    BY DEF Inductive, Revocations
  <2>2. CASE r = c
    BY <1>1, <1>4, <1>5, <2>1, <2>2 DEF RevocationKnown, TypeOK
  <2>3. CASE r # c
    BY <1>1, <1>4, <1>5, <2>1, <2>3 DEF RevocationKnown, TypeOK
  <2> QED BY <2>2, <2>3
<1>8. RequestsKnown'
  <2>1. \A f \in Emails : <<"delete", f>> \in wire' => Expired(f)'
    BY <1>1, <1>2, <1>4 DEF Inductive, RequestsKnown
  <2>2. ASSUME NEW f \in Emails, <<"create", f>> \in wire'
        PROVE  \E d \in Leases : email'[d] = f /\ pc'[d] = "failed"
    <3>1. <<"create", f>> \in wire
      BY <1>1, <2>2
    <3>2. PICK d \in Leases : email[d] = f /\ pc[d] = "failed"
      BY <3>1 DEF Inductive, RequestsKnown
    <3> QED BY <1>1, <1>5, <3>2
  <2> QED BY <2>1, <2>2 DEF RequestsKnown
<1>9. ASSUME NEW f \in accounts' PROVE Owned(f)'
  <2>1. f \in accounts /\ \A r \in Revocations : f \in new'[r] => f \in new[r]
    BY <1>1, <1>5, <1>9 DEF TypeOK, Revocations
  <2>2. \A d \in Leases : pc'[d] = pc[d]
    BY <1>5
  <2> QED BY <1>1, <2>1, <2>2, OwnersKept
<1>10. OpenWorks'
  <2> SUFFICES ASSUME NEW d \in store \ ending PROVE email[d] \in accounts' \/ Shared(d)
    BY <1>1 DEF OpenWorks, Shared, Shares
  <2>1. d \in Leases /\ (email[d] \in accounts \/ Shared(d))
    BY DEF Inductive, OpenWorks, Shared, Shares, TypeOK
  <2> QED BY <1>1, <1>2, <2>1, OthersShare
<1> QED BY <1>3, <1>6, <1>7, <1>8, <1>9, <1>10 DEF Inductive

LEMMA ServeLateStep ==
  ASSUME TypeOK, Inductive, NEW e \in Emails, NEW request \in {"create", "delete"},
         ServeLate(request, e)
  PROVE  TypeOK' /\ Inductive'
<1>1. /\ <<request, e>> \in wire
      /\ wire' = wire \ {<<request, e>>}
      /\ accounts' = IF request = "create" THEN accounts \union {e} ELSE accounts \ {e}
      /\ UNCHANGED <<store, pc, old, new, kind, email, todo, ending, waived>>
  BY DEF ServeLate, gatewayVars
<1>2. TypeOK'
  BY <1>1 DEF TypeOK, ServeLate, gatewayVars
<1>3. /\ \A f \in Emails : Expired(f) => Expired(f)'
      /\ \A d \in Leases : Shared(d)' <=> Shared(d)
  BY <1>1, SameEmails
<1>4. request = "delete" => Expired(e)
  BY <1>1 DEF Inductive, RequestsKnown
<1>5. ASSUME NEW d \in Leases, d \notin ending, email[d] \in accounts \/ Shared(d)
      PROVE  email[d] \in accounts' \/ Shared(d)
  BY <1>1, <1>4, <1>5, OthersShare
<1>6. ASSUME NEW d \in Leases PROVE LeaseKnown(d)'
  <2>1. LeaseKnown(d)
    BY DEF Inductive
  <2>2. pc[d] \in {"token", "reply"} => email[d] \in accounts' \/ Shared(d)
    BY <1>5, <2>1 DEF LeaseKnown
  <2> QED BY <1>1, <1>3, <2>1, <2>2 DEF LeaseKnown
<1>7. \A r \in Revocations : RevocationKnown(r)'
  BY <1>1, <1>3 DEF Inductive, RevocationKnown, TypeOK, Revocations
<1>8. RequestsKnown'
  BY <1>1, RequestsKept
<1>9. ASSUME NEW f \in accounts' PROVE Owned(f)'
  <2>1. CASE f \in accounts
    BY <1>1, <2>1, OwnersKept
  <2>2. CASE f = e /\ request = "create"
    BY <1>1, <2>2 DEF Inductive, RequestsKnown, Owned
  <2> QED BY <1>1, <1>9, <2>1, <2>2
<1>10. OpenWorks'
  <2> SUFFICES ASSUME NEW d \in store \ ending PROVE email[d] \in accounts' \/ Shared(d)
    BY <1>1 DEF OpenWorks, Shared, Shares
  <2>1. d \in Leases /\ (email[d] \in accounts \/ Shared(d))
    BY DEF Inductive, OpenWorks, Shared, Shares, TypeOK
  <2> QED BY <1>5, <2>1
<1> QED BY <1>2, <1>6, <1>7, <1>8, <1>9, <1>10 DEF Inductive

\* The new lease is on no list: lists hold leases that were open when they were made.
LEMMA DeliverLeaseStep ==
  ASSUME TypeOK, Inductive, NEW c \in Calls, DeliverLease(c), UNCHANGED leaseVars
  PROVE  TypeOK' /\ Inductive'
<1>1. /\ c \in Leases /\ pc[c] = "reply"
      /\ pc' = [pc EXCEPT ![c] = "stored"]
      /\ store' = store \union {c}
      /\ UNCHANGED <<old, new, kind, email, accounts, wire, todo, answer, ending, waived>>
  BY DEF DeliverLease, End, leaseVars
<1>2. TypeOK'
  BY <1>1 DEF TypeOK, DeliverLease, End, Stages, Ended
<1>3. /\ \A e \in Emails : Expired(e) => Expired(e)'
      /\ \A d \in Leases : Shared(d)' <=> Shared(d)
  BY <1>1, SameEmails
<1>4. pc'[c] = "stored" /\ \A d \in Calls : d # c => pc'[d] = pc[d]
  BY <1>1 DEF TypeOK
<1>5. \A d \in Leases : LeaseKnown(d)'
  BY <1>1, <1>3, <1>4 DEF Inductive, LeaseKnown
<1>6. \A r \in Revocations : RevocationKnown(r)'
  BY <1>1, <1>3, <1>4 DEF Inductive, RevocationKnown, TypeOK, Revocations
<1>7. RequestsKnown'
  BY <1>1, <1>4, RequestsKept
<1>8. ASSUME NEW e \in accounts' PROVE Owned(e)'
  <2>1. PICK w \in Leases :
          /\ email[w] = e
          /\ \/ pc[w] # "stored"
             \/ w \in waived
             \/ w \in store /\ \A r \in Revocations : e \in new[r] => w \notin old[r]
    BY <1>1, <1>8 DEF Inductive, Owned
  <2>2. \A r \in Revocations : c \notin old[r]
    BY <1>1 DEF Inductive, RevocationKnown, LeaseKnown
  <2>3. CASE w = c
    BY <1>1, <2>1, <2>2, <2>3 DEF Owned
  <2>4. CASE w # c
    BY <1>1, <1>4, <2>1, <2>4 DEF Owned
  <2> QED BY <2>3, <2>4
<1>9. OpenWorks'
  <2> SUFFICES ASSUME NEW d \in store' \ ending PROVE email[d] \in accounts \/ Shared(d)
    BY <1>1 DEF OpenWorks, Shared, Shares
  <2>1. CASE d = c
    BY <1>1, <2>1 DEF Inductive, LeaseKnown
  <2>2. CASE d \in store
    BY <2>2 DEF Inductive, OpenWorks, Shared, Shares
  <2> QED BY <1>1, <2>1, <2>2
<1> QED BY <1>2, <1>5, <1>6, <1>7, <1>8, <1>9 DEF Inductive

LEMMA DeliverRevokedStep ==
  ASSUME TypeOK, Inductive, NEW c \in Calls, DeliverRevoked(c), UNCHANGED leaseVars
  PROVE  TypeOK' /\ Inductive'
<1>1. /\ c \in Revocations /\ pc[c] = "reply"
      /\ pc' = [pc EXCEPT ![c] = "acknowledged"]
      /\ store' = store \ {d \in old[c] : email[d] \in new[c]}
      /\ UNCHANGED <<old, new, kind, email, accounts, wire, todo, answer, ending, waived>>
  BY DEF DeliverRevoked, End, leaseVars
<1>2. TypeOK'
  BY <1>1 DEF TypeOK, DeliverRevoked, End, Stages, Ended
<1>3. /\ \A e \in Emails : Expired(e) => Expired(e)'
      /\ \A d \in Leases : Shared(d)' <=> Shared(d)
  BY <1>1, SameEmails
<1>4. /\ pc'[c] = "acknowledged"
      /\ \A d \in Calls : d # c => pc'[d] = pc[d]
      /\ \A d \in Leases : pc'[d] = pc[d]
  BY <1>1 DEF TypeOK, Revocations
<1>5. \A d \in Leases : LeaseKnown(d)'
  BY <1>1, <1>3, <1>4 DEF Inductive, LeaseKnown
<1>6. \A r \in Revocations : RevocationKnown(r)'
  BY <1>1, <1>3, <1>4 DEF Inductive, RevocationKnown, TypeOK, Revocations
<1>7. RequestsKnown'
  BY <1>1, <1>4, RequestsKept
<1>8. ASSUME NEW e \in accounts' PROVE Owned(e)'
  <2>1. PICK w \in Leases :
          /\ email[w] = e
          /\ \/ pc[w] # "stored"
             \/ w \in waived
             \/ w \in store /\ \A r \in Revocations : e \in new[r] => w \notin old[r]
    BY <1>1, <1>8 DEF Inductive, Owned
  <2>2. ASSUME w \in store, \A r \in Revocations : e \in new[r] => w \notin old[r]
        PROVE  w \in store'
    BY <1>1, <2>1, <2>2
  <2> QED BY <1>1, <1>4, <2>1, <2>2 DEF Owned
<1>9. OpenWorks'
  BY <1>1 DEF Inductive, OpenWorks, Shares
<1> QED BY <1>2, <1>5, <1>6, <1>7, <1>8, <1>9 DEF Inductive

-----------------------------------------------------------------------------

LEMMA Preserved == TypeOK /\ Inductive /\ [Next]_vars => TypeOK' /\ Inductive'
<1> SUFFICES ASSUME TypeOK, Inductive, [Next]_vars PROVE TypeOK' /\ Inductive'
  OBVIOUS
<1>1. ASSUME NEW c \in Leases, AskCreate(c) PROVE TypeOK' /\ Inductive'
  BY <1>1, AskCreateStep
<1>2. ASSUME NEW c \in Leases, Expire(c) PROVE TypeOK' /\ Inductive'
  BY <1>2, ExpireStep
<1>3. ASSUME NEW c \in Revocations, NEW S \in SUBSET (store \intersect ending),
             AskRevoke(c, S) \/ AskBlankly(c, S)
      PROVE  TypeOK' /\ Inductive'
  BY <1>3, AskStep
<1>4. ASSUME NEW e \in Emails, NEW request \in {"create", "delete"}, ServeLate(request, e)
      PROVE  TypeOK' /\ Inductive'
  BY <1>4, ServeLateStep
<1>5. ASSUME NEW c \in Calls, Forget(c) PROVE TypeOK' /\ Inductive'
  BY <1>5, ForgetStep
<1>6. ASSUME NEW c \in Calls, Progress(c) PROVE TypeOK' /\ Inductive'
  <2>1. CASE AccountCreated(c)
    BY <2>1, AccountCreatedStep
  <2>2. CASE TokenRead(c)
    BY <2>2, QuietSteps
  <2>3. CASE CreateFails(c)
    BY <2>3, CreateFailsStep
  <2>4. CASE \E e \in Emails : DeleteAnswered(c, e) \/ DeleteFails(c, e)
    BY <2>4, DeleteStep
  <2>5. CASE DeliverLease(c) /\ UNCHANGED leaseVars
    BY <2>5, DeliverLeaseStep
  <2>6. CASE DeliverRevoked(c) /\ UNCHANGED leaseVars
    BY <2>6, DeliverRevokedStep
  <2>7. CASE Drop(c) /\ UNCHANGED leaseVars
    BY <2>7, QuietSteps
  <2> QED BY <1>6, <2>1, <2>2, <2>3, <2>4, <2>5, <2>6, <2>7 DEF Progress
<1>7. ASSUME NEW c \in Calls,
             (Refuse(c) \/ GiveUp(c) \/ NoticeLeft(c) \/ Die(c)) /\ UNCHANGED leaseVars
      PROVE  TypeOK' /\ Inductive'
  BY <1>7, QuietSteps
<1>8. CASE UNCHANGED vars
  <2>1. TypeOK'
    BY <1>8 DEF vars, gatewayVars, leaseVars, TypeOK
  <2>2. (\A c \in Leases : LeaseKnown(c))' /\ (\A r \in Revocations : RevocationKnown(r))'
    BY <1>8 DEF vars, gatewayVars, leaseVars, Inductive, LeaseKnown, RevocationKnown, Shared,
                Shares, Expired
  <2>3. RequestsKnown' /\ (\A e \in accounts : Owned(e))' /\ OpenWorks'
    BY <1>8 DEF vars, gatewayVars, leaseVars, Inductive, RequestsKnown, Expired, Owned,
                OpenWorks, Shares
  <2> QED BY <2>1, <2>2, <2>3 DEF Inductive
<1> QED BY <1>1, <1>2, <1>3, <1>4, <1>5, <1>6, <1>7, <1>8 DEF Next

LEMMA Invariant == Spec => [](TypeOK /\ Inductive)
  BY Start1, Preserved, PTL DEF Spec

-----------------------------------------------------------------------------

\* Every variable keeps its type, through creates and revocations of the OpenObserve
\* targets and through requests that OpenObserve serves late.
THEOREM TypeCorrect == Spec => []TypeOK
  BY Invariant, PTL

\* An open lease that has not expired has its account, unless its email is shared
\* (Create makes the email up from the clock), whatever requests are late or lost.
THEOREM AlwaysOpenWorks == Spec => []OpenWorks
<1>1. Inductive => OpenWorks
  BY DEF Inductive
<1> QED BY <1>1, Invariant, PTL

\* An account without an open lease comes from a Create that returned an error or was
\* not heard, or from a revocation the handler acknowledged without a target.
THEOREM OrphanAlwaysHasCause == Spec => []OrphanHasCause
<1>1. Inductive => OrphanHasCause
  BY DEF Inductive, Owned, OrphanHasCause
<1> QED BY <1>1, Invariant, PTL

-----------------------------------------------------------------------------
\* LeaseBook.

Closed == {c \in Leases : pc[c] = "stored"} \ store
Held == {c \in Leases : email[c] \in accounts}

LEMMA BookStarts == Init => Book!BookInit
  BY DEF Init, GatewayInit, Book!BookInit

\* Before a regular state no revocation was waved through, and emails were distinct.
LEMMA RegularBefore ==
  ASSUME TypeOK, Inductive, [Next]_vars, Regular'
  PROVE  /\ waived = {}
         /\ \A c, d \in Leases : email[c] = email[d] /\ email[c] # None => c = d
<1>1. waived \subseteq waived' /\ \A c \in Leases : email[c] # None => email'[c] = email[c]
  <2>1. ASSUME NEW c \in Leases, AskCreate(c)
        PROVE  waived' = waived /\ \A d \in Leases : email[d] # None => email'[d] = email[d]
    BY <2>1 DEF AskCreate, Post, Inductive, LeaseKnown, TypeOK
  <2>2. CASE \E c \in Leases : Expire(c)
    BY <2>2 DEF Expire
  <2>3. ASSUME NEW c \in Revocations, NEW S, AskRevoke(c, S) \/ AskBlankly(c, S)
        PROVE  email' = email /\ waived \subseteq waived'
    BY <2>3 DEF AskRevoke, AskBlankly, Asks
  <2>4. CASE \E e \in Emails, request \in {"create", "delete"} : ServeLate(request, e)
    BY <2>4 DEF ServeLate
  <2>5. ASSUME NEW c \in Calls, Forget(c) \/ Progress(c)
        PROVE  email' = email /\ waived' = waived
    BY <2>5 DEF Forget, Progress, AccountCreated, TokenRead, CreateFails, DeleteAnswered,
                DeleteFails, ToNext, leaseVars
  <2>6. CASE UNCHANGED leaseVars
    BY <2>6 DEF leaseVars
  <2>7. CASE UNCHANGED vars
    BY <2>7 DEF vars, leaseVars
  <2> QED BY <2>1, <2>2, <2>3, <2>4, <2>5, <2>6, <2>7 DEF Next
<1>2. \A c, d \in Leases : c # d /\ email'[c] = email'[d] => email'[c] = None
  BY DEF Regular, Shares
<1> QED BY <1>1, <1>2 DEF Regular

\* A step that none of the book's variables sees.
LEMMA BookStutters ==
  ASSUME UNCHANGED <<store, ending, accounts, email>>,
         \A d \in Leases : pc'[d] # pc[d] => "stored" \notin {pc[d], pc'[d]}
  PROVE  UNCHANGED Book!bookVars
<1>1. Closed' = Closed /\ Held' = Held
  BY DEF Closed, Held
<1> QED BY <1>1 DEF Book!bookVars, Closed, Held

LEMMA AskCreateInBook ==
  ASSUME TypeOK, Inductive, NEW c \in Leases, AskCreate(c), Regular'
  PROVE  UNCHANGED Book!bookVars
<1>1. PICK e \in Emails : email' = [email EXCEPT ![c] = e]
  BY DEF AskCreate
<1>2. /\ pc[c] = "idle" /\ email[c] = None
      /\ pc' = [pc EXCEPT ![c] = "create"]
      /\ UNCHANGED <<store, accounts, ending>>
  BY DEF AskCreate, Post, Inductive, LeaseKnown
<1>3. email'[c] = e /\ \A d \in Leases : d # c => email'[d] = email[d]
  BY <1>1 DEF TypeOK
<1>4. e \notin accounts
  <2> SUFFICES ASSUME e \in accounts PROVE FALSE
    OBVIOUS
  <2>1. PICK w \in Leases : email[w] = e
    BY DEF Inductive, Owned
  <2> QED BY <1>2, <1>3, <2>1 DEF Regular, Shares
<1>5. Held' = Held
  BY <1>2, <1>3, <1>4 DEF Held, TypeOK
<1>6. Closed' = Closed
  BY <1>2 DEF Closed, TypeOK
<1> QED BY <1>2, <1>5, <1>6 DEF Book!bookVars, Closed, Held

\* An account that is made is that of a lease that has not been delivered.
LEMMA ProvideInBook ==
  ASSUME TypeOK, Inductive, NEW c \in Leases, pc[c] # "stored", email[c] \in Emails,
         \A d \in Leases : email[c] = email[d] => c = d,
         accounts' = accounts \union {email[c]}, UNCHANGED <<store, ending, email>>,
         \A d \in Leases : pc'[d] # pc[d] => "stored" \notin {pc[d], pc'[d]}
  PROVE  Book!BookNext
<1>1. Closed' = Closed /\ Held' = Held \union {c}
  BY DEF Closed, Held
<1>2. c \notin store \union Closed
  BY DEF Inductive, LeaseKnown, Closed
<1> QED BY <1>1, <1>2 DEF Book!BookNext, Book!Provide, Closed, Held

\* An account that goes is that of a lease that has expired.
LEMMA WithdrawInBook ==
  ASSUME TypeOK, Inductive, NEW e \in Emails, Expired(e),
         \A c, d \in Leases : email[c] = email[d] /\ email[c] # None => c = d,
         accounts' = accounts \ {e}, UNCHANGED <<store, ending, email>>,
         \A d \in Leases : pc'[d] = pc[d]
  PROVE  Book!BookNext
<1>1. PICK w \in ending : email[w] = e
  BY DEF Expired
<1>2. w \in Leases
  BY DEF TypeOK
<1>3. Closed' = Closed /\ Held' = Held \ {w}
  BY <1>1, <1>2 DEF Closed, Held
<1> QED BY <1>1, <1>2, <1>3 DEF Book!BookNext, Book!Withdraw, Closed, Held

LEMMA OpenInBook ==
  ASSUME TypeOK, Inductive, NEW c \in Calls, DeliverLease(c), UNCHANGED leaseVars,
         \A a, d \in Leases : email[a] = email[d] /\ email[a] # None => a = d
  PROVE  Book!BookNext
<1>1. /\ c \in Leases /\ pc[c] = "reply"
      /\ pc' = [pc EXCEPT ![c] = "stored"]
      /\ store' = store \union {c}
      /\ UNCHANGED <<email, accounts, ending>>
  BY DEF DeliverLease, End, leaseVars
<1>2. c \in Held /\ c \notin Closed
  BY <1>1 DEF Inductive, LeaseKnown, Shared, Shares, Held, Closed
<1>3. Closed' = Closed /\ Held' = Held
  BY <1>1 DEF Closed, Held, TypeOK
<1> QED BY <1>1, <1>2, <1>3 DEF Book!BookNext, Book!Open, Closed, Held

\* The leases that are struck off have expired and have no account left.
LEMMA CloseInBook ==
  ASSUME TypeOK, Inductive, NEW c \in Calls, DeliverRevoked(c), UNCHANGED leaseVars,
         waived = {}, \A a, d \in Leases : email[a] = email[d] /\ email[a] # None => a = d
  PROVE  Book!BookNext
<1> DEFINE S == store \intersect {d \in old[c] : email[d] \in new[c]}
<1>1. /\ c \in Revocations
      /\ pc' = [pc EXCEPT ![c] = "acknowledged"]
      /\ store' = store \ S
      /\ UNCHANGED <<email, accounts, ending>>
  BY DEF DeliverRevoked, End, leaseVars
<1>2. S \in SUBSET Leases /\ S \subseteq store /\ S \subseteq ending
  BY <1>1 DEF TypeOK, Inductive, RevocationKnown
<1>3. ASSUME NEW d \in S PROVE d \notin Held
  <2> SUFFICES ASSUME email[d] \in accounts PROVE FALSE
    BY DEF Held
  <2>1. d \in Leases /\ pc[d] = "stored" /\ email[d] # None
    BY <1>2 DEF Inductive, LeaseKnown, TypeOK
  <2>2. Owned(email[d])
    BY DEF Inductive
  <2>3. \A r \in Revocations : email[d] \in new[r] => d \notin old[r]
    BY <2>1, <2>2 DEF Owned
  <2> QED BY <1>1, <2>3
<1>4. \A d \in Leases : pc'[d] = pc[d] /\ (d \in store => pc[d] = "stored")
  BY <1>1 DEF TypeOK, Revocations, Inductive, LeaseKnown
<1>5. Held' = Held /\ Closed' = Closed \union S
  BY <1>1, <1>2, <1>4 DEF Closed, Held
<1>6. PICK T \in SUBSET Leases : T = S
  BY <1>2
<1> HIDE DEF S
<1>7. /\ T \subseteq (store \intersect ending) \ Held
      /\ store' = store \ T
      /\ UNCHANGED <<ending, Held>>
      /\ Closed' = Closed \union T
  BY <1>1, <1>2, <1>3, <1>5, <1>6
<1>8. Book!Close(T)
  BY <1>7 DEF Book!Close, Closed, Held
<1> QED BY <1>8 DEF Book!BookNext

LEMMA BookStep ==
  ASSUME TypeOK, Inductive, [Next]_vars, Regular'
  PROVE  [Book!BookNext]_(Book!bookVars)
<1>1. /\ waived = {}
      /\ \A a, d \in Leases : email[a] = email[d] /\ email[a] # None => a = d
  BY RegularBefore
<1>2. ASSUME NEW c \in Leases, AskCreate(c) PROVE UNCHANGED Book!bookVars
  BY <1>2, AskCreateInBook
<1>3. ASSUME NEW c \in Leases, Expire(c) PROVE Book!BookNext
  BY <1>3 DEF Expire, gatewayVars, Book!BookNext, Book!Expire
<1>4. ASSUME NEW c \in Revocations, NEW S \in (SUBSET (store \intersect ending)) \ {{}},
             AskRevoke(c, S) \/ AskBlankly(c, S)
      PROVE  UNCHANGED Book!bookVars
  <2>1. CASE AskRevoke(c, S)
    <3>1. \A d \in Leases : pc'[d] = pc[d]
      BY <2>1 DEF AskRevoke, Post, TypeOK, Revocations
    <3>2. UNCHANGED <<store, ending, accounts, email>>
      BY <2>1 DEF AskRevoke, Asks, Post
    <3> QED BY <3>1, <3>2, BookStutters
  <2>2. CASE AskBlankly(c, S)
    BY <2>2 DEF AskBlankly, Regular
  <2> QED BY <1>4, <2>1, <2>2
<1>5. ASSUME NEW e \in Emails, NEW request \in {"create", "delete"}, ServeLate(request, e)
      PROVE  Book!BookNext
  <2>1. CASE request = "create"
    <3>1. PICK w \in Leases : email[w] = e /\ pc[w] = "failed"
      BY <1>5, <2>1 DEF ServeLate, Inductive, RequestsKnown
    <3>2. \A d \in Leases : email[w] = email[d] => w = d
      BY <1>1, <3>1
    <3>3. /\ accounts' = accounts \union {email[w]}
          /\ UNCHANGED <<store, ending, email, pc>>
      BY <1>5, <2>1, <3>1 DEF ServeLate, gatewayVars
    <3> QED BY <3>1, <3>2, <3>3, ProvideInBook
  <2>2. CASE request = "delete"
    <3>1. Expired(e)
      BY <1>5, <2>2 DEF ServeLate, Inductive, RequestsKnown
    <3> QED BY <1>1, <1>5, <2>2, <3>1, WithdrawInBook DEF ServeLate, gatewayVars
  <2> QED BY <2>1, <2>2
<1>6. ASSUME NEW c \in Calls, AccountCreated(c) PROVE Book!BookNext
  <2>1. /\ c \in Leases /\ pc[c] = "create" /\ email[c] \in Emails
        /\ accounts' = accounts \union {email[c]}
        /\ UNCHANGED <<store, ending, email>>
    BY <1>6 DEF AccountCreated, GoOn, Inductive, LeaseKnown, RevocationKnown, Revocations
  <2>2. \A d \in Leases : pc'[d] # pc[d] => "stored" \notin {pc[d], pc'[d]}
    <3>1. pc' = [pc EXCEPT ![c] = AfterCreate] /\ AfterCreate # "stored"
      BY <1>6 DEF AccountCreated, GoOn, AfterCreate
    <3> QED BY <2>1, <3>1 DEF TypeOK
  <2> QED BY <1>1, <2>1, <2>2, ProvideInBook
<1>7. ASSUME NEW c \in Calls, NEW e \in Emails, DeleteAnswered(c, e) PROVE Book!BookNext
  <2>1. c \in Revocations /\ Expired(e)
    BY <1>7 DEF DeleteAnswered, Inductive, LeaseKnown, RevocationKnown, Revocations
  <2>2. \A d \in Leases : pc'[d] = pc[d]
    BY <1>7, <2>1 DEF DeleteAnswered, ToNext, GoOn, TypeOK, Revocations
  <2> QED BY <1>1, <1>7, <2>1, <2>2, WithdrawInBook DEF DeleteAnswered, ToNext, GoOn
<1>8. ASSUME NEW c \in Calls, DeliverLease(c), UNCHANGED leaseVars PROVE Book!BookNext
  BY <1>1, <1>8, OpenInBook
<1>9. ASSUME NEW c \in Calls, DeliverRevoked(c), UNCHANGED leaseVars PROVE Book!BookNext
  BY <1>1, <1>9, CloseInBook
<1>10. ASSUME NEW c \in Calls,
              \/ Forget(c) \/ TokenRead(c) \/ CreateFails(c)
              \/ \E e \in Emails : DeleteFails(c, e)
              \/ (Drop(c) \/ Refuse(c) \/ GiveUp(c) \/ NoticeLeft(c) \/ Die(c)) /\ UNCHANGED leaseVars
       PROVE  UNCHANGED Book!bookVars
  <2>1. UNCHANGED <<store, ending, accounts, email>>
    BY <1>10 DEF Forget, TokenRead, GoOn, CreateFails, Fail, DeleteFails, ToNext, Drop, Refuse,
                 GiveUp, NoticeLeft, Die, leaseVars
  <2>2. /\ \A d \in Calls : d # c => pc'[d] = pc[d]
        /\ c \in Leases /\ pc'[c] # pc[c] => "stored" \notin {pc[c], pc'[c]}
    BY <1>10 DEF Forget, Revocations, TokenRead, GoOn, CreateFails, Fail, End, DeleteFails, ToNext,
                 Drop, Refuse, GiveUp, NoticeLeft, Die, Running, Ended, TypeOK
  <2> QED BY <2>1, <2>2, BookStutters
<1>11. CASE UNCHANGED vars
  <2>1. UNCHANGED <<store, ending, accounts, email, pc>>
    BY <1>11 DEF vars, gatewayVars, leaseVars
  <2> QED BY <2>1, BookStutters
<1> QED
  BY <1>2, <1>3, <1>4, <1>5, <1>6, <1>7, <1>8, <1>9, <1>10, <1>11 DEF Next, Progress

\* With an email for every lease and no revocation waved through, every step is one of
\* LeaseBook: an account from the delivery of a lease to its end, and a lease closed
\* only when its account is gone - with 404 taken for deleted, and failed ids left out.
THEOREM AlwaysKeepsBook == Spec => KeepsBook
<1>1. TypeOK /\ Inductive /\ [Next]_vars => (Regular' => [Book!BookNext]_(Book!bookVars))
  BY BookStep
<1>2. Spec => [][Regular' => [Book!BookNext]_(Book!bookVars)]_vars
  BY <1>1, Invariant, PTL DEF Spec
<1> QED BY <1>2, BookStarts DEF Spec, KeepsBook

-----------------------------------------------------------------------------
\* What a revocation leaves out of its answer.

\* A revocation returns when its list is empty.
Worked(c) == pc[c] \in {"idle", "reply"} => todo[c] = {}

LEMMA WorkedStep ==
  ASSUME TypeOK, Inductive, \A r \in Revocations : Worked(r), [Next]_vars
  PROVE  \A r \in Revocations : Worked(r)'
<1>1. ASSUME NEW c \in Leases, AskCreate(c) \/ Expire(c)
      PROVE  \A r \in Revocations : Worked(r)'
  BY <1>1 DEF AskCreate, Post, Expire, gatewayVars, Revocations, Worked, TypeOK
<1>2. ASSUME NEW c \in Revocations, NEW S \in (SUBSET (store \intersect ending)) \ {{}},
             AskRevoke(c, S) \/ AskBlankly(c, S)
      PROVE  \A r \in Revocations : Worked(r)'
  BY <1>2 DEF AskRevoke, AskBlankly, Post, Revocations, Worked, TypeOK
<1>3. ASSUME NEW c \in Calls, Forget(c) PROVE \A r \in Revocations : Worked(r)'
  BY <1>3 DEF Forget, Revocations, Worked, TypeOK
<1>4. ASSUME NEW c \in Calls, NEW e \in Emails, DeleteAnswered(c, e) \/ DeleteFails(c, e)
      PROVE  \A r \in Revocations : Worked(r)'
  BY <1>4 DEF DeleteAnswered, DeleteFails, ToNext, GoOn, Revocations, Worked, TypeOK
<1>5. ASSUME NEW c \in Calls, AccountCreated(c) \/ TokenRead(c)
      PROVE  \A r \in Revocations : Worked(r)'
  <2>1. c \in Leases
    BY <1>5 DEF AccountCreated, TokenRead, Inductive, RevocationKnown, Revocations
  <2>2. /\ todo' = todo
        /\ \A r \in Revocations : pc'[r] = pc[r]
    BY <1>5, <2>1 DEF AccountCreated, TokenRead, GoOn, leaseVars, Revocations, TypeOK
  <2> QED BY <2>2 DEF Worked
<1>6. ASSUME NEW c \in Calls,
             \/ CreateFails(c)
             \/ /\ \/ DeliverLease(c) \/ DeliverRevoked(c) \/ Drop(c)
                   \/ Refuse(c) \/ GiveUp(c) \/ NoticeLeft(c) \/ Die(c)
                /\ UNCHANGED leaseVars
      PROVE  \A r \in Revocations : Worked(r)'
  <2>1. todo' = todo
    BY <1>6 DEF CreateFails, leaseVars
  <2>2. \A r \in Revocations : pc'[r] = pc[r] \/ pc'[r] \in Ended
    BY <1>6 DEF CreateFails, Fail, DeliverLease, DeliverRevoked, Drop, Refuse, GiveUp, NoticeLeft,
                Die, End, Ended, Revocations, TypeOK
  <2> QED BY <2>1, <2>2 DEF Worked, Ended
<1>7. ASSUME UNCHANGED <<pc, todo>> PROVE \A r \in Revocations : Worked(r)'
  BY <1>7 DEF Worked
<1>8. ASSUME NEW e \in Emails, NEW request \in {"create", "delete"}, ServeLate(request, e)
      PROVE  UNCHANGED <<pc, todo>>
  BY <1>8 DEF ServeLate, gatewayVars
<1> QED
  BY <1>1, <1>2, <1>3, <1>4, <1>5, <1>6, <1>7, <1>8 DEF Next, Progress, vars, gatewayVars, leaseVars

\* A lease that was asked to be revoked has its email, and keeps it.
LEMMA IdsKept ==
  ASSUME TypeOK, Inductive, [Next]_vars, NEW c \in Revocations
  PROVE  \A d \in old[c] : email'[d] = email[d]
<1>1. \A d \in old[c] : d \in Leases /\ pc[d] = "stored"
  BY DEF Inductive, LeaseKnown, RevocationKnown, TypeOK
<1>2. \/ email' = email
      \/ \E d \in Leases, e \in Emails :
             pc[d] = "idle" /\ email' = [email EXCEPT ![d] = e]
  BY DEF Next, Progress, AskCreate, Post, Expire, AskRevoke, AskBlankly, Asks, Forget,
     AccountCreated, TokenRead, CreateFails, DeleteAnswered, DeleteFails, ToNext, ServeLate,
     vars, leaseVars
<1> QED BY <1>1, <1>2 DEF TypeOK

\* A call leaves the others' lists and answers alone.
LEMMA OthersCover ==
  ASSUME TypeOK, Inductive, [Next]_vars, NEW c \in Revocations, Covers(c),
         UNCHANGED <<old[c], todo[c], new[c]>>
  PROVE  Covers(c)'
BY IdsKept DEF Covers, Ids

LEMMA CoversStep ==
  ASSUME TypeOK, Inductive, [Next]_vars, NEW c \in Revocations, Covers(c),
         ~(\E e \in Emails : DeleteFails(c, e))
  PROVE  Covers(c)'
<1>0. /\ pc \in [Calls -> Stages] /\ todo \in [Calls -> SUBSET Emails]
      /\ old \in [Calls -> SUBSET Leases] /\ new \in [Calls -> SUBSET Emails]
      /\ c \in Calls /\ c \notin Leases
  BY DEF TypeOK, Revocations
<1>1. ASSUME NEW S \in (SUBSET (store \intersect ending)) \ {{}},
             AskRevoke(c, S) \/ AskBlankly(c, S)
      PROVE  Covers(c)'
  <2>1. /\ old'[c] = S /\ email' = email
        /\ todo'[c] = Ids(S) \/ new'[c] = Ids(S)
    BY <1>0, <1>1 DEF AskRevoke, AskBlankly, Asks
  <2> QED BY <2>1 DEF Covers, Ids
<1>2. ASSUME Forget(c) PROVE Covers(c)'
  BY <1>0, <1>2 DEF Forget, Covers, Ids
<1>3. ASSUME NEW e \in Emails, DeleteAnswered(c, e) PROVE Covers(c)'
  <2>1. /\ UNCHANGED <<old, email>>
        /\ todo'[c] = todo[c] \ {e} /\ new'[c] = new[c] \union {e}
    BY <1>0, <1>3 DEF DeleteAnswered, ToNext, GoOn, Deleted
  <2> QED BY <2>1 DEF Covers, Ids
<1>4. ASSUME NEW d \in Calls \ {c},
             \/ \E S \in (SUBSET (store \intersect ending)) \ {{}} :
                    AskRevoke(d, S) \/ AskBlankly(d, S)
             \/ Forget(d)
             \/ \E e \in Emails : DeleteAnswered(d, e) \/ DeleteFails(d, e)
      PROVE  UNCHANGED <<old[c], todo[c], new[c]>>
  BY <1>0, <1>4 DEF AskRevoke, AskBlankly, Asks, Post, Forget, DeleteAnswered, DeleteFails, ToNext,
     GoOn
<1>5. ASSUME NEW d \in Calls, AccountCreated(d) \/ TokenRead(d)
      PROVE  UNCHANGED <<old[c], todo[c], new[c]>>
  <2>1. d # c
    BY <1>5 DEF AccountCreated, TokenRead, Inductive, RevocationKnown
  <2> QED BY <1>0, <1>5, <2>1 DEF AccountCreated, TokenRead, GoOn, leaseVars
<1>6. ASSUME NEW d \in Calls,
             \/ CreateFails(d) \/ (d \in Leases /\ (AskCreate(d) \/ Expire(d)))
             \/ \E e \in Emails, request \in {"create", "delete"} : ServeLate(request, e)
             \/ /\ \/ DeliverLease(d) \/ DeliverRevoked(d) \/ Drop(d)
                   \/ Refuse(d) \/ GiveUp(d) \/ NoticeLeft(d) \/ Die(d)
                /\ UNCHANGED leaseVars
      PROVE  UNCHANGED <<old[c], todo[c], new[c]>>
  BY <1>6 DEF CreateFails, Fail, AskCreate, Expire, ServeLate, DeliverLease, DeliverRevoked, Drop,
     Refuse, GiveUp, NoticeLeft, Die, gatewayVars, leaseVars
<1>7. CASE UNCHANGED vars
  BY <1>7, OthersCover DEF vars, gatewayVars, leaseVars
<1>8. CASE Next
  <2>1. Leases \subseteq Calls /\ Revocations \subseteq Calls
    BY DEF Revocations
  <2> QED
    BY <1>1, <1>2, <1>3, <1>4, <1>5, <1>6, <1>8, <2>1, OthersCover DEF Next, Progress
<1> QED BY <1>7, <1>8

\* The answer of a revocation that covers its leases closes all of them.
LEMMA CoveredAreClosed ==
  ASSUME TypeOK, Inductive, [Next]_vars, NEW c \in Revocations, Covers(c), Worked(c),
         pc[c] = "reply", pc'[c] = "acknowledged"
  PROVE  store' \intersect old[c] = {}
<1>0. pc \in [Calls -> Stages] /\ c \in Calls /\ c \notin Leases
  BY DEF TypeOK, Revocations
<1>1. DeliverRevoked(c)
  <2> SUFFICES ASSUME ~DeliverRevoked(c) PROVE pc'[c] # "acknowledged"
    OBVIOUS
  <2>1. ASSUME NEW d \in Calls,
               \/ d \in Leases /\ (AskCreate(d) \/ Expire(d))
               \/ \E S \in (SUBSET (store \intersect ending)) \ {{}} :
                      AskRevoke(d, S) \/ AskBlankly(d, S)
               \/ Forget(d) \/ AccountCreated(d) \/ TokenRead(d)
               \/ \E e \in Emails : DeleteAnswered(d, e) \/ DeleteFails(d, e)
        PROVE  pc'[c] # "acknowledged"
    BY <1>0, <2>1 DEF AskCreate, Expire, AskRevoke, AskBlankly, Post, Forget, AccountCreated,
       AfterCreate, TokenRead, DeleteAnswered, DeleteFails, ToNext, GoOn, gatewayVars
  <2>2. ASSUME NEW d \in Calls,
               \/ CreateFails(d)
               \/ (DeliverLease(d) \/ DeliverRevoked(d) \/ Drop(d)) /\ UNCHANGED leaseVars
        PROVE  pc'[c] # "acknowledged"
    BY <1>0, <2>2 DEF CreateFails, Fail, DeliverLease, DeliverRevoked, Drop, End
  <2>3. ASSUME NEW d \in Calls,
               (Refuse(d) \/ GiveUp(d) \/ NoticeLeft(d) \/ Die(d)) /\ UNCHANGED leaseVars
        PROVE  pc'[c] # "acknowledged"
    BY <1>0, <2>3 DEF Refuse, GiveUp, NoticeLeft, Die, End
  <2>4. CASE UNCHANGED pc
    BY <2>4
  <2>5. ASSUME NEW e \in Emails, NEW request \in {"create", "delete"}, ServeLate(request, e)
        PROVE  UNCHANGED pc
    BY <2>5 DEF ServeLate, gatewayVars
  <2>6. Leases \subseteq Calls /\ Revocations \subseteq Calls
    BY DEF Revocations
  <2> QED
    BY <2>1, <2>2, <2>3, <2>4, <2>5, <2>6 DEF Next, Progress, vars, gatewayVars
<1>2. old[c] \subseteq Leases /\ todo[c] = {} /\ Ids(old[c]) \subseteq new[c]
  BY DEF Worked, Covers, TypeOK, Revocations
<1> QED BY <1>1, <1>2 DEF DeliverRevoked, Ids

\* A failed deletion is the only way for a lease to be left out of what a revocation
\* answers, and what is not left out is closed when the answer gets through.
THEOREM AlwaysOnlyFailedIsLeftOut == Spec => OnlyFailedIsLeftOut
<1>1. Init => \A r \in Revocations : Worked(r)
  BY DEF Init, Worked, Revocations
<1>2. TypeOK /\ Inductive /\ (\A r \in Revocations : Worked(r)) /\ [Next]_vars
        => (\A r \in Revocations : Worked(r))'
  BY WorkedStep
<1>3. TypeOK /\ Inductive /\ (\A r \in Revocations : Worked(r)) /\ [Next]_vars
        => [\A c \in Revocations :
              Covers(c) /\ ~(\E e \in Emails : DeleteFails(c, e)) =>
                  /\ Covers(c)'
                  /\ pc[c] = "reply" /\ pc'[c] = "acknowledged" => store' \intersect old[c] = {}]_vars
  BY CoversStep, CoveredAreClosed
<1> QED BY <1>1, <1>2, <1>3, Invariant, PTL DEF Spec, OnlyFailedIsLeftOut

=============================================================================
