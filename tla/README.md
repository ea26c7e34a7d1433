# A verification of the credential rotator

This directory holds TLA+ models of the Go *rotator* (`src/go/rotator`): the
webhook behind which an Akeyless Gateway rotates credentials in some two dozen
services. TLC checks the models on small instances, and TLAPS checks proofs of
theorems about them that hold for every value of the constants.

## 1. The system

### How it works

The gateway stores each *rotated secret* as a JSON payload that only the
matching target understands: how to reach the service, admin credentials, and
the credential that is being rotated with the handle to delete it by. To rotate,
the gateway posts the payload to `/sync/rotate`. The handler authenticates the
call (`handler.go:55-80`, `auth.go:26-73`), reads the payload's `type`, finds
the target in the registry and runs `Rotate(r.Context(), req)`
(`handler.go:153-179`). `Rotate` calls the service, usually twice, and returns
an updated payload, which the gateway stores. Whatever happens, **the rotator
keeps nothing between calls**. All that connects one rotation to the next is
the payload that made it back to the gateway.

There is no retry (one target excepted), no lock, no log of intents. Each
outbound call has a client with a timeout of 30 seconds (10 for the
authentication) and, with one exception, carries the request's context, which
net/http cancels after the gateway has hung up. The gateway hangs up after its own
timeout, which the runbooks put at 20 to 40 seconds (`azuredevops-pat.md:651`,
`:867`): shorter than two outbound calls may take. It may then call again while
the first call still runs.

### Components

| Component | State | Operations | Interacts with | What is hard |
|---|---|---|---|---|
| Handler and registry (`internal/handler`, `internal/registry`) | none | `/sync/create`, `/revoke`, `/rotate`, `/webhook/rotation-event` | gateway, auth service, targets | cancelled calls that run on, replies that nobody takes |
| Token-issuing targets (13: ansible `api_key`, argocd, cloudflare, confluent, datadog, github, gitlab, grafana, jfrog, newrelic, okta, pagerduty, sendgrid) | none; the payload holds `id` and `key` | `Rotate`: create, then delete the old one (Grafana: delete, then create); `Revoke` of github: delete the stored one | one service each | lost answers, overlaps, a delete that fails, an answer without a credential, revoke against rotate |
| Mint-only targets (apigee, `azuredevops_sp_token`) | none | `Rotate`: mint a token that expires by itself | identity provider | - |
| In-place targets (ansible `password`, aerospike, servicenow, slack, terraform, openobserve) | none; the payload holds `key` and perhaps `id` | `Rotate`: replace (terraform: then delete by the old id) | one service each | order of effect against order of delivery, late effects, slack's and terraform's answers without a credential |
| Azure DevOps PAT | the client of a call holds the refresh token and a cached access token | `Rotate`: log in, create, perhaps log in again, revoke | Microsoft Entra, Azure DevOps | a refresh token that is used up before its successor is safe |
| Microsoft Graph secret | cached access token | `Rotate`: add, then remove with up to four attempts; `Revoke`: remove the current key | Entra, Graph | back-off against timeout, a revoke that is tried again, revoke against rotate |
| OpenObserve leases | none | `Create`: make an account (and read its token); `Revoke`: delete the accounts of the ids | OpenObserve | accounts without a lease, partial revocation |
| Authentication (`go/pkg/auth`) | none | `Authenticate` | Akeyless' validation service | - |
| Device code tool (`bin/get-refresh-token`) | polling interval, deadline | `requestDeviceCode`, `pollForToken` | Entra | deadline, `slow_down` |
| Let's Encrypt producer, echo server, echo target, custom server scripts | none | `create`, `revoke`, `rotate` | lego/Route53, APIs | scripts that ignore the errors of the change they make |

What makes each correct:

* **token-issuing targets**: the service always accepts some credential that a
  rotation can return, unless it was told to revoke it; a stored credential is dead only for a known reason; what
  is delivered works; what is left behind is accounted for; the store does not go
  back; a call ends.
* **in-place targets**: the stored credential is the one in force, or one call in
  particular is the reason; deleting what was replaced never hits what replaced it.
* **Azure DevOps PAT**: all of the first list, and the stored refresh token is
  usable or one call in particular is the reason; a refresh token buys one token.
* **Graph**: the same, with the removal retried; a secret whose revocation was
  acknowledged is gone, if the revocation could name it.
* **leases**: an open lease has its account, an id that was reported as revoked is
  gone, an account has a lease, and what has expired gets closed.
* **device code**: the polling keeps the pauses it is asked to keep, ends by the
  deadline, and drops no token that was issued.

`PROJECT.json` lists the hazards with their lines, and which property covers which.

## 2. The modules

```
CredentialPool <=== RevocablePool      LeaseBook   CredentialSlot    what is promised
                      ^       ^            ^             ^
          RefinesPool |       | RefinesPool| KeepsBook   | RefinesSlot  ^ is: implemented by
                      |       |            |             |
PatRotation ---> Rotation <-- GraphSecret  Lease       InPlace       one component each
      |             |         |            |             |           ---> is: implements
      +-- Targets --+---------+            |             |           (ImplementsRotation,
      |             |         |            |             |           in both cases)
      +-------------+---------+- Gateway --+-------------+           the calls, for all of them

DeviceCode                                                           stands alone
```

`Rotation`, `PatRotation`, `GraphSecret`, `InPlace` and `Lease` extend `Gateway`;
`MCRotation`, `MCPatRotation`, `MCGraphSecret`, `MCInPlace`, `MCLease` and `MCDeviceCode`
give the constants values for TLC; `RotationProofs`, `PatProofs`, `GraphProofs`,
`InPlaceProofs`, `LeaseProofs` and `DeviceCodeProofs` hold the theorems.

**`Gateway`** is the part that all targets share: the calls, from the moment
the gateway posts the payload to the moment it stores the answer or does not.
`store` is the gateway's payload; `old[c]` is the payload that call `c` was
sent, `new[c]` the one it is about to return, `pc[c]` the point it is at in
`handleRotate` and `Rotate`, `awaited[c]` whether the gateway still listens,
`cancelled[c]` whether `r.Context()` is done. `Start`, `Refuse`, `Fail`, `Deliver`
and, for a revocation, `Acknowledge` are the handler; `GiveUp`, `NoticeLeft`, `Drop`, `Die` are the gateway's timeout,
net/http, a reply into the void, and the end of the process. `Die` ends one call;
a crash of the process is `Die` of every running call, one after another. With
`Serial = TRUE` the gateway does not call while it awaits an answer, which does
*not* mean that calls never overlap: an abandoned one runs on.

**`Targets`** has one profile per token-issuing target: the order of its two
calls, the statuses its client takes for success, whether it looks for a
credential in the answer, whether an answer has a handle for the next deletion, and
what `Revoke` does: an acknowledgement and nothing else, but for GitHub, which deletes the
stored token and acknowledges whatever comes of it, and Graph, which reports a failure.
Each profile is mapped to the target's `Rotate`, each status set to its client's
create call.

**`Rotation`** composes the two with a service that issues credentials, numbered
1, 2, 3... `wire` holds the requests that may still take effect: a request stays
there as long as it likes, so effects come late, in any order or never, while the
caller's wait may end at any time (`CreateFails`, `DeleteReturns`: another status,
the client's timeout, a cancelled context). A client whose context is
cancelled sends nothing (`Send`). `made[c]` and `answer[c]` are the credential
issued to a call and the status of the answer. A call is a rotation or a revocation
(`revoking`); every target may be sent both, and they may run at once.

| Action | Code |
|---|---|
| `Trigger`, `TriggerRevoke` | `handleRotate`, `handleRevoke` up to the first request of `Rotate`, `Revoke` |
| `CreateSucceeds`, `CreateFails` | the client's create call returns; `Rotate` builds on or returns the error |
| `DeleteReturns` | the client's delete call returns, with or without an error: `Rotate` logs and goes on |
| `RevokeReturns` | the same in `Revoke`, which goes on or, for Graph, may return the error |
| `Return` | `jsonOK`, with the new payload or the acknowledgement, with and without a gateway on the other side |
| `ServeCreate`, `RefuseCreate`, `ServeDelete` | the service |

**`CredentialPool`** is what rotation amounts to once calls, requests and failures are
forgotten: credentials are issued; only superseded ones are retired; only working ones
are published. **`RevocablePool`** extends it by the revocation of the published
credential, which is ordered first and takes effect at some later time or never: that is
what `Rotation` and `GraphSecret` implement. For a target whose `Revoke` is an
acknowledgement nothing is ever ordered, and the pool is the plain one.

**`InPlace`** models the targets that replace. `current` is the credential in
force; serving a replacement makes a new one current and the stored one dead. A
kind records whether `Rotate` talks to the service first (ansible looks up the user,
aerospike probes the cluster), whether the replacement ignores the context
(aerospike), whether the service checks what is being replaced (slack's refresh
token), whether `Rotate` cleans up by the old id, what ids do (terraform), and whether an
answer that is no error is `whole`. Slack's client looks at `ok` and Terraform's takes any JSON
object (`slack/client.go:49-57`, `terraform/client.go:85-98`): `Bodies` lets such an answer lack the
credential, its id or both, `Rotate` overwrites the payload with what there is, and Terraform's then
compares the old id with an empty one (`AfterReplace`). The other clients generate the credential
themselves or look for it. The repository does not say whether the services send such answers, so Slack and
Terraform are in the instances with whole answers and without.

**`CredentialSlot`** is what that amounts to: one credential is in force and is replaced by the
next; each is published once or never. A service that checks what it replaces waits until
the last one has been published; a gateway that waits for its calls publishes in order. Where
answers need not be whole, a blank may be published instead, and the slot may become empty (`Empty`).

**`PatRotation`** is the Azure DevOps PAT target in full: `login` and `relogin`
are `getAccessToken` in front of the creation and the revocation, `rt[c]` is the
refresh token in the client of the call, `valid` the one the provider accepts.
The second login happens when the access token could not be cached or ran out
(`client.go:85`, `:133-136`). `due` is a history variable, the creations and
deletions a call owes; it stands in for `wire` when the module is shown to
implement `Rotation`, where a login is a part of the wait for the request after it. An answer whose
`patTokenError` is "none" is taken as it is, with the token or without (`Bodies`). `Plain` is that instance of
`Rotation`; what `Rotation` says of the credentials themselves (`RefinesPool`,
`StoredDeadHasCause`, `LeakHasCause`) is stated of it, and so of Azure DevOps.

**`GraphSecret`** is the Microsoft Graph target. A call is a rotation or a
revocation (`revoking`), and the two may run at once.

| Action | Code |
|---|---|
| `TriggerRotate`, `TriggerRevoke` | `handleRotate`, `handleRevoke` up to the first request; without a key id `Revoke` acknowledges at once (`target.go:118`) |
| `CreateSucceeds`, `CreateFails` | `addPassword` returns |
| `Attempt` (in `CreateSucceeds`, `Retry`, `TriggerRevoke`) | `removePasswordOnce` sends its request |
| `Removed`, `RemovalFails`, `BackOff`, `Retry` | the loop of `removePassword`: success, a final error or a cancelled pause, a pause, the next attempt |
| `Return` | `jsonOK` with the new payload or the acknowledgement |
| `ServeCreate`, `ServeRemoval`, `RefuseRemoval`, `StumbleOverRemoval` | Graph: a replica may refuse (409), may not know the key (404), or fail (503) with the removal taking effect later |

An attempt that was answered with a failure and followed by another stays on the
wire as `late`: removals take effect late and twice. `due` is again a history
variable, for the refinement of `Rotation`, in which all attempts are one delete, in a
rotation and in a revocation. For `RevocablePool`, a revocation is ordered when it is sent
(`TriggerRevoke`), and its removal, whichever attempt it was, is the pool's `Revoke`.

**`Lease`** models dynamic secrets: the calls in `Leases` go to `/sync/create`, the
others to `/sync/revoke`. Here `store` holds the open leases, `accounts` the emails that have an
account. A creation makes up an email from the clock (`AskCreate`), asks for
the account and, for a service account, reads its token; a revocation deletes the
ids of expired leases one by one and answers with those it deleted, where 404
counts as deleted. `AskBlankly` is the revocation that `handleRevoke` acknowledges
without a target (`handler.go:134`, `:139`). `Forget` lets the gateway use a revocation slot
again, so a lease may be revoked as often as the gateway likes. A request and its
answer are one step; a request without an answer goes to `wire` and takes
effect later or never. Nothing is lost by that: what others can observe is the moment
the service acts, and a late answer is the same to `Create` and `Revoke` as an earlier one.

**`LeaseBook`** is what leases promise: an account from the opening of the lease to its
end, and none after it was struck off.

**`DeviceCode`** is the login tool with a clock: the request for a code, the loop of
`pollForToken`, a user who may sign in, and a provider that counts the life of
the code from the moment it made it, which is before the tool does. Time
passes in sleeps and in requests only.

## 3. What is checked

| Run | Instance | Properties | States |
|---|---|---|---|
| `rotation_concurrent` | 2 calls, rotations or revocations, overlapping; all 17 targets, which have 8 profiles between them; blank answers | `TypeOK`, `NewestIsLive`, `StoredDeadHasCause`, `DeliveredWorks`, `LeakHasCause` | 239 thousand |
| `rotation_serial` | 3 calls, rotations or revocations, `Serial`; 4 targets of different kinds; blank answers | `LeakHasCause`, `StoreMovesForward` | 5.4 million |
| `rotation_refines` | 2 calls, rotations or revocations, overlapping; all create-first profiles | `RefinesPool`, `EveryCallEnds` | 129 thousand |
| `inplace_overlap` | 3 calls, overlapping; all kinds, slack and terraform with blank answers and without | `TypeOK`, `AlwaysInForce`, `StaleMeansOverlap`, `RefinesSlot` | 2.1 million |
| `inplace_serial` | 3 calls, `Serial`; the same kinds | `StaleHasCause`, `RefinesSlot` | 1.7 million |
| `pat_overlap` | 3 calls with refresh tokens that always roll, 2 in the other modes, overlapping; blank answers | `TypeOK`, `StrandedHasCause`, `OneMintPerToken`, `ImplementsRotation` | 262 thousand |
| `pat_lenient` | 3 calls, overlapping; refresh tokens that may roll | `StrandedHasCause` | 4.9 million |
| `graph_revoke` | 2 calls, rotations or revocations, overlapping; 2 attempts | `TypeOK`, `AcknowledgedIsGone`, `RemovedForOne`, `StoredDeadHasCause`, `LeakHasCause`, `ImplementsRotation`, `RefinesPool`, `EveryCallEnds` | 426 thousand |
| `lease_book` | 2 leases, 2 emails, 1 revocation at a time, repeated without end; both kinds | `TypeOK`, `OpenWorks`, `OrphanHasCause`, `KeepsBook`, `OnlyFailedIsLeftOut`, `ExpiredLeaseCloses` | 135 thousand |
| `device_poll` | pauses of -1 to 3, lifetimes of 0 to 9, requests of up to 3 | `TypeOK`, `EndsInTime`, `ExpiredOnTheWay`, `IssuedIsPrinted`, `PollsAreSpaced`, `Ends` | 224 thousand |
| `rotation_github`, `pat_persist` | counterexamples, see below | `NewStoredBeforeOldRevoked`, `PersistedBeforeMint` | - |

What they show:

* *Create-before-revoke keeps its promise, in one form.* With any number of
  overlapping, abandoned, crashed and late calls no rotation ever deletes the newest
  credential (`NewestIsLive`), and when the stored one is dead and was not revoked, the call that
  replaced it holds a working one that it has not delivered
  (`StoredDeadHasCause`). Nothing worse can happen; but that does happen, after a
  single lost reply: "zero downtime" is not what the code gives. Where the old credential is
  deleted first (Grafana), the call that deleted it is the cause, whatever has become of it.
* *A revocation takes what it was sent, and nothing else.* `Revoke` of GitHub deletes the stored
  token, which is mostly the newest. Overlapping it with rotations never costs another
  one (`RefinesPool`): a token goes only when it was superseded or was in the store when its
  revocation was sent. GitHub acknowledges also when the deletion failed, and a rotation that overlaps
  may leave its new token in the store; neither is an error anybody sees.
* *A rotation that gets through repairs the secret* (`DeliveredWorks`), whatever
  state it was in, for all targets, Grafana included, unless the service answers
  "created" with no credential in the answer and the client does not look: of those with a
  credential to delete, only GitHub's and Graph's do. New Relic's looks at the length of a list.
* *The price is paid in credentials left behind.* `LeakHasCause` lists every way
  in which that happens. A gateway that does not wait adds one to them: two rotations of
  the same payload, both delivered.
* *The clean-up of a terraform token is safe*, as its comment says, with ids that
  are kept and with ids that change, also when the deletion arrives late
  (`AlwaysInForce`), as long as the answer has the id. Dropping the comparison of the ids breaks it,
  and so does an answer without an id from a service that keeps ids: the comparison with an
  empty id lets the deletion of the new token through (`Emptied`).
* *In-place targets need a gateway that makes one call at a time.* Without one,
  and without Slack's check, every call can succeed, with a whole answer, and the stored password be
  wrong; `StaleMeansOverlap` says that it takes two calls that were really concurrent. With one, what
  is left (`StaleHasCause`) is a call that did not deliver and, for Slack and Terraform, a success
  answer without a token, which overwrites the stored one with nothing. Slack's
  check makes replacements and deliveries alternate, whatever overlaps (`RefinesSlot`); the
  price is that one lost reply stops the rotation for good.
* *A refresh token is lost with any failed creation* (`StrandedHasCause` says
  what other ways there are: a lost reply or answer, and, with a provider that need not roll,
  two overlapping rotations that both deliver), and overlapping rotations do not create a token each
  when the provider rolls (`OneMintPerToken`). The logins do no harm to the PATs themselves: they are issued, retired and
  published as those of any other target (`ImplementsRotation`).
* *An acknowledged revocation of a Graph secret means that it is gone*
  (`AcknowledgedIsGone`), also with attempts that were refused, repeated or served
  late, provided that the payload has the key id. If it has the secret without the key id, the
  revocation is acknowledged at once (`target.go:118`) and the secret works on. Nor does it say
  anything of a secret that a rotation adds at the same time: the new one may outlive the item, in the
  store, with nobody left to rotate or revoke it. The other direction is safe: no late or repeated
  removal hits a secret that was neither superseded nor sent in a revocation (`RefinesPool`).
* *Retrying the removal closes one of the ways to leave a secret behind, and no other.*
  What remains (`LeakHasCause`): a payload without key id, attempts used up, a
  final answer or none. A repeated attempt can be the reason: a removal that was answered
  with a 5xx and takes effect late makes the next one a 404, which is final.
* *OpenObserve leases keep their book* (`KeepsBook`) as long as no two emails
  are the same and no revocation is waved through; if not, `OpenWorks` and
  `OrphanHasCause` say what is left. A creation that fails after the account was
  made leaves an account no revocation will ever name.
* *A lease that expired gets closed when faults cease* (`ExpiredLeaseCloses`), because
  404 counts as deleted. With a deletion that insists on 200 it would never be. The step behind it
  is `OnlyFailedIsLeftOut`: nothing but a failed deletion keeps an id out of the answer.
* *The login tool gives up within a pause of the deadline* (`EndsInTime`), however
  long the pause has become. It cannot become long: complaints cost a pause each, so it grows
  with the square root of the lifetime; with the code's 5 seconds and a code
  that lasts 15 minutes it never exceeds 95 seconds. And the tool drops no token that was issued (`IssuedIsPrinted`).

Deadlock is not checked: a behaviour is a fixed number of calls, and when they
have ended, and every request has been served, the system rests.

### Where the code and its documents differ

* `runbooks/github-app-token.md:111`: the new token is written to the secret store
  **before** the old one is revoked. `Rotate` revokes before it returns the new token
  (`github/target.go:72-81`), and the store is written after that. Run `rotation_github`.
* `runbooks/azuredevops-pat.md:81`: the rolled refresh token is persisted *before*
  Azure DevOps is called, so that a failure there does not strand it. It leaves the
  rotator only in the reply of a rotation that succeeded
  (`azuredevops/target.go:78-85`). Run `pat_persist`.

Two remarks that are not refutations, because the text promises too little to be refuted:

* `microsoftgraph/target.go:109`: a removal that failed is returned as an error "so
  Akeyless can retry". `RemovedForOne` shows what a retry cannot do: after a removal that
  took effect and whose answer was lost, every further revocation gets a 404 and fails.
  The OpenObserve client takes 404 for deleted (`openobserve/client.go:106`), this one does not.
  The same comment says that the secret is removed so that it "does not linger after the item is
  deleted" (`:110`); one whose payload has no key id does, with an acknowledgement (`:118`).
* `get-refresh-token/main.go:138` reports "device code expired before user completed
  authentication". Since the provider's clock starts first, it is mostly the provider
  whose `expired_token` ends the tool; `ExpiredOnTheWay` says when it is this line.

### Bounds

`Calls` bounds a behaviour: each call is made once. Two calls show every
overlap of two; three are needed where the point is a call between two others (the
store going back, a leak after a leak, a clean-up that arrives after later
rotations, a refresh token taken twice). A fourth call adds credentials and no new relation between
them: every property speaks of at most two calls and the store, and the
theorems below make the number irrelevant. Credential numbers are bounded by
the number of calls and nothing else is counted. `rotation_serial` takes one target
of each kind that its properties distinguish (create-first, create-first with a `Revoke` that deletes,
delete-first, no deletion) and one status for success; with blank answers the first of them
covers a target whose handle may be missing. The others differ in status sets only, which
`rotation_concurrent` has.

The two runs of `PatRotation` differ in whether the provider rolls. In `pat_overlap` a third call
starts only in the mode with refresh tokens (`ThirdCallSharesTokens`): what three calls can do that
two cannot is to take the same token, and the other modes have none. With a `Serial` gateway their
properties were checked as well (0.6 and 4.4 million states); such a gateway only takes behaviours
away, and rules out the last cause in `StrandedHasCause`, as the theorem says.

`graph_revoke` takes two attempts where the code has four: that gives a first, a last, and
a pause in between, which is all that the loop tells apart. The same properties
were also checked with three attempts (1.4 million states), and the invariants with
three calls and one attempt (16.5 million); the theorems hold for every number of both.
`lease_book` has one slot for revocations, which is used again and again, and
overlaps with its own late requests; the safety properties were also checked with two slots at
once (4.8 million states). In `device_poll` the lifetimes end before, in and after a
pause, and one lasts long enough for two complaints. `MaxTime` is not reached: `Ends` would fail
if the clock stopped before the tool did.

### Fairness

Safety properties do not depend on fairness. `EveryCallEnds` assumes weak fairness of
`Progress(c)`, what the rotator's goroutine does about call `c`: each outbound call
has a client timeout (30 seconds), so the wait ends, and then the goroutine runs; the
pauses of the Graph client are 2, 4 and 6 seconds long. Nothing is assumed of the service or
the gateway: they may never answer.

`ExpiredLeaseCloses` needs a gateway that goes on asking: strong fairness of a revocation that
names the lease (strong, because other revocations come in between), and the
premise `<>[][~Fault]_vars`: from some point on no deletion fails and no revocation is refused,
abandoned or lost in a crash. The gateway is not part of the repository, so this is an assumption
about it.

`Ends` assumes that sleeps end and that the provider answers or the connection breaks. Unlike the
rotator's clients, `http.DefaultClient` has no timeout and the tool's context is never cancelled
(`main.go:36`, `:82`, `:116`): that a request ends is an assumption of the module and not
something the code sees to.

## 4. What is proved

`RotationProofs` proves, for **every** set of calls, every set of profiles, serial or
not, blank answers or not:

| Theorem | Statement |
|---|---|
| `TypeCorrect` | `Spec => []TypeOK` |
| `NewestAlwaysLive` | `Spec => []NewestIsLive` |
| `StoredDeadAlwaysHasCause` | `Spec => []StoredDeadHasCause` |
| `DeliveredAlwaysWorks` | `Spec => DeliveredWorks` |
| `LeakAlwaysHasCause` | `Spec => []LeakHasCause` |
| `StoreAlwaysMovesForward` | `Spec => StoreMovesForward` |
| `Refinement` | `Spec => RefinesPool` (of `RevocablePool`), if all profiles create first and answers are not blank |

The assumptions are `RotationAssumption` and `GatewayAssumption`, which say what kind of
values the constants are.

*The argument.* `NewestIsLive` is not inductive: nothing in it says why a
deletion on the wire does not name the newest credential. `Inductive` adds what a
call knows (`Bookkeeping`): what it was sent is older than what it was issued, a
deletion is on the wire only when the call's own credential has been issued, what
it returns is what it was issued or empty. Then a deletion always names something older
than an issued credential, or was ordered to be revoked: a revocation makes nothing and names what
it was sent. For `StoredDeadHasCause` one needs that a credential nobody
has delivered is known to nobody (`Unshared`), hence alive; that a
credential that was replaced never comes back into the store (`Replaced`); and that
no two calls were issued the same one (`OneMaker`). `Accounting` is for what is left
behind: a call past its deletion has sent it unless it was cancelled (`DeleteSent`), and
whatever the store has gone past was sent to a call that delivered, and to one only
unless two overlapped (`ReplacedByOne`); with the serial gateway, at most one call is awaited
and it was sent what is in the store (`Awaited`). A credential that works and is not
stored was then either made by a call that has not delivered, or replaced by one whose
deletion one can look up. The proof of each step has a case per action.

`InPlaceProofs` proves every property of `InPlace`, for every set of
calls and every set of kinds, with whole answers and blank ones:

| Theorem | Statement |
|---|---|
| `TypeCorrect` | `Spec => []TypeOK` |
| `InForceAlways` | `Spec => []AlwaysInForce` |
| `StaleOnlyByOverlap` | `Spec => []StaleMeansOverlap` |
| `StaleOnlyUndelivered` | `Spec => []StaleHasCause` |
| `StoreOnlyForward` | `Spec => StoreMovesForward` |
| `Refinement` | `Spec => RefinesSlot` |

from `InPlaceAssumption` and `GatewayAssumption`. *The argument.* A clean-up on the
wire names an id that the call was sent, and either its own, newer, credential does not have
that id or the answer left the id out (`Bookkeeping`, `Answered`). In the first case, credentials have
different ids only when ids are fresh, and then what the call was sent is older than what it got, so it
is not in force; the second is `Emptied`. That gives `AlwaysInForce`. For `StaleMeansOverlap` one
needs to know who put the credential in force and whose answer is stored (`Origin`,
`StoreOrigin`), and that a credential which was replaced does not come back (`Replaced`), which rests on
`Unshared` and `OneMaker` as above. `ConditionalInductive` covers
a service that checks what it replaces: a request that it accepts names the credential
in force by its id, so by `Unshared` no call can have one that is still to be delivered.
`SerialInductive` is what the serial gateway adds: the awaited call made what it made after
everything that was delivered, and what is stored is the latest delivery. A stored blank is not a
credential one could look up, which is why deliveries are ordered by what the calls made. For
`RefinesSlot`, all three together: when a checking service serves a replacement, nobody holds the
credential in force, so its answer has been stored.

`PatProofs` proves every property of `PatRotation` that the passing runs check, for every set
of calls and modes, whether refresh tokens roll or not, serial or not, blank answers or not:

| Theorem | Statement |
|---|---|
| `TypeCorrect` | `Spec => []TypeOK` |
| `StrandedAlwaysHasCause` | `Spec => []StrandedHasCause` |
| `OneMintAlways` | `Spec => []OneMintPerToken` |
| `ImplementsRotationAlways` | `Spec => ImplementsRotation` |
| `Refinement` | `Spec => RefinesPool`, if answers are not blank |
| `StoredDeadAlwaysHasCause` | `Spec => []StoredDeadHasCause` |
| `LeakAlwaysHasCause` | `Spec => []LeakHasCause` |

from `PatAssumption` and `GatewayAssumption`. *The argument.* A refresh token that a call took and
did not deliver (`Holds`) is known to that call alone. Where every exchange uses one up
(`Rolling`), a token of which a call has taken the successor (`Took`) cannot be exchanged by
another; that is `OneMintPerToken`, and the call that took the last one is the cause in
`StrandedHasCause`. `Exchanging` keeps the tokens on the wire in step with `rt`; `Awaited` takes
the place of `Rolling` with a serial gateway, and `ReplacedByOne` where there is neither: a
payload that was replaced was sent to one call that delivered, or to two that overlapped.
For the refinement, `Bookkeeping` relates
the stages of a call to what it owes (`due`). The last three theorems are those of
`RotationProofs`, in the instance of that module in which the only profile is that of Azure
DevOps (`PlainProofs`): `PlainAssumption` proves its assumptions and `PlainSpec` that
every behaviour of `PatRotation` is one of it, so nothing has to be argued a second time.

`GraphProofs` proves every safety property of `GraphSecret`, for every set of calls and every
number of attempts:

| Theorem | Statement |
|---|---|
| `TypeCorrect` | `Spec => []TypeOK` |
| `AcknowledgedAlwaysGone` | `Spec => []AcknowledgedIsGone` |
| `AlwaysRemovedForOne` | `Spec => []RemovedForOne` |
| `NewestAlwaysLive` | `Spec => []NewestIsLive` |
| `StoredDeadAlwaysHasCause` | `Spec => []StoredDeadHasCause` |
| `LeakAlwaysHasCause` | `Spec => []LeakHasCause` |
| `ImplementsRotationAlways` | `Spec => ImplementsRotation` |
| `Refinement` | `Spec => RefinesPool` |
| `RetriesAlwaysRunOut` | `Spec => RetriesRunOut` |

from `GraphAssumption`. *The argument.* A secret that was made for a call is newer than the one the
call was sent, made for no other call (`OneMaker`), and works until the call delivers it
(`MadeKnown`): a late removal can only name something older. A call was sent what is in the store
or what has been replaced (`StoreKnown`), by one rotation that delivered, unless two of them
overlapped (`ReplacedByOne`). A removal succeeds for one call (`OneRemover`), which a revocation
needs in order to return (`RevocationKnown`). Why a rotation returned without having removed the
old secret is still to be seen in `tries` and `answer` (`ReasonKnown`). `Owed` keeps `due`
in step with the calls, for the refinement of `Rotation`: whatever attempt takes effect first is
the delete, and a revocation that returns without an error has had its secret deleted. That `RevocablePool` is implemented
needs all of this at the step in which a removal takes effect: if a rotation sent it,
the secret is older than the one made for that call; if a revocation did, it was ordered.
`RetriesRunOut` counts the steps that are left (`StepsLeft`): what remains to liveness is fairness.

`LeaseProofs` proves every safety property of `Lease`, for every set of leases, revocations
and emails:

| Theorem | Statement |
|---|---|
| `TypeCorrect` | `Spec => []TypeOK` |
| `AlwaysOpenWorks` | `Spec => []OpenWorks` |
| `OrphanAlwaysHasCause` | `Spec => []OrphanHasCause` |
| `AlwaysKeepsBook` | `Spec => KeepsBook` |
| `AlwaysOnlyFailedIsLeftOut` | `Spec => OnlyFailedIsLeftOut` |

from `LeaseAssumption` and `NoneAssumption` (which says that `None` is no email). *The argument.* All that
is ever deleted, at once or late, is the email of a lease that has expired (`Expired`), so another
lease that loses its account shares its email. The hard part is `OrphanHasCause`, because an account may be made
again after its deletion, by a late request or by another lease with the email: `Owned` says
that each account has an owner that no revocation under way is going to strike off.
`OnlyFailedIsLeftOut` needs that a revocation returns with an empty list (`Worked`), and that the
emails of expired leases do not change (`IdsKept`).

`DeviceCodeProofs` proves every safety property of `DeviceCode`, for every pause, lifetime,
patience and clock, from `DeviceCodeAssumption`:

| Theorem | Statement |
|---|---|
| `TypeCorrect` | `Spec => []TypeOK` |
| `AlwaysGivesUpInTime` | `Spec => []GivesUpInTime` |
| `AlwaysEndsInTime` | `Spec => []EndsInTime` |
| `AlwaysExpiredOnTheWay` | `Spec => []ExpiredOnTheWay` |
| `AlwaysIssuedIsPrinted` | `Spec => []IssuedIsPrinted` |
| `AlwaysSpaced` | `Spec => PollsAreSpaced` |

*The argument.* `Sleeping` and `Polling` relate the tool's pause to what the provider has
demanded: equal, but for a complaint that has not been read; a sleep begins before the
deadline and lasts one pause; and the provider's end of the code is not after the tool's.
`Growing` is for `EndsInTime`: the pauses are `d`, `d + s`, `d + 2s`, ..., and each was slept
through before the next complaint, so the time that has passed is at least their sum. Stated as a
bound on the square of the pause (`Reachable`) the sum needs no induction: a complaint adds
`2 * s` times the pause to one side, and the time that it took adds at least that to the other
(`ReachableAfterComplaint`).

Only checked by TLC: `EveryCallEnds`, `ExpiredLeaseCloses` and `Ends`, which are liveness under
fairness and outside of what the prover handles. What is proved of them is the part without fairness:
a call to Graph has a bounded number of steps (`RetriesRunOut`), a revocation that meets
no fault closes all of its leases (`OnlyFailedIsLeftOut`), and the clock at which the tool ends is
bounded (`EndsInTime`).

Five statements that are proved are in no run, because they follow from ones that are:
`StoredDeadHasCause`, `LeakHasCause` and `RefinesPool` of `PatRotation` follow from `ImplementsRotation`,
`NewestIsLive` of `GraphSecret` from its own, and `StoreMovesForward` of `InPlace` from
`RefinesSlot`. `RetriesRunOut` is in none either. All were checked on the instances of section 3 before
they were proved.

## 5. What is not modelled

* The *contents* of payloads and answers beyond handle, credential and refresh
  token; formatting, headers, URLs, JWTs, password generation.
* The statuses a client takes for "deleted": every `Rotate` modelled here logs the
  outcome of its deletion and returns the same payload either way.
* `/sync/create` of the targets other than OpenObserve, which echoes the payload, and
  `/sync/revoke` of the in-place targets and of the Azure DevOps PAT, which acknowledges: neither
  changes anything. Of the `Revoke` methods only those of OpenObserve (`Lease`), Graph
  (`GraphSecret`, `Rotation`) and GitHub (`Rotation`) call a service.
* For `Rotation` and `GraphSecret` the gateway is taken to send the stored payload with a revocation,
  as it does with a rotation. The empty payload and the unknown type, which `handleRevoke`
  acknowledges by itself, change nothing there; what they do to leases is in `Lease`.
* Whether a service ever sends an answer without a credential. The models allow it wherever the
  client would let it pass.
* The request to the validation service (`go/pkg/auth`): it keeps nothing and changes nothing; that
  it may come out either way is in `Start` and `Refuse`.
* The cached access token of the Graph client, which lives as long as one call: to the
  removal a login that fails is an attempt that gets no answer (`RemovalFails`).
* The length of the pauses between attempts: a pause may be as long or as short as it likes.
* The Let's Encrypt producer, the echo server, the scripts: they keep no state and
  what could go wrong is inside a library or a `curl` whose outcome is ignored.
* A service that loses credentials by itself, or an operator who edits the store.

## 6. The plan

Everything that was planned is done: `Gateway`, `Targets`, `CredentialPool`, `Rotation`,
`InPlace` and `PatRotation` first, because most targets are `Rotation`s; then
`GraphSecret`, `Lease` with `LeaseBook`, and `DeviceCode`; and a module of proofs for each of
them.

What could be added: a bound on time for rotations (client timeouts, the gateway's
timeout and the context in one clock, as `DeviceCode` has it), which would tell the overlaps that
the configured timeouts allow from those they do not. It needs numbers of the gateway that
the repository gives as examples only.
