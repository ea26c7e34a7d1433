------------------------------ MODULE Targets ------------------------------
(***************************************************************************)
(* What distinguishes the token-issuing targets of the rotator from one    *)
(* another, one profile per target:                                        *)
(*                                                                         *)
(*   order    the order in which Rotate calls the service                  *)
(*   created  the HTTP statuses its client takes for "created"             *)
(*   checks   whether a created answer that lacks the credential, or the   *)
(*            handle it always comes with, is an error                     *)
(*   id       whether an answer carries the handle by which the NEXT       *)
(*            rotation deletes the credential.  "itself": the credential   *)
(*            is the handle.  "never": Rotate has no delete step, the      *)
(*            credential is left to expire                                 *)
(*   revoke   what Revoke does besides its answer.  "none": nothing.       *)
(*            "lenient": it deletes the credential in the payload and      *)
(*            answers the same whatever becomes of it.  "strict": it       *)
(*            answers without an error only if the credential was deleted  *)
(*                                                                         *)
(* The statuses a client takes for "deleted" are not here: every Rotate    *)
(* below only logs the outcome of its delete.                              *)
(***************************************************************************)

Profile(order, created, checks, id, revoke) ==
    [order |-> order, created |-> created, checks |-> checks, id |-> id, revoke |-> revoke]

CreateFirst(created) == Profile("create_first", created, FALSE, "always", "none")
MintOnly(created) == Profile("create_first", created, TRUE, "never", "none")

\* Statuses with which a service says that it did create the credential.
SuccessStatuses == {200, 201, 202}

\* Every profile a target may have.
ProfileType ==
    [order   : {"create_first", "delete_first"},
     created : SUBSET SuccessStatuses,
     checks  : BOOLEAN,
     id      : {"always", "itself", "maybe", "never"},
     revoke  : {"none", "lenient", "strict"}]

-----------------------------------------------------------------------------
\* The create calls of the clients: the statuses that let Rotate go on.

AnsibleCreated    == {201}
AzurePATCreated   == {200}
ArgocdCreated     == {200}
CloudflareCreated == {200, 201}
ConfluentCreated  == {200, 201}
DatadogCreated    == {201}
GithubCreated     == {200, 201}
GitlabCreated     == {200, 201}
GrafanaCreated    == {200, 201}
JfrogCreated      == {200, 201}
NewrelicCreated   == {200}
OktaCreated       == {200, 201}
PagerdutyCreated  == {200, 201}
SendgridCreated   == {200, 201}
ApigeeCreated     == {200}
GraphCreated      == {200}

-----------------------------------------------------------------------------
\* The Rotate methods.

AnsibleAPIKey == CreateFirst(AnsibleCreated)
\* Seen from outside; what its logins add is in PatRotation.  The client looks at
\* patTokenError, not at the token.
AzurePAT      == CreateFirst(AzurePATCreated)
Cloudflare    == CreateFirst(CloudflareCreated)
Confluent     == CreateFirst(ConfluentCreated)
Datadog       == CreateFirst(DatadogCreated)
Gitlab        == CreateFirst(GitlabCreated)
Jfrog         == CreateFirst(JfrogCreated)
\* The client wants a list of keys that is not empty, and takes its first entry
\* as it is.
Newrelic      == CreateFirst(NewrelicCreated)
Okta          == CreateFirst(OktaCreated)
Pagerduty     == CreateFirst(PagerdutyCreated)
Sendgrid      == CreateFirst(SendgridCreated)

\* GitHub deletes a token by the token itself.  The client refuses an answer
\* without one, and Revoke deletes the stored token, if that can be done.
Github == Profile("create_first", GithubCreated, TRUE, "itself", "lenient")

\* The secret text and its key id must both be there.  How this target repeats its
\* removals, in Rotate and in Revoke, is in GraphSecret.
MicrosoftGraph == Profile("create_first", GraphCreated, TRUE, "always", "strict")

\* The handle is the answer's "iat" field, which may be absent: the credential
\* is then stored with an empty token_id and the next rotation skips its delete.
Argocd == Profile("create_first", ArgocdCreated, FALSE, "maybe", "none")

\* Grafana deletes the old token before it asks for the new one.
Grafana == Profile("delete_first", GrafanaCreated, FALSE, "always", "none")

\* Access tokens that are only minted.
AzureSPToken == MintOnly({200})
Apigee       == MintOnly(ApigeeCreated)

-----------------------------------------------------------------------------
\* Targets with the same profile are one element: the set is small.
AllTargets ==
    {AnsibleAPIKey, AzurePAT, Argocd, Cloudflare, Confluent, Datadog, Github, Gitlab,
     Grafana, Jfrog, MicrosoftGraph, Newrelic, Okta, Pagerduty, Sendgrid, AzureSPToken, Apigee}

=============================================================================
