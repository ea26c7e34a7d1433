----------------------------- MODULE MCRotation -----------------------------
(***************************************************************************)
(* Values for the constants of Rotation.                                   *)
(***************************************************************************)
EXTENDS Rotation, TLC

CONSTANTS c1, c2, c3

TwoCalls == {c1, c2}
ThreeCalls == {c1, c2, c3}
Symmetry == Permutations(Calls)

\* One target of each kind that the serial run tells apart; with Blanks, Datadog
\* covers Argocd.  Which statuses a client accepts is left to the other runs.
KindsOfTarget == {[p EXCEPT !.created = {201}] : p \in {Datadog, Github, Grafana, Apigee}}
CreateFirstTargets == {p \in AllTargets : p.order = "create_first"}
OnlyGithub == {Github}

=============================================================================
