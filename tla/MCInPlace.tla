----------------------------- MODULE MCInPlace -----------------------------
(***************************************************************************)
(* Values for the constants of InPlace.                                    *)
(***************************************************************************)
EXTENDS InPlace, TLC

CONSTANTS c1, c2, c3

TwoCalls == {c1, c2}
ThreeCalls == {c1, c2, c3}
Symmetry == Permutations(Calls)

\* Targets with the same profile are one element.
AllKinds ==
    {ServicenowCred, OpenobserveToken, OpenobservePassword, AnsiblePassword, AerospikePassword}
    \union {SlackToken(whole) : whole \in BOOLEAN}
    \union {TerraformToken(id, whole) : id \in {"fresh", "kept"}, whole \in BOOLEAN}

=============================================================================
