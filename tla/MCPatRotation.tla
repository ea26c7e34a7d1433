--------------------------- MODULE MCPatRotation ---------------------------
(***************************************************************************)
(* Values for the constants of PatRotation.                                *)
(***************************************************************************)
EXTENDS PatRotation, FiniteSets, TLC

CONSTANTS c1, c2, c3

TwoCalls == {c1, c2}
ThreeCalls == {c1, c2, c3}
Symmetry == Permutations(Calls)

AllModes == {"bearer", "ropc", "refresh_token"}
OnlyRefreshToken == {"refresh_token"}

\* Bound: a third call only where the calls share refresh tokens.
ThirdCallSharesTokens ==
    mode # "refresh_token" => Cardinality({c \in Calls : pc[c] # "idle"}) <= 2

=============================================================================
