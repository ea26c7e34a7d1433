--------------------------- MODULE MCGraphSecret ---------------------------
(***************************************************************************)
(* Values for the constants of GraphSecret.                                *)
(***************************************************************************)
EXTENDS GraphSecret

CONSTANTS c1, c2

TwoCalls == {c1, c2}

=============================================================================
