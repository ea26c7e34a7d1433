------------------------------ MODULE MCLease ------------------------------
(***************************************************************************)
(* Values for the constants of Lease.                                      *)
(***************************************************************************)
EXTENDS Lease

CONSTANTS c1, c2, r1, r2, e1, e2

TwoLeases == {c1, c2}
OneRevocation == {c1, c2, r1}
TwoRevocations == {c1, c2, r1, r2}
BothKinds == {"token", "password"}
TwoEmails == {e1, e2}

=============================================================================
