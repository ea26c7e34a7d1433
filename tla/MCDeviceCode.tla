---------------------------- MODULE MCDeviceCode ----------------------------
(***************************************************************************)
(* Values for the constants of DeviceCode.                                 *)
(***************************************************************************)
EXTENDS DeviceCode

NamedPauses == {-1, 0, 1, 3}
SomeLifetimes == {0, 1, 5, 9}

=============================================================================
