-------------------------- MODULE MCLicenseSystem --------------------------
(* Instances of LicenseSystem for TLC. *)
EXTENDS LicenseSystem

CONSTANTS id1, here, there

MCDays  == {-1, 1}
MCDrift == {-1, 1}
=============================================================================
