-------------------------- MODULE MCLicenseClient --------------------------
(***************************************************************************)
(* The instance of LicenseClient for TLC: the installation may recover its *)
(* identity once, the key may move to a second seat, and the journal holds *)
(* an activation and one request after it, or two refreshes.               *)
(***************************************************************************)
EXTENDS LicenseClient

TwoInstallations == {1, 2}
TwoSeats == {1, 2}
TwoRequests == {1, 2}
=============================================================================
