----------------------------- MODULE MCWifiJoin -----------------------------
(* One network's profile and one to be made.                                *)
EXTENDS WifiJoin

CONSTANTS u1, u2
TwoProfiles == {u1, u2}
OneProfile == {u1}
=============================================================================
