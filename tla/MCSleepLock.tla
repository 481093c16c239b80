----------------------------- MODULE MCSleepLock -----------------------------
(***************************************************************************)
(* SleepLock on one output and one lock client, for TLC.                   *)
(***************************************************************************)
EXTENDS SleepLock

CONSTANTS o1, c1

OneOutput == {o1}
OneClient == {c1}
NoDisturbance == {}
=============================================================================
