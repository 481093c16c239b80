---------------------------- MODULE MCSessionLock ----------------------------
(***************************************************************************)
(* SessionLock on small instances: the values its configurations give.     *)
(***************************************************************************)
EXTENDS SessionLock, TLC

CONSTANTS o1, o2, c1, c2

OneOutput == {o1}
TwoOutputs == {o1, o2}
OneClient == {c1}
TwoClients == {c1, c2}

ShownFrames == {"power", "hotplug", "vt", "surface"}
FailingFrames == {"power", "vt", "render"}
OnlyHotplug == {"hotplug"}

Symmetry == Permutations(TwoOutputs)
=============================================================================
