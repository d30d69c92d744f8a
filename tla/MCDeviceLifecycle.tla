-------------------------- MODULE MCDeviceLifecycle --------------------------
(***************************************************************************)
(* DeviceLifecycle for TLC: the devices are alike, and every property      *)
(* checked of them is a safety property.                                   *)
(***************************************************************************)
EXTENDS DeviceLifecycle, TLC

\* Installed a month from now, and far past the end of its life.
MCAges == {-1, 180}

Symmetry == Permutations(Devices)
=============================================================================
