----------------------------- MODULE MCDeviceRows ----------------------------
(* An instance of DeviceRows for TLC. *)
EXTENDS DeviceRows, TLC

\* Neither users nor goroutines are told apart.
RowSymmetry == Permutations(DeviceUser) \cup Permutations(Routine)
=============================================================================
