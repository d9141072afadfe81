-------------------------- MODULE MCDeviceLifecycle --------------------------
(***************************************************************************)
(* DeviceLifecycle with two requests of the device at once and one of the  *)
(* administrator, from any database a server may start with.               *)
(***************************************************************************)
EXTENDS DeviceLifecycle, TLC

Symmetry == Permutations(Clients)
=============================================================================
