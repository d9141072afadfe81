---------------------------- MODULE MCForwarding ----------------------------
(***************************************************************************)
(* Forwarding with channels of one buffer and two buffers sent each way,   *)
(* so that every writer blocks on every reader.                            *)
(***************************************************************************)
EXTENDS Forwarding
=============================================================================
