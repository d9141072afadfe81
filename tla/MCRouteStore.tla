---------------------------- MODULE MCRouteStore ----------------------------
(***************************************************************************)
(* The route store with two mappings that compete for one host, a device   *)
(* in one of two groups, and two administrators.                           *)
(***************************************************************************)
EXTENDS RouteStore
=============================================================================
