----------------------------- MODULE MCSessions -----------------------------
(***************************************************************************)
(* Sessions for TLC: an SSH and an HTTP session of one device competing    *)
(* for one permit and one hit of the rate limit, two requests of two       *)
(* administrators and one crash, so that two requests for one session, or  *)
(* a request and a deletion, overlap.                                      *)
(***************************************************************************)
EXTENDS Sessions, TLC

CONSTANTS s1, s2, d1

Gateways == s1 :> "ssh" @@ s2 :> "http"
MCKindOf == [s \in SessionIds |-> Gateways[s]]
MCDeviceOf == [s \in SessionIds |-> d1]
=============================================================================
