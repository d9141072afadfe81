--------------------------- MODULE MCTCPListeners ---------------------------
(* Instance of TCPListeners for TLC: two mappings of two devices and two   *)
(* ports.  It is r1 that reloads first; which of the two it is makes no    *)
(* difference.                                                             *)
EXTENDS TCPListeners

CONSTANTS m1, m2, d1, d2, r1, r2

MCMappings == {m1, m2}
MCDevices == {d1, d2}
MCOwner == [m \in MCMappings |-> IF m = m1 THEN d1 ELSE d2]
MCReloaders == {r1, r2}

MCInit == ListenersInit /\ reload[r2].at = "idle"
MCSpec == MCInit /\ [][ListenersNext]_listenersVars /\ ListenersFairness
=============================================================================
