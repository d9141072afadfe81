------------------------------ MODULE MCClient ------------------------------
(* Instance of Client for TLC.  "tcp", with -skipRegister, has room on the *)
(* clock for two restart requests, so that two commands can meet in the    *)
(* channel; "auto", which serves over QUIC and TCP, and "quic" for one.    *)
EXTENDS Client

CONSTANTS l1, l2

MCLoops == {l1, l2}

MCInit ==
  /\ ClientInit
  /\ now = IF transport = "tcp" THEN MaxTime - 1 ELSE MaxTime
  /\ skip <=> transport = "tcp"

MCSpec == MCInit /\ [][ClientNext]_clientVars /\ ClientFairness
=============================================================================
