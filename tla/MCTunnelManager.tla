-------------------------- MODULE MCTunnelManager --------------------------
(***************************************************************************)
(* TunnelManager for model checking.  Each plan is a way the device may    *)
(* connect: a tunnel replaced by one on the other transport with its data  *)
(* connections in flight, a legacy connection among them, and data         *)
(* connections that find no tunnel (late hellos) on both transports.       *)
(***************************************************************************)
EXTENDS TunnelManager, TLC

CONSTANTS q1, q2, t1, t2

MCQConns == {q1, q2}
MCTConns == {t1, t2}
Plan(a, b, c, d) == q1 :> a @@ q2 :> b @@ t1 :> c @@ t2 :> d
MCRolePlans == {
  Plan("control", "data", "control", "absent"),
  Plan("control", "absent", "control", "data"),
  Plan("legacy", "absent", "control", "data"),
  Plan("control", "absent", "data", "data"),
  Plan("legacy", "control", "data", "absent"),
  Plan("data", "data", "data", "absent") }
=============================================================================
