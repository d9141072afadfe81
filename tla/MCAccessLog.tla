----------------------------- MODULE MCAccessLog -----------------------------
(* Four requests, a queue of two, batches of two, three attempts.          *)
EXTENDS AccessLog

CONSTANTS r1, r2, r3, r4

MCRequests == {r1, r2, r3, r4}
=============================================================================
