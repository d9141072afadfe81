--------------------------- MODULE MCNotifications ---------------------------
(* Three notices and one worker with a queue of two: two notices wait      *)
(* together, or the third finds the queue full.  The one recipient admits  *)
(* the first notice only; a console request retries its record, also while *)
(* the worker sends.                                                       *)
EXTENDS Notifications

CONSTANTS n1, n2, n3, p1, w1, c1

MCNotices == {n1, n2, n3}
MCRecipients == {p1}
MCWorkers == {w1}
MCCallers == {c1}
MCSenders == MCWorkers \cup MCCallers
MCPublishers == {c1}
MCAdmits == {<<n1, p1>>}
MCWatched == {<<n1, p1>>}
=============================================================================
