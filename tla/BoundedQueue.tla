---------------------------- MODULE BoundedQueue ----------------------------
(***************************************************************************)
(* What a bounded in-memory queue of the server promises to the code that  *)
(* hands it entries without ever waiting for room:                         *)
(*   - an entry is refused only when the queue is no longer open, or when  *)
(*     at least Capacity entries wait;                                     *)
(*   - accepted entries are taken in the order they were accepted;         *)
(*   - an entry is taken once, and settled (done or lost) once;            *)
(*   - once closed, the queue accepts nothing, but what it has accepted    *)
(*     is still worked off.                                                *)
(* AccessLog (httpgateway/log.go) and NotificationRunner                   *)
(* (services/notification_runner.go) are shown to implement it.            *)
(***************************************************************************)
EXTENDS Naturals, Sequences, SequencesExt

CONSTANTS
  Entries,   \* everything that is ever offered
  Capacity,  \* with fewer waiting entries none is refused for lack of room
  Room       \* never do more entries wait than this

VARIABLES
  phase,    \* "idle" before the start, "open", "closing", "closed"
  pending,  \* accepted entries nobody has taken, oldest first
  fate      \* [Entries -> "new", "refused", "waiting", "working", "done", "lost"]

vars == <<phase, pending, fate>>

Init ==
  /\ phase \in {"idle", "open"}
  /\ pending = <<>>
  /\ fate = [e \in Entries |-> "new"]

Open == phase = "idle" /\ phase' = "open" /\ UNCHANGED <<pending, fate>>

(* While it closes, the queue may accept or refuse.                        *)
BeginClose == phase = "open" /\ phase' = "closing" /\ UNCHANGED <<pending, fate>>
Close == phase # "closed" /\ phase' = "closed" /\ UNCHANGED <<pending, fate>>

Accept(e) ==
  /\ fate[e] = "new"
  /\ phase \in {"open", "closing"}
  /\ Len(pending) < Room
  /\ pending' = Append(pending, e)
  /\ fate' = [fate EXCEPT ![e] = "waiting"]
  /\ UNCHANGED phase

Refuse(e) ==
  /\ fate[e] = "new"
  /\ phase \in {"closing", "closed"} \/ Len(pending) >= Capacity
  /\ fate' = [fate EXCEPT ![e] = "refused"]
  /\ UNCHANGED <<phase, pending>>

(* Before the start there is no queue: the caller does the work itself.    *)
Inline(e) ==
  /\ fate[e] = "new"
  /\ phase = "idle"
  /\ fate' = [fate EXCEPT ![e] = "working"]
  /\ UNCHANGED <<phase, pending>>

Take(n) ==
  LET taken == ToSet(SubSeq(pending, 1, n))
  IN  /\ pending' = SubSeq(pending, n + 1, Len(pending))
      /\ fate' = [e \in Entries |-> IF e \in taken THEN "working" ELSE fate[e]]
      /\ UNCHANGED phase

(* Entries taken together are settled together, in one way.                *)
Settle(S, outcome) ==
  /\ \A e \in S : fate[e] = "working"
  /\ fate' = [e \in Entries |-> IF e \in S THEN outcome ELSE fate[e]]
  /\ UNCHANGED <<phase, pending>>

(* The process ends: what was not settled is lost, and a new queue begins. *)
Crash ==
  /\ phase' = "idle"
  /\ pending' = <<>>
  /\ fate' = [e \in Entries |-> IF fate[e] \in {"waiting", "working"} THEN "lost" ELSE fate[e]]

Next ==
  \/ Crash
  \/ Open \/ BeginClose \/ Close
  \/ \E e \in Entries : Accept(e) \/ Refuse(e) \/ Inline(e)
  \/ \E n \in 1..Len(pending) : Take(n)
  \/ \E S \in (SUBSET Entries) \ {{}}, outcome \in {"done", "lost"} : Settle(S, outcome)

Spec == Init /\ [][Next]_vars
=============================================================================
