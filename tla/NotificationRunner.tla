------------------------- MODULE NotificationRunner -------------------------
(***************************************************************************)
(* services/notification_runner.go: a mutex, a bounded queue of tasks and  *)
(* a fixed number of workers. What a task does is in Messages, and         *)
(* Notifications puts the two together.                                    *)
(***************************************************************************)
EXTENDS Naturals, Sequences, SequencesExt

CONSTANTS
  Tasks,      \* the tasks that are ever submitted
  Workers,    \* the worker goroutines
  Callers,    \* request handlers that submit or send
  QueueSize,  \* navmesh.notification-queue-size
  NoTask

ASSUME QueueAssumption == QueueSize \in Nat \ {0}

VARIABLES
  started,   \* NotificationRunner.started
  stopping,  \* NotificationRunner.stopping, set with the queue closed
  queue,     \* NotificationRunner.queue
  running,   \* [Workers \cup Callers -> the task it runs, or NoTask]
  fate       \* [Tasks -> what became of the task]

runnerVars == <<started, stopping, queue, running, fate>>

Threads == Workers \cup Callers
Fates == {"new", "refused", "full", "waiting", "working", "done", "lost"}

RunnerInit ==
  /\ started = FALSE
  /\ stopping = FALSE
  /\ queue = <<>>
  /\ running = [t \in Threads |-> NoTask]
  /\ fate = [n \in Tasks |-> "new"]

RunnerTypeOK ==
  /\ started \in BOOLEAN /\ stopping \in BOOLEAN
  /\ queue \in Seq(Tasks) /\ Len(queue) <= QueueSize
  /\ running \in [Threads -> Tasks \cup {NoTask}]
  /\ fate \in [Tasks -> Fates]

(* Start does nothing once started or once stopping: there is no restart.  *)
Start ==
  /\ ~started /\ ~stopping
  /\ started' = TRUE
  /\ UNCHANGED <<stopping, queue, running, fate>>

(* Submit under the mutex: refused when stopping or full, else queued.     *)
Submit(n) ==
  /\ fate[n] = "new"
  /\ stopping \/ started
  /\ LET room == Len(queue) < QueueSize
     IN /\ queue' = IF ~stopping /\ room THEN Append(queue, n) ELSE queue
        /\ fate' = [fate EXCEPT ![n] =
                      IF stopping THEN "refused" ELSE IF room THEN "waiting" ELSE "full"]
  /\ UNCHANGED <<started, stopping, running>>

(* Seeded fault: a stopped runner is taken for one that has not started.   *)
SubmitInlineStopped(c, n) ==
  /\ fate[n] = "new"
  /\ ~started
  /\ running[c] = NoTask
  /\ running' = [running EXCEPT ![c] = n]
  /\ fate' = [fate EXCEPT ![n] = "working"]
  /\ UNCHANGED <<started, stopping, queue>>

(* Not started: the caller runs the task itself, outside the mutex.        *)
SubmitInline(c, n) ==
  /\ fate[n] = "new"
  /\ ~stopping /\ ~started
  /\ running[c] = NoTask
  /\ running' = [running EXCEPT ![c] = n]
  /\ fate' = [fate EXCEPT ![n] = "working"]
  /\ UNCHANGED <<started, stopping, queue>>

(* Seeded fault: the task accepted last is taken first.                    *)
TakeNewest(w) ==
  /\ started \/ stopping
  /\ running[w] = NoTask
  /\ queue # <<>>
  /\ queue' = Front(queue)
  /\ running' = [running EXCEPT ![w] = Last(queue)]
  /\ fate' = [fate EXCEPT ![Last(queue)] = "working"]
  /\ UNCHANGED <<started, stopping>>

(* A worker ranges over the queue, which after Stop is closed but not yet  *)
(* empty.                                                                  *)
TakeTask(w) ==
  /\ started \/ stopping
  /\ running[w] = NoTask
  /\ queue # <<>>
  /\ queue' = Tail(queue)
  /\ running' = [running EXCEPT ![w] = Head(queue)]
  /\ fate' = [fate EXCEPT ![Head(queue)] = "working"]
  /\ UNCHANGED <<started, stopping>>

(* Seeded fault: a worker runs one task and keeps it.                      *)
EndTaskKeeps(t, outcome) ==
  /\ running[t] # NoTask
  /\ fate' = [fate EXCEPT ![running[t]] = outcome]
  /\ UNCHANGED <<started, stopping, queue, running>>

(* runTask returns when the task does, and after a panic it recovered.     *)
EndTask(t, outcome) ==
  /\ running[t] # NoTask
  /\ running' = [running EXCEPT ![t] = NoTask]
  /\ fate' = [fate EXCEPT ![running[t]] = outcome]
  /\ UNCHANGED <<started, stopping, queue>>

CloseRunner ==
  /\ ~stopping
  /\ started' = FALSE
  /\ stopping' = TRUE
  /\ UNCHANGED <<queue, running, fate>>

(* Seeded fault: Stop waits for the queue, not for the workers.            *)
QueueDone == queue = <<>>

(* The wait group: every worker has left its loop.                         *)
WorkersDone == queue = <<>> /\ \A w \in Workers : running[w] = NoTask

(* The process ends: tasks that wait or run are gone.                      *)
LoseTasks ==
  /\ started' = FALSE
  /\ stopping' = FALSE
  /\ queue' = <<>>
  /\ running' = [t \in Threads |-> NoTask]
  /\ fate' = [n \in Tasks |-> IF fate[n] \in {"waiting", "working"} THEN "lost" ELSE fate[n]]
=============================================================================
