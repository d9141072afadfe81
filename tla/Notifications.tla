---------------------------- MODULE Notifications ----------------------------
(***************************************************************************)
(* The notification runner and the sending of messages together: tasks     *)
(* submitted by the offline cleaner, by heartbeats and by the release API  *)
(* run on the runner's workers and write send records that the console     *)
(* retries meanwhile; the server stops, and starts again.                  *)
(***************************************************************************)
EXTENDS NotificationRunner, Messages

CONSTANTS
  Publishers,  \* bound: the callers that submit tasks
  Watched      \* bound: the records the console retries

(* A task sends one notice, on a thread of the runner or of a caller.      *)
ASSUME SharedAssumption ==
  /\ Tasks = Notices /\ Senders = Workers \cup Callers
  /\ Workers \cap Callers = {}
  /\ Publishers \subseteq Callers /\ Watched \subseteq Notices \X Recipients

ASSUME NullsAssumption ==
  /\ NoTask \notin Tasks
  /\ None \notin Notices /\ None \notin Notices \X Recipients

VARIABLES
  stage,     \* "running", "stopping" (Stop waits), "stopped"
  timedOut   \* Stop ran into its deadline of ten seconds

shutVars == <<stage, timedOut>>
vars == <<runnerVars, messageVars, shutVars>>

Init ==
  /\ RunnerInit
  /\ MessagesInit
  /\ stage = "running"
  /\ timedOut = FALSE

StartRunner == stage = "running" /\ Start /\ UNCHANGED <<messageVars, shutVars>>

SubmitNotice(n) == Submit(n) /\ UNCHANGED <<messageVars, shutVars>>

RunInline(c, n) == SubmitInline(c, n) /\ BeginNotice(c, n) /\ UNCHANGED shutVars

TakeNotice(w) == queue # <<>> /\ BeginNotice(w, Head(queue)) /\ TakeTask(w) /\ UNCHANGED shutVars

(* The task has gone through its recipients.                               *)
FinishNotice(t) ==
  /\ sender[t].at = "idle"
  /\ EndTask(t, "done")
  /\ UNCHANGED <<messageVars, shutVars>>

(* A panic ends the task wherever it is, not the worker.                   *)
Panic(t) ==
  /\ sender[t].at # "hung"
  /\ Event
  /\ EndTask(t, "lost")
  /\ sender' = [sender EXCEPT ![t] = Idle]
  /\ unclear' = IF sender[t].key # None THEN unclear \cup {sender[t].key} ELSE unclear
  /\ UNCHANGED <<settingVars, record, attempts, delivered, overlapped, shutVars>>

Step(t) == SenderStep(t) /\ UNCHANGED <<runnerVars, shutVars>>

Retry(c, k) ==
  /\ running[c] = NoTask
  /\ BeginRetry(c, k)
  /\ UNCHANGED <<runnerVars, shutVars>>

ChangeSettings == Console /\ UNCHANGED <<runnerVars, shutVars>>

(* stopNotificationRunner: a runner that never started only remembers that *)
(* it is stopping.                                                         *)
StopRunner ==
  /\ stage = "running"
  /\ CloseRunner
  /\ stage' = IF started THEN "stopping" ELSE "stopped"
  /\ UNCHANGED <<messageVars, timedOut>>

StopReturns ==
  /\ stage = "stopping"
  /\ stage' = "stopped"
  /\ timedOut' = ~WorkersDone
  /\ UNCHANGED <<runnerVars, messageVars>>

(* A crash, or the end of the process after the shutdown; then a new one.  *)
Restart ==
  /\ stage' = "running"
  /\ timedOut' = FALSE
  /\ LoseTasks
  /\ LoseSenders

Serve(w) == TakeNotice(w) \/ Step(w) \/ FinishNotice(w)

Next ==
  \/ StartRunner \/ StopRunner \/ StopReturns \/ Restart
  \/ \E n \in Notices : SubmitNotice(n)
  \/ \E c \in Publishers, n \in Notices : RunInline(c, n)
  \/ \E w \in Workers : TakeNotice(w)
  \/ \E t \in Threads : Step(t) \/ FinishNotice(t) \/ Panic(t)
  \/ \E c \in Callers, k \in Watched : Retry(c, k)
  \/ ChangeSettings

Spec == Init /\ [][Next]_vars

(* The scheduler runs each worker; the mail server answers or hangs.       *)
FairSpec == Spec /\ \A w \in Workers : WF_vars(Serve(w))

-----------------------------------------------------------------------------
TypeOK ==
  /\ RunnerTypeOK
  /\ MessagesTypeOK
  /\ stage \in {"running", "stopping", "stopped"}
  /\ timedOut \in BOOLEAN

(* Submit, the workers and Stop make a bounded queue: a task is refused    *)
(* only by a closed or a full queue, tasks start in the order they were    *)
(* accepted, each once, and none is accepted after Stop.                   *)
Runner == INSTANCE BoundedQueue WITH
  Entries <- Notices,
  Capacity <- QueueSize,
  Room <- QueueSize,
  phase <- IF stopping THEN "closed" ELSE IF started THEN "open" ELSE "idle",
  pending <- queue,
  fate <- [n \in Notices |-> IF fate[n] = "full" THEN "refused" ELSE fate[n]]

ImplementsQueue == Runner!Spec

(* When Stop returns in time, every task the runner accepted has run to    *)
(* its end or its panic: none waits in the closed queue, and no worker     *)
(* still runs one (Stop, worker). Tasks that callers run themselves are    *)
(* not waited for.                                                         *)
StopServesAll ==
  stage = "stopped" /\ ~timedOut =>
    /\ \A n \in Notices : fate[n] # "waiting"
    /\ \A w \in Workers : running[w] = NoTask

(* A recipient gets a mail twice only when two threads worked on its       *)
(* record at once (RetrySendRecord sends pending records too), or when the *)
(* outcome of a delivery never reached the record; and without overlapping *)
(* threads a record is sent once and retried MaxRetries times at most,     *)
(* although the count is read, checked, and written back much later.       *)
DuplicateIsExplained ==
  \A k \in Keys :
    /\ delivered[k] > 1 => k \in overlapped \cup unclear
    /\ attempts[k] > 1 + MaxRetries => k \in overlapped

(* When nobody works on a record it says "success" exactly when a mail was *)
(* delivered, unless the outcome was lost or threads overlapped.           *)
RecordsTellTheTruth ==
  \A k \in Keys :
    \/ k \in overlapped \cup unclear
    \/ Busy(k)
    \/ record[k].status \in {"none", "deleted"}
    \/ record[k].status = "success" <=> delivered[k] > 0

(* A task accepted by the runner is worked off, also after Stop, unless a  *)
(* worker hangs in a silent mail server or the process ends.               *)
AcceptedIsServed ==
  \A n \in Notices :
    fate[n] = "waiting" ~> (fate[n] \in {"done", "lost"} \/ \E w \in Workers : sender[w].at = "hung")
=============================================================================
